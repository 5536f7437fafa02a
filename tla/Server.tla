-------------------------------- MODULE Server --------------------------------
(***************************************************************************)
(* A FunDB server and its clients: the PostgreSQL connection               *)
(* (crates/fundb-protocol/src/pg_wire.rs), the query handler               *)
(* (crates/fundb-server/src/handler.rs) that every connection shares and   *)
(* the command-line client (crates/fundb-cli/src/connection.rs).           *)
(*                                                                         *)
(* A connection is a pair of message queues.  The handler is split at its  *)
(* locks and writes: between two of its steps other connections run.  The  *)
(* catalog is in memory only; the rows written survive a restart.          *)
(*                                                                         *)
(* What texts mean is not this module's: parser, binder, optimizer and     *)
(* executor are parameters, which are FunQL's and QueryPlan's operators    *)
(* when the model is checked.                                              *)
(***************************************************************************)
EXTENDS Integers, Sequences, FiniteSets

CONSTANTS Clients, DefaultCollections,
          ClientQueries,   \* the statement trees each client may send
          TextOf,          \* the tokens a client sends for each
          MaxQueries, MaxRestarts, MaxFailures,
          CollectionNames, \* the collections statements may name
          Shortcut(_, _, _),             \* text, catalog, rows -> whether it is answered unparsed, and how
          ReadText(_), Binder(_, _),       \* text -> tree or error; tree, catalog -> plan or error
          Optimizer(_), Executor(_, _),  \* plan -> plan; plan, rows -> rows
          Recorder(_, _, _)              \* collection, row of an INSERT, id -> record

VARIABLES
  catalog,    \* the collections the binder knows
  store,      \* the rows written, in the order of their ids
  client,     \* what each client is doing, and the last answer it read
  job,        \* what the server's task of each connection is doing
  toServer, toClient,   \* messages in flight
  acked,      \* for each collection, the rows the clients were told are inserted
  known,      \* collections such an INSERT or CREATE registered since the last restart
  left        \* queries, restarts and write errors that may still happen

serverVars == <<catalog, store, client, job, toServer, toClient, acked, known, left>>

NoQuery == [k |-> "none"]
NoPlan == [op |-> "none"]
NoAnswer == [rows |-> <<>>, tag |-> "", n |-> 0, error |-> ""]
NewClient == [phase |-> "off", query |-> NoQuery, answer |-> NoAnswer, must |-> 0, sure |-> FALSE]
NoJob == [phase |-> "none", text |-> <<>>, ast |-> NoQuery, plan |-> NoPlan, next |-> 1]
At(task, phase) == [task EXCEPT !.phase = phase]

ServerInit ==
  /\ catalog = DefaultCollections
  /\ store = <<>>
  /\ client = [c \in Clients |-> NewClient]
  /\ job = [c \in Clients |-> NoJob]
  /\ toServer = [c \in Clients |-> <<>>]
  /\ toClient = [c \in Clients |-> <<>>]
  /\ acked = [d \in CollectionNames |-> 0]
  /\ known = {}
  /\ left = [queries |-> MaxQueries, restarts |-> MaxRestarts, failures |-> MaxFailures]

Phase(c, p) == client' = [client EXCEPT ![c].phase = p]
Send(c, m) == toServer' = [toServer EXCEPT ![c] = Append(@, m)]
TargetOf(q) == IF q.k = "select" /\ q.from.k # "none" THEN q.from.name
               ELSE IF q.k \in {"insert", "create"} THEN q.name ELSE <<>>

-----------------------------------------------------------------------------
(* The client. *)

\* FunDbConn::connect; other clients ask for SSL first and then start up.  The
\* task of the client's previous connection has ended.
Connect(c, ssl) ==
  /\ client[c].phase = "off"
  /\ job[c].phase \in {"none", "closed"} /\ toServer[c] = <<>>
  /\ left.queries > 0
  /\ Phase(c, IF ssl THEN "negotiating" ELSE "starting")
  /\ Send(c, [k |-> IF ssl THEN "ssl" ELSE "startup"])
  /\ job' = [job EXCEPT ![c].phase = "startup"]
  /\ UNCHANGED <<catalog, store, toClient, acked, known, left>>

\* simple_query: the query goes out, the answer is collected message by message.
SendQuery(c, q) ==
  /\ client[c].phase = "idle"
  /\ left.queries > 0
  /\ left' = [left EXCEPT !.queries = @ - 1]
  /\ client' = [client EXCEPT ![c] =
       [phase |-> "waiting", query |-> q, answer |-> NoAnswer,
        must |-> IF TargetOf(q) \in DOMAIN acked THEN acked[TargetOf(q)] ELSE 0, sure |-> TargetOf(q) \in known]]
  /\ Send(c, [k |-> "query", text |-> TextOf[q]])
  /\ UNCHANGED <<catalog, store, job, toClient, acked, known>>

\* An extended-protocol message instead of a simple query.
SendOther(c) ==
  /\ client[c].phase = "idle"
  /\ left.queries > 0
  /\ left' = [left EXCEPT !.queries = @ - 1]
  /\ Phase(c, "waiting")
  /\ Send(c, [k |-> "other"])
  /\ UNCHANGED <<catalog, store, job, toClient, acked, known>>

Close(c) ==
  /\ client[c].phase = "idle"
  /\ Phase(c, "off")
  /\ Send(c, [k |-> "terminate"])
  /\ UNCHANGED <<catalog, store, job, toClient, acked, known, left>>

\* What one message adds to the answer.
Collect(answer, m) ==
  CASE m.k = "data" -> [answer EXCEPT !.rows = Append(@, m.row)]
    [] m.k = "complete" -> [[answer EXCEPT !.tag = m.tag] EXCEPT !.n = m.n]
    [] m.k = "error" -> [answer EXCEPT !.error = m.code]
    [] OTHER -> answer
AnswerRead(answer, ms) ==
  LET read[i \in 0 .. Len(ms)] == IF i = 0 THEN answer ELSE Collect(read[i - 1], ms[i])
  IN read[Len(ms)]

\* The client has seen that a collection exists.
Acknowledged(q, answer) == q.k \in {"insert", "create"} /\ answer.error = "" /\ answer.tag # ""

\* The read loops of connect and simple_query: messages are collected up to
\* ready, which ends the startup or the answer.
ClientRead(c) ==
  LET cl == client[c]
      answer == AnswerRead(cl.answer, toClient[c])
  IN
  /\ toClient[c] # <<>>
  /\ toClient' = [toClient EXCEPT ![c] = <<>>]
  /\ client' = [client EXCEPT ![c] =
       IF cl.phase = "negotiating" THEN At(cl, "starting")
       ELSE At([cl EXCEPT !.answer = answer], IF toClient[c][Len(toClient[c])].k = "ready" THEN "idle" ELSE cl.phase)]
  /\ IF cl.phase = "negotiating" THEN Send(c, [k |-> "startup"]) ELSE UNCHANGED toServer
  /\ IF cl.phase = "waiting" /\ Acknowledged(cl.query, answer)
     THEN /\ known' = known \cup {cl.query.name}
          /\ acked' = [acked EXCEPT ![cl.query.name] = @ + answer.n]
     ELSE UNCHANGED <<known, acked>>
  /\ UNCHANGED <<catalog, store, job, left>>

\* The connection was closed: read_message fails and the client gives up.
ClientLost(c) ==
  /\ client[c].phase = "waiting"
  /\ job[c].phase = "closed"
  /\ toClient[c] = <<>>
  /\ client' = [client EXCEPT ![c] = NewClient]
  /\ job' = [job EXCEPT ![c] = NoJob]
  /\ toServer' = [toServer EXCEPT ![c] = <<>>]
  /\ UNCHANGED <<catalog, store, toClient, acked, known, left>>

-----------------------------------------------------------------------------
(* The connection's task. *)

Received(c, phases) == job[c].phase \in phases /\ toServer[c] # <<>>
Consume(c) == toServer' = [toServer EXCEPT ![c] = Tail(@)]
SendAll(c, ms) == toClient' = [toClient EXCEPT ![c] = @ \o ms]

\* PgConnection::startup declines SSL and waits for the startup message.
Startup(c) ==
  /\ Received(c, {"startup"})
  /\ Consume(c)
  /\ IF Head(toServer[c]).k = "ssl"
     THEN SendAll(c, <<[k |-> "no"]>>) /\ UNCHANGED job
     ELSE /\ SendAll(c, <<[k |-> "auth"], [k |-> "key"], [k |-> "ready"]>>)
          /\ job' = [job EXCEPT ![c].phase = "ready"]
  /\ UNCHANGED <<catalog, store, client, acked, known, left>>

\* read_frontend_message and the dispatch of run.
ReadMessage(c) ==
  LET m == Head(toServer[c]) IN
  /\ Received(c, {"ready"})
  /\ Consume(c)
  /\ CASE m.k = "query" /\ m.text = <<"EOF">> ->
            SendAll(c, <<[k |-> "empty"], [k |-> "ready"]>>) /\ UNCHANGED job
       [] m.k = "query" /\ m.text # <<"EOF">> ->
            job' = [job EXCEPT ![c] = At([NoJob EXCEPT !.text = m.text], "query")] /\ UNCHANGED toClient
       [] m.k # "query" -> job' = [job EXCEPT ![c] = At(NoJob, "closed")] /\ UNCHANGED toClient
  /\ UNCHANGED <<catalog, store, client, acked, known, left>>

\* The answers of run: rows only with columns, always ready at the end.
Complete(tag, n) == [k |-> "complete", tag |-> tag, n |-> n]
RowsReply(rows) ==
  (IF rows = <<>> THEN <<>> ELSE <<[k |-> "columns"]>> \o [i \in DOMAIN rows |-> [k |-> "data", row |-> rows[i]]])
  \o <<Complete("SELECT", Len(rows)), [k |-> "ready"]>>
\* Mutant: no ready after an error.
ErrorReplyMutant(code) == <<[k |-> "error", code |-> code]>>
ErrorReply(code) == <<[k |-> "error", code |-> code], [k |-> "ready"]>>
Reply(c, ms) == SendAll(c, ms) /\ job' = [job EXCEPT ![c] = At(NoJob, "ready")]

\* batch_to_query_result: the first record decides the columns of every row.
Null == [t |-> "null", v |-> 0]
DataRows(batch) ==
  [i \in DOMAIN batch |->
    [id |-> batch[i].id, conf |-> batch[i].conf,
     vals |-> [col \in DOMAIN batch[1].data |->
                IF col \in DOMAIN batch[i].data THEN batch[i].data[col] ELSE Null]]]

\* FunDBHandler::execute up to its first lock: a fast path, or the parser.
Parsed(c, parsed) ==
  IF parsed.ok
  THEN /\ job' = [job EXCEPT ![c] = At([job[c] EXCEPT !.ast = parsed.ast], IF parsed.ast.k = "create" THEN "create" ELSE "bind")]
       /\ UNCHANGED toClient
  ELSE Reply(c, ErrorReply("42601"))
Dispatch(c) ==
  /\ job[c].phase = "query"
  /\ LET fast == Shortcut(job[c].text, catalog, store)
     IN IF fast[1] THEN Reply(c, RowsReply(fast[2])) ELSE Parsed(c, ReadText(job[c].text))
  /\ UNCHANGED <<catalog, store, client, toServer, acked, known, left>>

\* CREATE registers the collection under the write lock, before it is bound.
RegisterCreate(c) ==
  /\ job[c].phase = "create"
  /\ catalog' = catalog \cup {job[c].ast.name}
  /\ job' = [job EXCEPT ![c].phase = "bind"]
  /\ UNCHANGED <<store, client, toServer, toClient, acked, known, left>>

BindStep(c) ==
  LET bound == Binder(job[c].ast, catalog) IN
  /\ job[c].phase = "bind"
  /\ IF bound.ok
     THEN /\ job' = [job EXCEPT ![c] = At([job[c] EXCEPT !.plan = bound.plan],
                                        IF bound.plan.op = "Insert" THEN "register" ELSE "execute")]
          /\ UNCHANGED toClient
     ELSE Reply(c, ErrorReply(bound.code))
  /\ UNCHANGED <<catalog, store, client, toServer, acked, known, left>>

\* Mutant: INSERT leaves the catalog alone.
RegisterInsertMutant(c) ==
  /\ job[c].phase = "register"
  /\ job' = [job EXCEPT ![c].phase = "write"]
  /\ UNCHANGED <<catalog, store, client, toServer, toClient, acked, known, left>>

\* INSERT registers its collection once it is bound, before its rows are written.
RegisterInsert(c) ==
  /\ job[c].phase = "register"
  /\ catalog' = catalog \cup {job[c].plan.name}
  /\ job' = [job EXCEPT ![c].phase = "write"]
  /\ UNCHANGED <<store, client, toServer, toClient, acked, known, left>>

\* One row of an INSERT is written; after the last one the tag counts the rows.
WriteRow(c) ==
  LET p == job[c].plan
      record == Recorder(p.name, p.rows[job[c].next], Len(store) + 1)
  IN
  /\ job[c].phase = "write"
  /\ store' = Append(store, record)
  /\ IF job[c].next = Len(p.rows)
     THEN Reply(c, <<Complete("INSERT", Len(p.rows)), [k |-> "ready"]>>)
     ELSE job' = [job EXCEPT ![c].next = @ + 1] /\ UNCHANGED toClient
  /\ UNCHANGED <<catalog, client, toServer, acked, known, left>>

\* LsmTree::write fails: the rows already written stay.
WriteFails(c) ==
  /\ job[c].phase = "write"
  /\ left.failures > 0
  /\ left' = [left EXCEPT !.failures = @ - 1]
  /\ Reply(c, ErrorReply("XX000"))
  /\ UNCHANGED <<catalog, store, client, toServer, acked, known>>

\* Executor::execute: the optimized plan over the rows of this moment.
RunPlan(c) ==
  /\ job[c].phase = "execute"
  /\ Reply(c, RowsReply(DataRows(Executor(Optimizer(job[c].plan), store))))
  /\ UNCHANGED <<catalog, store, client, toServer, acked, known, left>>

\* The process stops and starts again: connections, queues and catalog are gone.
Restart ==
  /\ left.restarts > 0
  /\ left' = [left EXCEPT !.restarts = @ - 1]
  /\ catalog' = DefaultCollections
  /\ client' = [c \in Clients |-> NewClient]
  /\ job' = [c \in Clients |-> NoJob]
  /\ toServer' = [c \in Clients |-> <<>>]
  /\ toClient' = [c \in Clients |-> <<>>]
  /\ known' = {}
  /\ UNCHANGED <<store, acked>>

-----------------------------------------------------------------------------

ServerStep(c) ==
  \/ Startup(c) \/ ReadMessage(c) \/ Dispatch(c) \/ RegisterCreate(c) \/ BindStep(c)
  \/ RegisterInsert(c) \/ WriteRow(c) \/ RunPlan(c)
ClientStep(c) == ClientRead(c) \/ ClientLost(c)
UserStep(c) ==
  \/ \E ssl \in BOOLEAN : Connect(c, ssl)
  \/ \E q \in ClientQueries[c] : SendQuery(c, q)
  \/ SendOther(c) \/ Close(c)
ServerNext ==
  \/ \E c \in Clients : ServerStep(c) \/ ClientStep(c) \/ UserStep(c) \/ WriteFails(c)
  \/ Restart

-----------------------------------------------------------------------------

\* What the theorems about the server need of the parameters, for records with
\* ids from Ids and stores of such records.  A SELECT, an INSERT or a CREATE is
\* read as what was written, and not by a fast path.  A SELECT of everything
\* finds at least the rows of its collection, or the collection is unknown; an
\* INSERT binds to its rows, a CREATE to a plan without any; nothing else writes.
IsRows(rows) == rows \in Seq({rows[i] : i \in DOMAIN rows})
RowsOf(coll, rows) == {i \in DOMAIN rows : rows[i].coll = coll}
SelectsAll(q) == q.k = "select" /\ q.where.k = "none" /\ q.limit.k = "none"
Kinds == {"select", "insert", "create"}
ReadBack(q, collections, Stores) ==
  /\ TextOf[q] # <<"EOF">> /\ ReadText(TextOf[q]).ok /\ ReadText(TextOf[q]).ast = q
  /\ \A rows \in Stores : ~Shortcut(TextOf[q], collections, rows)[1]
SelectBinds(q, collections, Stores) ==
  LET bound == Binder(q, collections)
  IN IF bound.ok
     THEN \A rows \in Stores : Len(Executor(Optimizer(bound.plan), rows)) >= Cardinality(RowsOf(TargetOf(q), rows))
     ELSE bound.code = "42P01" /\ TargetOf(q) \notin collections
InsertBinds(q, collections, Ids, Records) ==
  LET bound == Binder(q, collections)
  IN /\ bound.ok /\ bound.plan.op = "Insert" /\ bound.plan.name = q.name /\ q.name \in CollectionNames
     /\ IsRows(bound.plan.rows) /\ bound.plan.rows # <<>>
     /\ \A i \in DOMAIN bound.plan.rows, id \in Ids :
          LET record == Recorder(q.name, bound.plan.rows[i], id) IN record \in Records /\ record.coll = q.name
CreateBinds(q, collections, Stores) ==
  LET bound == Binder(q, collections)
  IN /\ bound.ok /\ q.name \in CollectionNames
     /\ \A rows \in Stores : Executor(Optimizer(bound.plan), rows) = <<>>
Reads(tree, collections, Stores) ==
  LET bound == Binder(tree, collections)
  IN bound.ok => bound.plan.op # "Insert" /\ \A rows \in Stores : IsRows(Executor(Optimizer(bound.plan), rows))
LanguageOK(Ids, Records, Stores) ==
  /\ DefaultCollections \subseteq CollectionNames
  /\ \A c \in Clients : \A q \in ClientQueries[c] : \A collections \in SUBSET CollectionNames :
       /\ \A rows \in Stores : IsRows(Shortcut(TextOf[q], collections, rows)[2])
       /\ q.k \in Kinds => ReadBack(q, collections, Stores)
       /\ SelectsAll(q) => SelectBinds(q, collections, Stores)
       /\ q.k = "insert" => InsertBinds(q, collections, Ids, Records)
       /\ q.k = "create" => CreateBinds(q, collections, Stores)
       /\ ReadText(TextOf[q]).ok =>
            /\ q.k # "insert" => Reads(ReadText(TextOf[q]).ast, collections, Stores)
            /\ q.k # "create" => ReadText(TextOf[q]).ast.k # "create"

(* What a client was told is inserted is found by every SELECT sent later:   *)
(* the answer has at least the rows the tags of the INSERTs counted, and the *)
(* collection is unknown only after a restart since which nobody inserted    *)
(* into it (the catalog is registered before the rows are written and before *)
(* the tag is sent, and is lost by a restart).                               *)
InsertVisible ==
  \A c \in Clients :
    LET cl == client[c] IN
    cl.phase = "idle" /\ SelectsAll(cl.query) =>
      \/ cl.answer.error = "" /\ Len(cl.answer.rows) >= cl.must /\ cl.answer.n = Len(cl.answer.rows)
      \/ cl.answer.error = "42P01" /\ ~cl.sure
=============================================================================
