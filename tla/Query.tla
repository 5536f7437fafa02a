-------------------------------- MODULE Query --------------------------------
(***************************************************************************)
(* The query side of FunDB under test: texts given to the parser, plans    *)
(* given to the optimizer, and clients that talk to a server, with what    *)
(* each of them promises.                                                  *)
(***************************************************************************)
EXTENDS Server, FastPaths

CONSTANTS Texts,       \* statement trees, each with a text that writes it
          Plans,       \* plans given to the optimizer
          SampleStore  \* the rows the plans are run on

VARIABLES task,        \* the text or plan being worked on
          outcome      \* the tree or the plan that came out

taskVars == <<task, outcome>>
NoTask == [k |-> "none"]

Read(parsed) == [k |-> IF parsed.ok THEN "parsed" ELSE "error", ast |-> parsed.ast]
ParseText ==
  /\ task.k = "text" /\ outcome.k = "none"
  /\ outcome' = Read(Parse(task.text))
  /\ UNCHANGED task

OptimizePlan ==
  /\ task.k = "plan" /\ outcome.k = "none"
  /\ outcome' = [k |-> "optimized", plan |-> Optimize(task.plan)]
  /\ UNCHANGED task

TaskInit ==
  /\ task \in {[k |-> "text", tree |-> x.tree, text |-> x.text] : x \in Texts} \cup [k : {"plan"}, plan : Plans]
  /\ outcome = NoTask

\* Weak fairness of the tasks of a connection and of its client, with the
\* condition under which each can move written out: a task that has something
\* to do moves again and again, or is again and again without work.
ServerBusy(c) ==
  \/ job[c].phase \in {"query", "create", "bind", "register", "write", "execute"}
  \/ job[c].phase \in {"startup", "ready"} /\ toServer[c] # <<>>
ServerMoves(c) == job'[c] # job[c] \/ Len(toServer'[c]) < Len(toServer[c])
ClientBusy(c) == toClient[c] # <<>> \/ (client[c].phase = "waiting" /\ job[c].phase = "closed")
ClientMoves(c) == client'[c] # client[c] \/ Len(toClient'[c]) < Len(toClient[c])
QueryFairness ==
  \A c \in Clients :
    /\ []<>~ServerBusy(c) \/ []<><<ServerMoves(c)>>_serverVars
    /\ []<>~ClientBusy(c) \/ []<><<ClientMoves(c)>>_serverVars

-----------------------------------------------------------------------------

(* A statement written with the fewest parentheses its precedences allow,    *)
(* its clauses in either order, is read back as the same tree: the chain of  *)
(* parse_or_expr .. parse_primary_expr groups operators as written, and the  *)
(* clause loops of the statements take every clause once and drop none.      *)
ParsesBack ==
  outcome.k \in {"parsed", "error"} => outcome.k = "parsed" /\ outcome.ast = task.tree

(* The rules of the optimizer, applied together until nothing changes, never *)
(* change the rows a plan gives, or their order.                             *)
PlansAgree ==
  outcome.k = "optimized" => Execute(outcome.plan, SampleStore) = Execute(task.plan, SampleStore)

\* What a WHERE of comparisons means, without the plan: a field that is
\* missing or NULL satisfies none.
Sides(w) == IF w.l.k = "ident" THEN <<w.l, w.r, w.op>>
            ELSE <<w.r, w.l, CASE w.op = "Lt" -> "Gt" [] w.op = "Gt" -> "Lt" [] OTHER -> w.op>>
FieldOf(row, n) ==
  IF n = "_confidence" THEN [t |-> "float", v |-> row.conf]
  ELSE IF <<n>> \in DOMAIN row.data THEN row.data[<<n>>] ELSE Null
RECURSIVE Satisfies(_, _)
Satisfies(w, row) ==
  CASE w.k = "none" -> TRUE
    [] w.k = "bin" /\ w.op = "And" -> Satisfies(w.l, row) /\ Satisfies(w.r, row)
    [] w.k = "bin" /\ w.op # "And" ->
         LET s == Sides(w)
             f == FieldOf(row, s[1].n)
             x == ValueOf[s[2].v]
         IN  f.t \in {"int", "float"} /\ CASE s[3] = "Eq" -> f.v = x [] s[3] = "Lt" -> f.v < x [] s[3] = "Gt" -> f.v > x

Infinity == 1000
\* Whether row i comes before row j: NULL is the greatest value, ties by age.
OrderedBefore(q, i, j) ==
  LET Key1(r) == LET f == FieldOf(store[r], q.orderBy[1].e.n) IN IF f.t = "null" THEN Infinity ELSE f.v
  IN  IF q.orderBy = <<>> \/ Key1(i) = Key1(j) THEN i < j
      ELSE (Key1(i) < Key1(j)) = q.orderBy[1].asc

ExactAnswer(q, rows) ==
  LET wanted == {i \in DOMAIN store : store[i].coll = q.from.name /\ Satisfies(q.where, store[i])}
      limit == IF q.limit.k = "none" THEN Infinity ELSE ValueOf[q.limit.v] \div Tenths
      found == {rows[i].id : i \in DOMAIN rows}
  IN  /\ found \subseteq wanted
      /\ Len(rows) = Cardinality(found)
      /\ Len(rows) = IF limit < Cardinality(wanted) THEN limit ELSE Cardinality(wanted)
      /\ \A i, j \in DOMAIN rows : i < j => OrderedBefore(q, rows[i].id, rows[j].id)
      /\ \A i \in found, j \in wanted \ found : OrderedBefore(q, i, j)
      /\ \A i \in DOMAIN rows : \A col \in DOMAIN rows[i].vals :
           rows[i].vals[col] = FieldOf(store[rows[i].id], col[1])

\* The rows a step of the server sends to a client.
SentRows(c) ==
  LET sent == SelectSeq(SubSeq(toClient'[c], Len(toClient[c]) + 1, Len(toClient'[c])), LAMBDA m : m.k = "data")
  IN  [i \in DOMAIN sent |-> sent[i].row]
Runs(c) == job[c].phase = "execute" /\ job'[c].phase = "ready"

(* A SELECT with WHERE, ORDER BY and LIMIT, sent as text, parsed, bound,     *)
(* optimized and executed, answers with exactly the rows of its collection   *)
(* that the condition wants: all of them or the first LIMIT, in order, with  *)
(* the values stored (the whole path of FunDBHandler::execute).              *)
AnswerMatches ==
  [][\A c \in Clients : Runs(c) /\ client[c].query.k = "select"
       => ExactAnswer(client[c].query, SentRows(c))]_serverVars

(* Every query is answered, or its connection is lost: the handler always    *)
(* gets its locks, sends ReadyForQuery at the end, also after an error, and  *)
(* the client reads up to it.                                                *)
QueriesAnswered == \A c \in Clients : client[c].phase = "waiting" ~> client[c].phase # "waiting"

(* The comment of flip_op: `5.0 > _confidence` is `_confidence < 5.0`.  A    *)
(* SELECT with the number on the left finds the rows the turned comparison   *)
(* finds.                                                                    *)
ConfidenceTurns ==
  [][\A c \in Clients : Runs(c) /\ client[c].query.k = "select" /\ client[c].query.where.k = "bin"
       => {r.id : r \in Range(SentRows(c))} =
          {i \in DOMAIN store : Satisfies(client[c].query.where, store[i])}]_serverVars
=============================================================================
