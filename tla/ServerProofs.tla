------------------------------ MODULE ServerProofs ------------------------------
(***************************************************************************)
(* What clients were told is inserted is found: InsertVisible, for any     *)
(* number of clients, queries, restarts and failed writes.                 *)
(*                                                                         *)
(* The invariant has three parts.  Connections says which state each       *)
(* connection is in: a client and the task that serves it agree on who     *)
(* speaks next, the task holds what its client asked for, and an answer is *)
(* sent whole.  Ledger gives every connection rows of its own, as many as  *)
(* it wrote and its client was not told of; the rows of a collection that  *)
(* nobody owns are at least as many as the tags counted.  Globals is the   *)
(* rest: what a client knows to exist is in the catalog.                   *)
(*                                                                         *)
(* Steps that neither write nor count rows are quiet (Quiet) and keep the  *)
(* ledger as it is; WriteRow, WriteFails, the tag of an INSERT and Restart *)
(* move rows from one owner to another.                                    *)
(***************************************************************************)
EXTENDS Server, NatLemmas, SequenceTheorems, FiniteSetTheorems

\* The rows a server may hold.
CONSTANT Records

\* The server alone, without the fairness that only the answers need.
HandlerSpec == ServerInit /\ [][ServerNext]_serverVars

-----------------------------------------------------------------------------
(* What is read of the messages of an answer. *)

Collecting(g, answer, ms) == g = [i \in 0 .. Len(ms) |-> IF i = 0 THEN answer ELSE Collect(g[i - 1], ms[i])]

\* The answer after each message determines the answer read.
LEMMA ReadIs ==
  ASSUME NEW answer, NEW ms, Len(ms) \in Nat,
         NEW g, Collecting(g, answer, ms)
  PROVE  AnswerRead(answer, ms) = g[Len(ms)]
<1> DEFINE n == Len(ms)
           Step(h) == [i \in 0 .. n |-> IF i = 0 THEN answer ELSE Collect(h[i - 1], ms[i])]
           w == CHOOSE h : h = Step(h)
           T == {i \in 0 .. n : w[i] = g[i]}
<1>1. w = Step(w) BY DEF Collecting
<1>2. n \in Nat OBVIOUS
<1>3. AnswerRead(answer, ms) = w[n] BY DEF AnswerRead
<1> HIDE DEF w
<1>4. 0 \in T
  <2>1. w[0] = answer BY <1>1, <1>2
  <2>2. g[0] = answer BY <1>2 DEF Collecting
  <2> QED BY <1>2, <2>1, <2>2
<1>5. ASSUME NEW k \in 0 .. n - 1, k \in T PROVE k + 1 \in T
  <2>1. k + 1 \in 0 .. n /\ k + 1 # 0 /\ k + 1 - 1 = k BY <1>2
  <2>2. w[k + 1] = Collect(w[k], ms[k + 1]) BY <1>1, <2>1
  <2>3. g[k + 1] = Collect(g[k], ms[k + 1]) BY <2>1 DEF Collecting
  <2> QED BY <1>5, <2>1, <2>2, <2>3
<1>6. 0 .. n \subseteq T
  <2> HIDE DEF T, n
  <2> QED BY <1>2, <1>4, <1>5, UpTo
<1> QED BY <1>2, <1>3, <1>6

AnswerOf(rows, tag, n, error) == [rows |-> rows, tag |-> tag, n |-> n, error |-> error]

\* Messages that add nothing to the answer.
LEMMA CollectNothing ==
  ASSUME NEW a, NEW k \in {"columns", "ready", "empty", "auth", "key"}
  PROVE  Collect(a, [k |-> k]) = a
<1>1. PICK m : m = [k |-> k] OBVIOUS
<1>2. m.k # "data" /\ m.k # "complete" /\ m.k # "error" BY <1>1
<1>3. Collect(a, m) = a BY <1>2 DEF Collect
<1> QED BY <1>1, <1>3

\* Answers without rows.
LEMMA ShortRead ==
  /\ \A a, x, y : AnswerRead(a, <<x, y>>) = Collect(Collect(a, x), y)
  /\ \A a, x, y, z : AnswerRead(a, <<x, y, z>>) = Collect(Collect(Collect(a, x), y), z)
<1>1. ASSUME NEW a, NEW x, NEW y PROVE AnswerRead(a, <<x, y>>) = Collect(Collect(a, x), y)
  <2> DEFINE g == [i \in 0 .. 2 |-> IF i = 0 THEN a ELSE IF i = 1 THEN Collect(a, x) ELSE Collect(Collect(a, x), y)]
  <2>1. g = [i \in 0 .. Len(<<x, y>>) |-> IF i = 0 THEN a ELSE Collect(g[i - 1], <<x, y>>[i])] OBVIOUS
  <2>2. PICK ms : ms = <<x, y>> OBVIOUS
  <2>3. Len(ms) = 2 /\ g[2] = Collect(Collect(a, x), y) BY <2>2
  <2>4. Collecting(g, a, ms) BY <2>1, <2>2 DEF Collecting
  <2> HIDE DEF g
  <2>5. Len(ms) \in Nat BY <2>3
  <2>6. AnswerRead(a, ms) = g[Len(ms)] BY <2>4, <2>5, ReadIs
  <2> QED BY <2>2, <2>3, <2>6
<1>2. ASSUME NEW a, NEW x, NEW y, NEW z
      PROVE AnswerRead(a, <<x, y, z>>) = Collect(Collect(Collect(a, x), y), z)
  <2> DEFINE g == [i \in 0 .. 3 |-> IF i = 0 THEN a ELSE IF i = 1 THEN Collect(a, x)
                                    ELSE IF i = 2 THEN Collect(Collect(a, x), y) ELSE Collect(Collect(Collect(a, x), y), z)]
  <2>1. g = [i \in 0 .. Len(<<x, y, z>>) |-> IF i = 0 THEN a ELSE Collect(g[i - 1], <<x, y, z>>[i])] OBVIOUS
  <2>2. PICK ms : ms = <<x, y, z>> OBVIOUS
  <2>3. Len(ms) = 3 /\ g[3] = Collect(Collect(Collect(a, x), y), z) BY <2>2
  <2>4. Collecting(g, a, ms) BY <2>1, <2>2 DEF Collecting
  <2> HIDE DEF g
  <2>5. Len(ms) \in Nat BY <2>3
  <2>6. AnswerRead(a, ms) = g[Len(ms)] BY <2>4, <2>5, ReadIs
  <2> QED BY <2>2, <2>3, <2>6
<1> QED BY <1>1, <1>2

\* One more row of a prefix.
LEMMA NextPrefix ==
  ASSUME NEW rows, IsRows(rows), NEW k \in Nat, k + 1 <= Len(rows)
  PROVE  Append([i \in 1 .. k |-> rows[i]], rows[k + 1]) = [i \in 1 .. k + 1 |-> rows[i]]
<1> DEFINE V == {rows[i] : i \in DOMAIN rows}
           p == [i \in 1 .. k |-> rows[i]]
<1>1. rows \in Seq(V) /\ Len(rows) \in Nat /\ DOMAIN rows = 1 .. Len(rows) BY DEF IsRows
<1>2. \A i \in 1 .. Len(rows) : rows[i] \in V BY <1>1
<1> HIDE DEF V
<1>3. p \in [1 .. k -> V] BY <1>1, <1>2
<1>4. p \in Seq(V) /\ Len(p) = k BY <1>3
<1>5. \A i \in 1 .. k : p[i] = rows[i] OBVIOUS
<1>6. k + 1 \in 1 .. Len(rows) BY <1>1
<1>7. rows[k + 1] \in V BY <1>2, <1>6
<1> HIDE DEF p
<1> DEFINE q == Append(p, rows[k + 1])
<1>8. /\ q \in Seq(V) /\ Len(q) = k + 1 /\ q[k + 1] = rows[k + 1]
      /\ \A i \in 1 .. k : q[i] = p[i]
  BY <1>4, <1>7
<1>9. DOMAIN q = 1 .. k + 1 BY <1>8
<1>10. q = [i \in 1 .. k + 1 |-> q[i]] BY <1>8, <1>9
<1>11. \A i \in 1 .. k + 1 : q[i] = rows[i] BY <1>5, <1>8
<1> HIDE DEF q
<1>12. q = [i \in 1 .. k + 1 |-> rows[i]] BY <1>10, <1>11
<1> QED BY <1>12 DEF q, p

LEMMA RowsLen ==
  ASSUME NEW rows, IsRows(rows)
  PROVE  /\ Len(rows) \in Nat /\ DOMAIN rows = 1 .. Len(rows)
         /\ rows = [i \in 1 .. Len(rows) |-> rows[i]]
         /\ rows = <<>> <=> Len(rows) = 0
<1>1. PICK V : rows \in Seq(V) BY DEF IsRows
<1>2. Len(rows) \in Nat /\ DOMAIN rows = 1 .. Len(rows) BY <1>1
<1>3. rows = [i \in 1 .. Len(rows) |-> rows[i]] BY <1>1, <1>2
<1>4. rows = <<>> <=> Len(rows) = 0 BY <1>1
<1> QED BY <1>2, <1>3, <1>4

Joins(h, a, b) == h = a \o b

\* The elements of a concatenation.
LEMMA Joined ==
  ASSUME NEW V, NEW a \in Seq(V), NEW b \in Seq(V), NEW h, Joins(h, a, b)
  PROVE  /\ h \in Seq(V) /\ Len(h) = Len(a) + Len(b)
         /\ \A i \in 1 .. Len(a) : h[i] = a[i]
         /\ \A i \in 1 .. Len(b) : h[Len(a) + i] = b[i]
<1>1. h \in Seq(V) /\ Len(h) = Len(a) + Len(b) BY ConcatProperties DEF Joins
<1>2. \A i \in 1 .. Len(a) + Len(b) : h[i] = IF i <= Len(a) THEN a[i] ELSE b[i - Len(a)] BY ConcatProperties DEF Joins
<1>3. PICK m \in Nat, n \in Nat : m = Len(a) /\ n = Len(b) OBVIOUS
<1>4. \A i \in 1 .. m + n : h[i] = IF i <= m THEN a[i] ELSE b[i - m] BY <1>2, <1>3
<1>5. \A i \in 1 .. m : h[i] = a[i] BY <1>4
<1>6. \A i \in 1 .. n : h[m + i] = b[i]
  <2> SUFFICES ASSUME NEW i \in 1 .. n PROVE h[m + i] = b[i]
    OBVIOUS
  <2>1. m + i \in 1 .. m + n /\ ~(m + i <= m) /\ m + i - m = i OBVIOUS
  <2> QED BY <1>4, <2>1
<1> QED BY <1>1, <1>3, <1>5, <1>6

\* The messages of rows, one by one.
LEMMA RowsMessages ==
  ASSUME NEW rows, IsRows(rows), rows # <<>>
  PROVE  LET ms == RowsReply(rows)
             n == Len(rows)
         IN  /\ Len(ms) = n + 3
             /\ ms[1] = [k |-> "columns"]
             /\ \A i \in 1 .. n : ms[i + 1] = [k |-> "data", row |-> rows[i]]
             /\ ms[n + 2] = Complete("SELECT", n)
             /\ ms[n + 3] = [k |-> "ready"]
<1> DEFINE n == Len(rows)
           data == [i \in DOMAIN rows |-> [k |-> "data", row |-> rows[i]]]
           V == {data[i] : i \in 1 .. n} \cup {[k |-> "columns"], Complete("SELECT", n), [k |-> "ready"]}
           head == <<[k |-> "columns"]>>
           last == <<Complete("SELECT", n), [k |-> "ready"]>>
<1>1. n \in Nat /\ DOMAIN rows = 1 .. n BY RowsLen
<1>2. \A i \in 1 .. n : data[i] = [k |-> "data", row |-> rows[i]] BY <1>1
<1>3. data \in [1 .. n -> V] BY <1>1
<1>4. data \in Seq(V) /\ Len(data) = n BY <1>1, <1>3
<1>5. head \in Seq(V) /\ Len(head) = 1 /\ head[1] = [k |-> "columns"] OBVIOUS
<1>6. /\ last \in Seq(V) /\ Len(last) = 2
      /\ last[1] = Complete("SELECT", n) /\ last[2] = [k |-> "ready"] OBVIOUS
<1>7. RowsReply(rows) = (head \o data) \o last BY DEF RowsReply
<1> HIDE DEF data, head, last, V, n
<1>8. PICK hd : Joins(hd, head, data) BY DEF Joins
<1>9. /\ hd \in Seq(V) /\ Len(hd) = n + 1 /\ hd[1] = [k |-> "columns"]
      /\ \A i \in 1 .. n : hd[i + 1] = data[i]
  <2>3. head \in Seq(V) /\ data \in Seq(V) BY <1>4, <1>5
  <2>4. /\ hd \in Seq(V) /\ Len(hd) = Len(head) + Len(data)
        /\ \A i \in 1 .. Len(head) : hd[i] = head[i]
        /\ \A i \in 1 .. Len(data) : hd[Len(head) + i] = data[i]
    BY <1>8, <2>3, Joined
  <2>5. Len(head) = 1 /\ Len(data) = n BY <1>4, <1>5
  <2>1. /\ hd \in Seq(V) /\ Len(hd) = 1 + n
        /\ \A i \in 1 .. 1 : hd[i] = head[i]
        /\ \A i \in 1 .. n : hd[1 + i] = data[i]
    BY <2>4, <2>5
  <2>2. 1 + n = n + 1 /\ \A i \in 1 .. n : 1 + i = i + 1 BY <1>1
  <2> QED BY <1>5, <2>1, <2>2
<1>10. PICK ms : Joins(ms, hd, last) BY DEF Joins
<1>11. /\ Len(ms) = n + 3
       /\ \A i \in 1 .. n + 1 : ms[i] = hd[i]
       /\ ms[n + 2] = last[1] /\ ms[n + 3] = last[2]
  <2>3. hd \in Seq(V) /\ last \in Seq(V) BY <1>6, <1>9
  <2>4. /\ Len(ms) = Len(hd) + Len(last)
        /\ \A i \in 1 .. Len(hd) : ms[i] = hd[i]
        /\ \A i \in 1 .. Len(last) : ms[Len(hd) + i] = last[i]
    BY <1>10, <2>3, Joined
  <2>5. Len(hd) = n + 1 /\ Len(last) = 2 BY <1>6, <1>9
  <2>1. /\ Len(ms) = n + 1 + 2
        /\ \A i \in 1 .. n + 1 : ms[i] = hd[i]
        /\ \A i \in 1 .. 2 : ms[n + 1 + i] = last[i]
    BY <2>4, <2>5
  <2>2. n + 1 + 1 = n + 2 /\ n + 1 + 2 = n + 3 /\ 1 \in 1 .. 2 /\ 2 \in 1 .. 2 BY <1>1
  <2> QED BY <2>1, <2>2
<1>12. \A i \in 1 .. n : ms[i + 1] = [k |-> "data", row |-> rows[i]]
  <2> SUFFICES ASSUME NEW i \in 1 .. n PROVE ms[i + 1] = [k |-> "data", row |-> rows[i]]
    OBVIOUS
  <2>1. i + 1 \in 1 .. n + 1 BY <1>1
  <2> QED BY <1>2, <1>9, <1>11, <2>1
<1>13. ms[1] = [k |-> "columns"] BY <1>1, <1>9, <1>11
<1>14. ms = RowsReply(rows) BY <1>7, <1>8, <1>10 DEF Joins
<1> QED BY <1>6, <1>11, <1>12, <1>13, <1>14 DEF n

\* A client reads exactly the rows sent, and their number.
LEMMA RowsRead ==
  ASSUME NEW rows, IsRows(rows)
  PROVE  AnswerRead(NoAnswer, RowsReply(rows)) = AnswerOf(rows, "SELECT", Len(rows), "")
<1>1. NoAnswer = AnswerOf(<<>>, "", 0, "") BY DEF NoAnswer, AnswerOf
<1>2. CASE rows = <<>>
  <2>1. Len(rows) = 0 BY <1>2
  <2>2. RowsReply(rows) = <<Complete("SELECT", 0), [k |-> "ready"]>> BY <1>2, <2>1 DEF RowsReply
  <2>3. AnswerRead(NoAnswer, RowsReply(rows)) = Collect(Collect(NoAnswer, Complete("SELECT", 0)), [k |-> "ready"])
    BY <2>2, ShortRead
  <2>4. Collect(NoAnswer, Complete("SELECT", 0)) = AnswerOf(<<>>, "SELECT", 0, "") BY <1>1 DEF Collect, AnswerOf, Complete
  <2> QED BY <1>2, <2>1, <2>3, <2>4, CollectNothing
<1>3. CASE rows # <<>>
  <2> DEFINE n == Len(rows)
             prefix == [k \in Nat |-> [i \in 1 .. k |-> rows[i]]]
             at == [k \in Nat |-> AnswerOf(prefix[k], "", 0, "")]
             end == AnswerOf(rows, "SELECT", n, "")
             g == [i \in 0 .. n + 3 |-> IF i = 0 THEN NoAnswer ELSE IF i <= n + 1 THEN at[i - 1] ELSE end]
  <2>1. n \in Nat /\ rows = prefix[n] BY RowsLen
  <2>2. PICK ms : ms = RowsReply(rows) OBVIOUS
  <2>3. /\ Len(ms) = n + 3 /\ ms[1] = [k |-> "columns"]
        /\ \A i \in 1 .. n : ms[i + 1] = [k |-> "data", row |-> rows[i]]
        /\ ms[n + 2] = Complete("SELECT", n) /\ ms[n + 3] = [k |-> "ready"]
    BY <1>3, <2>2, RowsMessages
  <2>4. \A k \in Nat : k + 1 <= n => Append(prefix[k], rows[k + 1]) = prefix[k + 1]
    <3> SUFFICES ASSUME NEW k \in Nat, k + 1 <= n PROVE Append(prefix[k], rows[k + 1]) = prefix[k + 1]
      OBVIOUS
    <3>1. prefix[k] = [i \in 1 .. k |-> rows[i]] /\ prefix[k + 1] = [i \in 1 .. k + 1 |-> rows[i]] OBVIOUS
    <3> QED BY <3>1, NextPrefix
  <2>5. prefix[0] = <<>> OBVIOUS
  <2> HIDE DEF prefix
  <2>6. at[0] = NoAnswer BY <1>1, <2>5
  <2>7. \A k \in Nat : at[k] = AnswerOf(prefix[k], "", 0, "") OBVIOUS
  <2> HIDE DEF n, at
  <2>8. ASSUME NEW k \in 1 .. n PROVE Collect(at[k - 1], ms[k + 1]) = at[k]
    <3>1. k - 1 \in Nat /\ k - 1 + 1 = k /\ k \in Nat /\ k <= n BY <2>1
    <3>2. PICK p, q : p = prefix[k - 1] /\ q = prefix[k] OBVIOUS
    <3>3. Append(p, rows[k]) = q BY <2>4, <3>1, <3>2
    <3>4. at[k - 1] = AnswerOf(p, "", 0, "") /\ at[k] = AnswerOf(q, "", 0, "") BY <2>7, <3>1, <3>2
    <3>5. PICK m : m = ms[k + 1] OBVIOUS
    <3>6. m = [k |-> "data", row |-> rows[k]] BY <2>3, <3>5
    <3>7. Collect(AnswerOf(p, "", 0, ""), m) = AnswerOf(Append(p, rows[k]), "", 0, "") BY <3>6 DEF Collect, AnswerOf
    <3> QED BY <3>3, <3>4, <3>5, <3>7
  <2>9. Collect(at[n], ms[n + 2]) = end
    <3>1. at[n] = AnswerOf(rows, "", 0, "") BY <2>1, <2>7
    <3>2. PICK m : m = ms[n + 2] OBVIOUS
    <3>3. m = Complete("SELECT", n) BY <2>3, <3>2
    <3>4. Collect(AnswerOf(rows, "", 0, ""), m) = end BY <3>3 DEF Collect, AnswerOf, Complete
    <3> QED BY <3>1, <3>2, <3>4
  <2>10. Collect(end, ms[n + 3]) = end
    <3> HIDE DEF end
    <3> QED BY <2>3, CollectNothing
  <2>11. Collect(NoAnswer, ms[1]) = NoAnswer BY <2>3, CollectNothing
  <2> HIDE DEF end
  <2>17. g = [i \in 0 .. n + 3 |-> g[i]] OBVIOUS
  <2>12. /\ n \in Nat /\ g[0] = NoAnswer
         /\ \A i \in 1 .. n + 1 : g[i] = at[i - 1]
         /\ g[n + 2] = end /\ g[n + 3] = end
    BY <2>1
  <2> HIDE DEF g
  <2>13. ASSUME NEW i \in 0 .. n + 3, i # 0 PROVE g[i] = Collect(g[i - 1], ms[i])
    <3>1. CASE i = 1
      <4>1. g[1] = at[0] /\ i - 1 = 0 BY <2>1, <2>12, <3>1
      <4> QED BY <2>6, <2>11, <2>12, <3>1, <4>1
    <3>2. CASE i \in 2 .. n + 1
      <4>1. PICK k \in 1 .. n : i = k + 1
        <5>1. i - 1 \in 1 .. n /\ i = i - 1 + 1 BY <2>1, <3>2
        <5> QED BY <5>1
      <4>2. k \in 1 .. n + 1 /\ k + 1 \in 1 .. n + 1 /\ k + 1 - 1 = k BY <2>1, <4>1
      <4>3. g[k + 1] = at[k] /\ g[k] = at[k - 1] BY <2>12, <4>2
      <4> QED BY <2>8, <4>1, <4>2, <4>3
    <3>3. CASE i = n + 2
      <4>1. n + 1 \in 1 .. n + 1 /\ n + 1 - 1 = n /\ i - 1 = n + 1 BY <2>1, <3>3
      <4>2. g[n + 1] = at[n] BY <2>12, <4>1
      <4> QED BY <2>9, <2>12, <3>3, <4>1, <4>2
    <3>4. CASE i = n + 3
      <4>1. i - 1 = n + 2 BY <2>1, <3>4
      <4> QED BY <2>10, <2>12, <3>4, <4>1
    <3> QED BY <2>1, <2>13, <3>1, <3>2, <3>3, <3>4
  <2>14. Collecting(g, NoAnswer, ms) BY <2>3, <2>12, <2>13, <2>17 DEF Collecting
  <2>15. Len(ms) \in Nat BY <2>1, <2>3
  <2>16. AnswerRead(NoAnswer, ms) = g[Len(ms)] BY <2>14, <2>15, ReadIs
  <2> QED BY <2>2, <2>3, <2>12, <2>16 DEF n, end
<1> QED BY <1>2, <1>3

-----------------------------------------------------------------------------
(* The inductive invariant. *)

Stores == Seq(Records)
Language == LanguageOK(Nat, Records, Stores)

\* The fields of what a client and a connection's task hold.
ClientRecord(phase, query, answer, must, sure) ==
  [phase |-> phase, query |-> query, answer |-> answer, must |-> must, sure |-> sure]
IsClient(cl) == cl = ClientRecord(cl.phase, cl.query, cl.answer, cl.must, cl.sure)
JobRecord(phase, text, ast, plan, next) == [phase |-> phase, text |-> text, ast |-> ast, plan |-> plan, next |-> next]
IsJob(j) == j = JobRecord(j.phase, j.text, j.ast, j.plan, j.next)

\* What InsertVisible says of the last answer a client read.
Good(cl) ==
  SelectsAll(cl.query) =>
    \/ cl.answer.error = "" /\ Len(cl.answer.rows) >= cl.must /\ cl.answer.n = Len(cl.answer.rows)
    \/ cl.answer.error = "42P01" /\ ~cl.sure

\* What a client that waits for an answer was promised when it asked.
Promised(cl, cat, st) ==
  /\ cl.answer = NoAnswer
  /\ cl.must \in Nat /\ cl.must <= Cardinality(RowsOf(TargetOf(cl.query), st))
  /\ cl.sure => TargetOf(cl.query) \in cat

\* A plan that writes rows of its statement's collection, and one that reads.
InsertPlan(q, p) ==
  /\ q.k = "insert" /\ p.name = q.name /\ q.name \in CollectionNames
  /\ IsRows(p.rows) /\ p.rows # <<>>
  /\ \A i \in DOMAIN p.rows, id \in Nat :
       Recorder(q.name, p.rows[i], id) \in Records /\ Recorder(q.name, p.rows[i], id).coll = q.name
ReadPlan(q, p) ==
  /\ q.k # "insert"
  /\ \A st \in Stores : IsRows(Executor(Optimizer(p), st))
  /\ SelectsAll(q) => \A st \in Stores : Len(Executor(Optimizer(p), st)) >= Cardinality(RowsOf(TargetOf(q), st))
  /\ q.k = "create" => \A st \in Stores : Executor(Optimizer(p), st) = <<>>

\* The collection of a CREATE that was registered.
Registered(q, cat) == q.k = "create" => q.name \in cat /\ q.name \in CollectionNames

\* What the task of a connection holds while it works on the statement q.
Busy(q, j, cat) ==
  \/ j.phase = "query" /\ j.text = TextOf[q]
  \/ j.phase = "create" /\ q.k = "create" /\ ReadText(TextOf[q]).ok /\ j.ast = ReadText(TextOf[q]).ast
  \/ j.phase = "bind" /\ ReadText(TextOf[q]).ok /\ j.ast = ReadText(TextOf[q]).ast /\ Registered(q, cat)
  \/ j.phase = "register" /\ InsertPlan(q, j.plan)
  \/ j.phase = "write" /\ InsertPlan(q, j.plan) /\ q.name \in cat /\ j.next \in 1 .. Len(j.plan.rows)
  \/ j.phase = "execute" /\ ReadPlan(q, j.plan) /\ Registered(q, cat)

\* The answers in flight.
InsertReply(n) == <<Complete("INSERT", n), [k |-> "ready"]>>
EmptyReply == <<[k |-> "empty"], [k |-> "ready"]>>
Greeting == <<[k |-> "auth"], [k |-> "key"], [k |-> "ready"]>>
RefusedWith(cl, code) == SelectsAll(cl.query) => code = "42P01" /\ ~cl.sure
ShownWith(cl, rows, cat) ==
  /\ IsRows(rows) /\ cl.query.k # "insert" /\ Registered(cl.query, cat)
  /\ SelectsAll(cl.query) => Len(rows) >= cl.must
  /\ cl.query.k = "create" => rows = <<>>
InsertedWith(cl, n, cat) ==
  n \in Nat /\ cl.query.k = "insert" /\ cl.query.name \in cat /\ cl.query.name \in CollectionNames
Replied(cl, out, cat) ==
  \/ \E code : out = ErrorReply(code) /\ RefusedWith(cl, code)
  \/ \E rows : out = RowsReply(rows) /\ ShownWith(cl, rows, cat)
  \/ \E n : out = InsertReply(n) /\ InsertedWith(cl, n, cat)
  \/ out = EmptyReply /\ cl.query.k \notin Kinds

\* The states of a connection: a client and the task that serves it agree on
\* who speaks next, and every answer is sent whole.
Off(cl, j, in, out) ==
  /\ cl.phase = "off" /\ Good(cl) /\ out = <<>>
  /\ \/ j.phase \in {"none", "closed"} /\ in = <<>>
     \/ j.phase = "ready" /\ in = <<[k |-> "terminate"]>>
Negotiating(cl, j, in, out) ==
  /\ cl.phase = "negotiating" /\ Good(cl) /\ j.phase = "startup"
  /\ \/ in = <<[k |-> "ssl"]>> /\ out = <<>>
     \/ in = <<>> /\ out = <<[k |-> "no"]>>
Starting(cl, j, in, out) ==
  /\ cl.phase = "starting" /\ Good(cl)
  /\ \/ j.phase = "startup" /\ in = <<[k |-> "startup"]>> /\ out = <<>>
     \/ j.phase = "ready" /\ in = <<>> /\ out = Greeting
Idle(cl, j, in, out) ==
  cl.phase = "idle" /\ Good(cl) /\ j.phase = "ready" /\ in = <<>> /\ out = <<>>
Losing(cl, j, in, out) ==
  /\ cl.phase = "waiting" /\ out = <<>>
  /\ \/ j.phase = "ready" /\ in = <<[k |-> "other"]>>
     \/ j.phase = "closed" /\ in = <<>>
Asks(c, cl, cat, st) == cl.phase = "waiting" /\ cl.query \in ClientQueries[c] /\ Promised(cl, cat, st)
Asking(cl, j, in, out) ==
  j.phase = "ready" /\ in = <<[k |-> "query", text |-> TextOf[cl.query]]>> /\ out = <<>>
Working(cl, j, in, out, cat) == Busy(cl.query, j, cat) /\ in = <<>> /\ out = <<>>
Told(cl, j, in, out, cat) == j.phase = "ready" /\ in = <<>> /\ Replied(cl, out, cat)
Shapes(cl, j) == IsClient(cl) /\ IsJob(j) /\ (j.phase # "write" => j.next = 1)
Conn(c, cl, j, in, out, cat, st) ==
  /\ Shapes(cl, j)
  /\ \/ Off(cl, j, in, out)
     \/ Negotiating(cl, j, in, out)
     \/ Starting(cl, j, in, out)
     \/ Idle(cl, j, in, out)
     \/ Losing(cl, j, in, out)
     \/ Asks(c, cl, cat, st) /\ Asking(cl, j, in, out)
     \/ Asks(c, cl, cat, st) /\ Working(cl, j, in, out, cat)
     \/ Asks(c, cl, cat, st) /\ Told(cl, j, in, out, cat)
Here(c) == Conn(c, client[c], job[c], toServer[c], toClient[c], catalog, store)

\* The rows a connection has written and its client has not been told of.
HeldBy(cl, j, out) ==
  IF j.phase = "write" THEN j.next - 1
  ELSE IF cl.phase = "waiting" /\ cl.query.k = "insert" /\ out # <<>> /\ out[1].k = "complete" THEN out[1].n ELSE 0
Held(c) == HeldBy(client[c], job[c], toClient[c])

\* W gives each connection rows of its own, as many as it holds.
Owns(W) ==
  /\ W \in [Clients -> SUBSET DOMAIN store]
  /\ \A c, d \in Clients : c # d => W[c] \cap W[d] = {}
  /\ \A c \in Clients : Cardinality(W[c]) = Held(c) /\ \A i \in W[c] : store[i].coll = client[c].query.name
Free(W, d) == {i \in DOMAIN store : store[i].coll = d /\ \A c \in Clients : i \notin W[c]}
Pays(W) == \A d \in CollectionNames : acked[d] <= Cardinality(Free(W, d))
\* What clients were told is inserted is there, in rows that nobody else counts.
Ledger == \E W : Owns(W) /\ Pays(W)

Globals ==
  /\ DOMAIN client = Clients /\ DOMAIN job = Clients /\ DOMAIN toServer = Clients /\ DOMAIN toClient = Clients
  /\ store \in Stores /\ acked \in [CollectionNames -> Nat]
  /\ known \subseteq catalog /\ catalog \subseteq CollectionNames
Connections == \A c \in Clients : Here(c)
VInv == Globals /\ Connections /\ Ledger

-----------------------------------------------------------------------------
(* Fields. *)

LEMMA JobAt ==
  ASSUME NEW j, NEW phase, IsJob(j)
  PROVE  /\ IsJob(At(j, phase)) /\ At(j, phase).phase = phase /\ At(j, phase).text = j.text /\ At(j, phase).ast = j.ast
         /\ At(j, phase).plan = j.plan /\ At(j, phase).next = j.next
<1>1. At(j, phase) = JobRecord(phase, j.text, j.ast, j.plan, j.next) BY DEF At, IsJob, JobRecord
<1> QED BY <1>1 DEF IsJob, JobRecord

LEMMA JobText ==
  ASSUME NEW j, NEW x, IsJob(j)
  PROVE  LET k == [j EXCEPT !.text = x]
         IN  IsJob(k) /\ k.text = x /\ k.next = j.next
<1>1. [j EXCEPT !.text = x] = JobRecord(j.phase, x, j.ast, j.plan, j.next) BY DEF IsJob, JobRecord
<1> QED BY <1>1 DEF IsJob, JobRecord

LEMMA JobAst ==
  ASSUME NEW j, NEW x, IsJob(j)
  PROVE  LET k == [j EXCEPT !.ast = x]
         IN  IsJob(k) /\ k.ast = x /\ k.next = j.next
<1>1. [j EXCEPT !.ast = x] = JobRecord(j.phase, j.text, x, j.plan, j.next) BY DEF IsJob, JobRecord
<1> QED BY <1>1 DEF IsJob, JobRecord

LEMMA JobPlan ==
  ASSUME NEW j, NEW x, IsJob(j)
  PROVE  LET k == [j EXCEPT !.plan = x]
         IN  IsJob(k) /\ k.plan = x /\ k.next = j.next
<1>1. [j EXCEPT !.plan = x] = JobRecord(j.phase, j.text, j.ast, x, j.next) BY DEF IsJob, JobRecord
<1> QED BY <1>1 DEF IsJob, JobRecord

LEMMA JobNext ==
  ASSUME NEW j, NEW x, IsJob(j)
  PROVE  LET k == [j EXCEPT !.next = x]
         IN  IsJob(k) /\ k.next = x /\ k.plan = j.plan /\ k.phase = j.phase
<1>1. [j EXCEPT !.next = x] = JobRecord(j.phase, j.text, j.ast, j.plan, x) BY DEF IsJob, JobRecord
<1> QED BY <1>1 DEF IsJob, JobRecord

LEMMA NoJobIs == IsJob(NoJob) /\ NoJob.next = 1 /\ NoJob.phase = "none" BY DEF IsJob, JobRecord, NoJob

LEMMA ClientAt ==
  ASSUME NEW cl, NEW phase, IsClient(cl)
  PROVE  LET x == At(cl, phase)
         IN  IsClient(x) /\ x.phase = phase /\ x.query = cl.query /\ x.answer = cl.answer /\ x.must = cl.must /\ x.sure = cl.sure
<1>1. At(cl, phase) = ClientRecord(phase, cl.query, cl.answer, cl.must, cl.sure) BY DEF At, IsClient, ClientRecord
<1> QED BY <1>1 DEF IsClient, ClientRecord

LEMMA ClientAnswer ==
  ASSUME NEW cl, NEW y, IsClient(cl)
  PROVE  LET x == [cl EXCEPT !.answer = y]
         IN  IsClient(x) /\ x.phase = cl.phase /\ x.query = cl.query /\ x.answer = y /\ x.must = cl.must /\ x.sure = cl.sure
<1>1. [cl EXCEPT !.answer = y] = ClientRecord(cl.phase, cl.query, y, cl.must, cl.sure) BY DEF IsClient, ClientRecord
<1> QED BY <1>1 DEF IsClient, ClientRecord

LEMMA NewClientIs == IsClient(NewClient) /\ Good(NewClient) /\ NewClient.phase = "off"
<1>1. NewClient.query.k = "none" BY DEF NewClient, NoQuery
<1>2. Good(NewClient) BY <1>1 DEF Good, SelectsAll
<1>3. IsClient(NewClient) /\ NewClient.phase = "off" BY DEF IsClient, ClientRecord, NewClient
<1> QED BY <1>2, <1>3

-----------------------------------------------------------------------------
(* What a step of one connection leaves alone. *)

\* A store that holds at least the rows of another.
Extends(st, st2) == Len(st) <= Len(st2) /\ \A i \in DOMAIN st : st2[i] = st[i]

LEMMA RowsFinite ==
  ASSUME NEW st \in Stores, NEW d
  PROVE  IsFiniteSet(RowsOf(d, st)) /\ Cardinality(RowsOf(d, st)) \in Nat
<1>1. Len(st) \in Nat /\ DOMAIN st = 1 .. Len(st) BY DEF Stores
<1>2. PICK n \in Nat : n = Len(st) BY <1>1
<1>3. IsFiniteSet(1 .. n) BY FS_Interval
<1>4. RowsOf(d, st) \subseteq 1 .. n BY <1>1, <1>2 DEF RowsOf
<1>5. IsFiniteSet(RowsOf(d, st)) BY <1>3, <1>4, FS_Subset
<1> QED BY <1>5, FS_CardinalityType

LEMMA MoreRows ==
  ASSUME NEW st \in Stores, NEW st2 \in Stores, Extends(st, st2), NEW d
  PROVE  Cardinality(RowsOf(d, st)) <= Cardinality(RowsOf(d, st2))
<1>1. DOMAIN st = 1 .. Len(st) /\ DOMAIN st2 = 1 .. Len(st2) /\ Len(st) \in Nat /\ Len(st2) \in Nat BY DEF Stores
<1>2. \A i \in DOMAIN st : i \in DOMAIN st2 /\ st2[i] = st[i] BY <1>1 DEF Extends
<1>3. RowsOf(d, st) \subseteq RowsOf(d, st2) BY <1>2 DEF RowsOf
<1> QED BY <1>3, RowsFinite, FS_Subset

LEMMA PromiseKept ==
  ASSUME NEW c, NEW cl, NEW cat, NEW cat2, NEW st \in Stores, NEW st2 \in Stores,
         cat \subseteq cat2, Extends(st, st2), Asks(c, cl, cat, st)
  PROVE  Asks(c, cl, cat2, st2)
<1>1. PICK m, n : m = Cardinality(RowsOf(TargetOf(cl.query), st)) /\ n = Cardinality(RowsOf(TargetOf(cl.query), st2)) OBVIOUS
<1>2. m \in Nat /\ n \in Nat /\ m <= n BY <1>1, MoreRows, RowsFinite
<1>3. cl.must \in Nat /\ cl.must <= m BY <1>1 DEF Asks, Promised
<1>4. cl.must <= n BY <1>2, <1>3
<1> QED BY <1>1, <1>3, <1>4 DEF Asks, Promised

LEMMA ConnKept ==
  ASSUME NEW c, NEW cl, NEW j, NEW in, NEW out, NEW cat, NEW cat2, NEW st \in Stores, NEW st2 \in Stores,
         cat \subseteq cat2, Extends(st, st2), Conn(c, cl, j, in, out, cat, st)
  PROVE  Conn(c, cl, j, in, out, cat2, st2)
<1>1. Asks(c, cl, cat, st) => Asks(c, cl, cat2, st2) BY PromiseKept
<1>2. \A q : Registered(q, cat) => Registered(q, cat2) BY DEF Registered
<1>3. Busy(cl.query, j, cat) => Busy(cl.query, j, cat2) BY <1>2 DEF Busy
<1>5. \A rows : ShownWith(cl, rows, cat) => ShownWith(cl, rows, cat2) BY <1>2 DEF ShownWith
<1>6. \A n : InsertedWith(cl, n, cat) => InsertedWith(cl, n, cat2) BY DEF InsertedWith
<1>7. Replied(cl, out, cat) => Replied(cl, out, cat2) BY <1>5, <1>6, Zenon DEF Replied
<1> QED BY <1>1, <1>3, <1>7 DEF Conn, Working, Told

\* A step that changes one connection, perhaps the catalog, and no rows.
Only(c) ==
  /\ DOMAIN client' = Clients /\ DOMAIN job' = Clients /\ DOMAIN toServer' = Clients /\ DOMAIN toClient' = Clients
  /\ \A d \in Clients : d # c => /\ client'[d] = client[d] /\ job'[d] = job[d]
                                 /\ toServer'[d] = toServer[d] /\ toClient'[d] = toClient[d]
Quiet(c) ==
  /\ Only(c) /\ Here(c)' /\ Held(c) = 0 /\ Held(c)' = 0
  /\ store' = store /\ acked' = acked
  /\ catalog \subseteq catalog' /\ catalog' \subseteq CollectionNames /\ known' \subseteq catalog'

LEMMA OthersKept ==
  ASSUME VInv, NEW c \in Clients, Only(c), catalog \subseteq catalog', store' \in Stores, Extends(store, store'), Here(c)'
  PROVE  Connections'
<1> SUFFICES ASSUME NEW d \in Clients, d # c PROVE Here(d)'
  BY DEF Connections
<1>1. Conn(d, client[d], job[d], toServer[d], toClient[d], catalog, store) BY DEF VInv, Connections, Here
<1>2. store \in Stores BY DEF VInv, Globals
<1>3. Conn(d, client[d], job[d], toServer[d], toClient[d], catalog', store') BY <1>1, <1>2, ConnKept
<1> QED BY <1>3 DEF Only, Here

LEMMA SameStore == ASSUME NEW st \in Stores PROVE Extends(st, st)
BY DEF Extends, Stores

LEMMA QuietKeeps ==
  ASSUME VInv, NEW c \in Clients, Quiet(c)
  PROVE  VInv'
<1>1. store' \in Stores /\ Extends(store, store') BY SameStore DEF VInv, Globals, Quiet
<1>2. Connections' BY <1>1, OthersKept DEF Quiet
<1>3. Globals' BY DEF VInv, Globals, Quiet, Only
<1>4. PICK W : Owns(W) /\ Pays(W) BY DEF VInv, Ledger
<1>5. Cardinality(W[c]) = 0 /\ IsFiniteSet(W[c])
  <2>1. Cardinality(W[c]) = 0 BY <1>4 DEF Owns, Quiet
  <2>2. PICK n \in Nat : n = Len(store) BY DEF VInv, Globals, Stores
  <2>3. W[c] \subseteq 1 .. n
    <3>1. DOMAIN store = 1 .. n BY <2>2 DEF VInv, Globals, Stores
    <3> QED BY <1>4, <3>1 DEF Owns
  <2>4. IsFiniteSet(W[c]) BY <2>3, FS_Interval, FS_Subset
  <2> QED BY <2>1, <2>4
<1>6. W[c] = {} BY <1>5, FS_EmptySet
<1>7. Owns(W)'
  <2>1. W \in [Clients -> SUBSET DOMAIN store'] /\ \A d, e \in Clients : d # e => W[d] \cap W[e] = {}
    BY <1>4 DEF Owns, Quiet
  <2>2. ASSUME NEW d \in Clients
        PROVE  Cardinality(W[d]) = Held(d)' /\ \A i \in W[d] : store'[i].coll = client'[d].query.name
    <3>1. CASE d = c BY <1>4, <1>6, <3>1 DEF Owns, Quiet
    <3>2. CASE d # c
      <4>1. Held(d)' = Held(d) BY <3>2 DEF Held, Quiet, Only
      <4> QED BY <1>4, <3>2, <4>1 DEF Owns, Quiet, Only
    <3> QED BY <3>1, <3>2
  <2> QED BY <2>1, <2>2 DEF Owns
<1>8. Pays(W)' BY <1>4 DEF Pays, Free, Quiet
<1> QED BY <1>2, <1>3, <1>7, <1>8 DEF VInv, Ledger

-----------------------------------------------------------------------------
(* The steps, each from the one state of a connection that allows it. *)

AtWork == {"query", "create", "bind", "register", "write", "execute"}

LEMMA ConnCases ==
  ASSUME NEW c, NEW cl, NEW j, NEW in, NEW out, NEW cat, NEW st, Conn(c, cl, j, in, out, cat, st)
  PROVE  /\ Shapes(cl, j)
         /\ cl.phase = "off" => Off(cl, j, in, out)
         /\ cl.phase = "negotiating" => Negotiating(cl, j, in, out)
         /\ cl.phase = "starting" => Starting(cl, j, in, out)
         /\ cl.phase = "idle" => Idle(cl, j, in, out)
         /\ j.phase \in AtWork => Asks(c, cl, cat, st) /\ Working(cl, j, in, out, cat)
         /\ cl.phase = "waiting" /\ j.phase = "closed" => Losing(cl, j, in, out)
         /\ j.phase = "startup" => Negotiating(cl, j, in, out) \/ Starting(cl, j, in, out)
         /\ j.phase = "ready" /\ in # <<>> =>
              \/ Off(cl, j, in, out) \/ Losing(cl, j, in, out)
              \/ Asks(c, cl, cat, st) /\ Asking(cl, j, in, out)
         /\ out # <<>> =>
              \/ Negotiating(cl, j, in, out) \/ Starting(cl, j, in, out)
              \/ Asks(c, cl, cat, st) /\ Told(cl, j, in, out, cat)
<1>1. Off(cl, j, in, out) => cl.phase = "off" /\ j.phase \in {"none", "closed", "ready"} /\ out = <<>>
  BY DEF Off
<1>2. Negotiating(cl, j, in, out) => cl.phase = "negotiating" /\ j.phase = "startup" BY DEF Negotiating
<1>3. Starting(cl, j, in, out) => cl.phase = "starting" /\ (j.phase = "startup" \/ (j.phase = "ready" /\ in = <<>>)) BY DEF Starting
<1>4. Idle(cl, j, in, out) => cl.phase = "idle" /\ j.phase = "ready" /\ in = <<>> /\ out = <<>> BY DEF Idle
<1>5. Losing(cl, j, in, out) => cl.phase = "waiting" /\ j.phase \in {"ready", "closed"} /\ out = <<>> BY DEF Losing
<1>6. Asks(c, cl, cat, st) => cl.phase = "waiting" BY DEF Asks
<1>7. Asking(cl, j, in, out) => j.phase = "ready" /\ out = <<>> BY DEF Asking
<1>8. Working(cl, j, in, out, cat) => j.phase \in AtWork /\ out = <<>> BY DEF Working, Busy, AtWork
<1>9. Told(cl, j, in, out, cat) => j.phase = "ready" /\ in = <<>> BY DEF Told
<1>10. \A p \in {"none", "closed", "ready", "startup"} : p \notin AtWork BY DEF AtWork
<1>11. "ready" # "closed" /\ "ready" # "startup" OBVIOUS
<1> HIDE DEF AtWork
<1>12. \/ Off(cl, j, in, out) \/ Negotiating(cl, j, in, out) \/ Starting(cl, j, in, out)
       \/ Idle(cl, j, in, out) \/ Losing(cl, j, in, out)
       \/ Asks(c, cl, cat, st) /\ Asking(cl, j, in, out)
       \/ Asks(c, cl, cat, st) /\ Working(cl, j, in, out, cat)
       \/ Asks(c, cl, cat, st) /\ Told(cl, j, in, out, cat)
  BY DEF Conn
<1>13. Shapes(cl, j) BY DEF Conn
<1> QED BY <1>1, <1>2, <1>3, <1>4, <1>5, <1>6, <1>7, <1>8, <1>9, <1>10, <1>11, <1>12, <1>13

LEMMA HeldNone ==
  ASSUME NEW cl, NEW j, NEW out, j.phase # "write", out = <<>> \/ cl.phase # "waiting" \/ cl.query.k # "insert"
  PROVE  HeldBy(cl, j, out) = 0
BY DEF HeldBy

LEMMA GoodSame ==
  ASSUME NEW cl, NEW x, Good(cl), x.query = cl.query, x.answer = cl.answer, x.must = cl.must, x.sure = cl.sure
  PROVE  Good(x)
BY DEF Good

\* What has to be shown of a quiet step.
LEMMA MakeQuiet ==
  ASSUME VInv, NEW c \in Clients, Only(c), store' = store, acked' = acked,
         catalog \subseteq catalog', catalog' \subseteq CollectionNames, known' \subseteq catalog',
         NEW cl, NEW j, NEW in, NEW out,
         client'[c] = cl, job'[c] = j, toServer'[c] = in, toClient'[c] = out,
         Conn(c, cl, j, in, out, catalog', store), Held(c) = 0, HeldBy(cl, j, out) = 0
  PROVE  Quiet(c)
BY DEF Quiet, Here, Held

LEMMA ConnectQuiet ==
  ASSUME VInv, NEW c \in Clients, NEW ssl \in BOOLEAN, Connect(c, ssl)
  PROVE  Quiet(c)
<1>1. PICK cl, j, in, out : cl = client[c] /\ j = job[c] /\ in = toServer[c] /\ out = toClient[c] OBVIOUS
<1>2. Conn(c, cl, j, in, out, catalog, store) BY <1>1 DEF VInv, Connections, Here
<1>3. /\ cl.phase = "off" /\ j.phase \in {"none", "closed"} /\ in = <<>> BY <1>1 DEF Connect
<1>4. Off(cl, j, in, out) /\ Shapes(cl, j) BY <1>2, <1>3, ConnCases
<1>5. PICK p : p = IF ssl THEN "negotiating" ELSE "starting" OBVIOUS
<1>6. PICK m : m = [k |-> IF ssl THEN "ssl" ELSE "startup"] OBVIOUS
<1>7. PICK x, y : x = At(cl, p) /\ y = At(j, "startup") OBVIOUS
<1>8. /\ client' = [client EXCEPT ![c].phase = p] /\ toServer' = [toServer EXCEPT ![c] = Append(@, m)]
      /\ job' = [job EXCEPT ![c].phase = "startup"]
      /\ UNCHANGED <<catalog, store, toClient, acked, known, left>>
  BY <1>5, <1>6 DEF Connect, Phase, Send
<1>9. client'[c] = x /\ job'[c] = y /\ toServer'[c] = <<m>> /\ toClient'[c] = <<>>
  <2>1. client'[c] = x /\ job'[c] = y BY <1>1, <1>7, <1>8 DEF At, VInv, Globals
  <2>2. toServer'[c] = Append(in, m) /\ toClient'[c] = out BY <1>1, <1>8 DEF VInv, Globals
  <2>3. out = <<>> BY <1>4 DEF Off
  <2> QED BY <1>3, <2>1, <2>2, <2>3
<1>10. Only(c) BY <1>8 DEF Only, VInv, Globals
<1>11. /\ IsClient(x) /\ x.phase = p /\ x.query = cl.query /\ x.answer = cl.answer /\ x.must = cl.must /\ x.sure = cl.sure
  BY <1>4, <1>7, ClientAt DEF Shapes
<1>12. IsJob(y) /\ y.phase = "startup" /\ y.next = j.next BY <1>4, <1>7, JobAt DEF Shapes
<1>13. Shapes(x, y) BY <1>3, <1>4, <1>11, <1>12 DEF Shapes
<1>14. Good(x) BY <1>4, <1>11, GoodSame DEF Off
<1>15. Negotiating(x, y, <<m>>, <<>>) \/ Starting(x, y, <<m>>, <<>>)
  BY <1>5, <1>6, <1>11, <1>12, <1>14 DEF Negotiating, Starting
<1>16. Conn(c, x, y, <<m>>, <<>>, catalog', store) BY <1>13, <1>15 DEF Conn
<1>17. HeldBy(x, y, <<>>) = 0 BY <1>12, HeldNone
<1>18. Held(c) = 0
  <2>1. j.phase # "write" /\ cl.phase # "waiting" BY <1>3
  <2> QED BY <1>1, <2>1, HeldNone DEF Held
<1>19. known' \subseteq catalog' /\ catalog \subseteq catalog' /\ catalog' \subseteq CollectionNames /\ store' = store /\ acked' = acked
  BY <1>8 DEF VInv, Globals
<1> QED BY <1>9, <1>10, <1>16, <1>17, <1>18, <1>19, MakeQuiet

LEMMA SendQueryQuiet ==
  ASSUME VInv, NEW c \in Clients, NEW q \in ClientQueries[c], SendQuery(c, q)
  PROVE  Quiet(c)
<1>1. PICK cl, j, in, out : cl = client[c] /\ j = job[c] /\ in = toServer[c] /\ out = toClient[c] OBVIOUS
<1>2. Conn(c, cl, j, in, out, catalog, store) BY <1>1 DEF VInv, Connections, Here
<1>3. cl.phase = "idle" BY <1>1 DEF SendQuery
<1>4. Idle(cl, j, in, out) /\ Shapes(cl, j) BY <1>2, <1>3, ConnCases
<1>5. PICK m : m = [k |-> "query", text |-> TextOf[q]] OBVIOUS
<1>6. PICK must, sure : /\ must = IF TargetOf(q) \in DOMAIN acked THEN acked[TargetOf(q)] ELSE 0
                        /\ sure = (TargetOf(q) \in known)
  OBVIOUS
<1>7. PICK x : x = ClientRecord("waiting", q, NoAnswer, must, sure) OBVIOUS
<1>8. /\ client' = [client EXCEPT ![c] = x] /\ toServer' = [toServer EXCEPT ![c] = Append(@, m)]
      /\ UNCHANGED <<catalog, store, job, toClient, acked, known>>
  BY <1>5, <1>6, <1>7 DEF SendQuery, Send, ClientRecord
<1>9. client'[c] = x /\ job'[c] = j /\ toServer'[c] = <<m>> /\ toClient'[c] = <<>>
  <2>1. client'[c] = x /\ job'[c] = j /\ toServer'[c] = Append(in, m) /\ toClient'[c] = out
    BY <1>1, <1>8 DEF VInv, Globals
  <2> QED BY <1>4, <2>1 DEF Idle
<1>10. Only(c) BY <1>8 DEF Only, VInv, Globals
<1>11. IsClient(x) /\ x.phase = "waiting" /\ x.query = q /\ x.answer = NoAnswer /\ x.must = must /\ x.sure = sure
  BY <1>7 DEF IsClient, ClientRecord
<1>12. Promised(x, catalog, store)
  <2>1. store \in Stores /\ acked \in [CollectionNames -> Nat] /\ known \subseteq catalog BY DEF VInv, Globals
  <2>2. sure => TargetOf(q) \in catalog BY <1>6, <2>1
  <2>3. PICK n \in Nat : n = Cardinality(RowsOf(TargetOf(q), store)) BY <2>1, RowsFinite
  <2>4. must \in Nat /\ must <= n
    <3>1. CASE TargetOf(q) \in DOMAIN acked
      <4>1. PICK d \in CollectionNames : d = TargetOf(q) BY <2>1, <3>1
      <4>2. PICK W : Owns(W) /\ Pays(W) BY DEF VInv, Ledger
      <4>3. acked[d] \in Nat /\ acked[d] <= Cardinality(Free(W, d)) BY <2>1, <4>2 DEF Pays
      <4>4. Free(W, d) \subseteq RowsOf(d, store) BY DEF Free, RowsOf
      <4>5. Cardinality(Free(W, d)) <= n /\ Cardinality(Free(W, d)) \in Nat
        <5>1. IsFiniteSet(RowsOf(d, store)) BY <2>1, RowsFinite
        <5>2. IsFiniteSet(Free(W, d)) /\ Cardinality(Free(W, d)) <= Cardinality(RowsOf(d, store)) BY <4>4, <5>1, FS_Subset
        <5> QED BY <2>3, <4>1, <5>2, FS_CardinalityType
      <4>6. must = acked[d] BY <1>6, <3>1, <4>1
      <4> QED BY <4>3, <4>5, <4>6
    <3>2. CASE TargetOf(q) \notin DOMAIN acked
      <4>1. must = 0 BY <1>6, <3>2
      <4> QED BY <4>1
    <3> QED BY <3>1, <3>2
  <2> QED BY <1>11, <2>2, <2>3, <2>4 DEF Promised
<1>13. Asks(c, x, catalog', store) BY <1>8, <1>11, <1>12 DEF Asks
<1>14. Asking(x, j, <<m>>, <<>>) BY <1>4, <1>5, <1>11 DEF Asking, Idle
<1>15. Shapes(x, j) BY <1>4, <1>11 DEF Shapes
<1>16. Conn(c, x, j, <<m>>, <<>>, catalog', store) BY <1>13, <1>14, <1>15 DEF Conn
<1>17. j.phase = "ready" BY <1>4 DEF Idle
<1>18. HeldBy(x, j, <<>>) = 0 BY <1>17, HeldNone
<1>19. Held(c) = 0
  <2>1. j.phase # "write" /\ cl.phase # "waiting" BY <1>3, <1>17
  <2> QED BY <1>1, <2>1, HeldNone DEF Held
<1>20. known' \subseteq catalog' /\ catalog \subseteq catalog' /\ catalog' \subseteq CollectionNames /\ store' = store /\ acked' = acked
  BY <1>8 DEF VInv, Globals
<1> QED BY <1>9, <1>10, <1>16, <1>18, <1>19, <1>20, MakeQuiet

\* SendOther and Close: the client leaves its query and answer as they are.
LEMMA LeavingQuiet ==
  ASSUME VInv, NEW c \in Clients, SendOther(c) \/ Close(c)
  PROVE  Quiet(c)
<1>1. PICK cl, j, in, out : cl = client[c] /\ j = job[c] /\ in = toServer[c] /\ out = toClient[c] OBVIOUS
<1>2. Conn(c, cl, j, in, out, catalog, store) BY <1>1 DEF VInv, Connections, Here
<1>3. cl.phase = "idle" BY <1>1 DEF SendOther, Close
<1>4. Idle(cl, j, in, out) /\ Shapes(cl, j) BY <1>2, <1>3, ConnCases
<1>5. PICK p, m : /\ ((p = "waiting" /\ m = [k |-> "other"]) \/ (p = "off" /\ m = [k |-> "terminate"]))
                  /\ client' = [client EXCEPT ![c].phase = p]
                  /\ toServer' = [toServer EXCEPT ![c] = Append(@, m)]
                  /\ UNCHANGED <<catalog, store, job, toClient, acked, known>>
  <2>1. CASE SendOther(c)
    <3>1. PICK p, m : p = "waiting" /\ m = [k |-> "other"] OBVIOUS
    <3> QED BY <2>1, <3>1 DEF SendOther, Phase, Send
  <2>2. CASE Close(c)
    <3>1. PICK p, m : p = "off" /\ m = [k |-> "terminate"] OBVIOUS
    <3> QED BY <2>2, <3>1 DEF Close, Phase, Send
  <2> QED BY <2>1, <2>2
<1>6. PICK x : x = At(cl, p) OBVIOUS
<1>7. client'[c] = x /\ job'[c] = j /\ toServer'[c] = <<m>> /\ toClient'[c] = <<>>
  <2>1. client'[c] = x BY <1>1, <1>5, <1>6 DEF At, VInv, Globals
  <2>2. job'[c] = j /\ toServer'[c] = Append(in, m) /\ toClient'[c] = out BY <1>1, <1>5 DEF VInv, Globals
  <2> QED BY <1>4, <2>1, <2>2 DEF Idle
<1>8. Only(c) BY <1>5 DEF Only, VInv, Globals
<1>9. /\ IsClient(x) /\ x.phase = p /\ x.query = cl.query /\ x.answer = cl.answer /\ x.must = cl.must /\ x.sure = cl.sure
  BY <1>4, <1>6, ClientAt DEF Shapes
<1>10. Good(x) BY <1>4, <1>9, GoodSame DEF Idle
<1>11. j.phase = "ready" BY <1>4 DEF Idle
<1>12. Losing(x, j, <<m>>, <<>>) \/ Off(x, j, <<m>>, <<>>) BY <1>5, <1>9, <1>10, <1>11 DEF Losing, Off
<1>13. Shapes(x, j) BY <1>4, <1>9 DEF Shapes
<1>14. Conn(c, x, j, <<m>>, <<>>, catalog', store) BY <1>12, <1>13 DEF Conn
<1>15. HeldBy(x, j, <<>>) = 0 BY <1>11, HeldNone
<1>16. Held(c) = 0
  <2>1. j.phase # "write" /\ cl.phase # "waiting" BY <1>3, <1>11
  <2> QED BY <1>1, <2>1, HeldNone DEF Held
<1>17. known' \subseteq catalog' /\ catalog \subseteq catalog' /\ catalog' \subseteq CollectionNames /\ store' = store /\ acked' = acked
  BY <1>5 DEF VInv, Globals
<1> QED BY <1>7, <1>8, <1>14, <1>15, <1>16, <1>17, MakeQuiet

LEMMA FreshOff == Shapes(NewClient, NoJob) /\ Off(NewClient, NoJob, <<>>, <<>>)
<1>1. Shapes(NewClient, NoJob) BY NoJobIs, NewClientIs DEF Shapes
<1>2. Off(NewClient, NoJob, <<>>, <<>>) BY NoJobIs, NewClientIs DEF Off
<1> QED BY <1>1, <1>2

LEMMA ClientLostQuiet ==
  ASSUME VInv, NEW c \in Clients, ClientLost(c)
  PROVE  Quiet(c)
<1>1. PICK cl, j, in, out : cl = client[c] /\ j = job[c] /\ in = toServer[c] /\ out = toClient[c] OBVIOUS
<1>3. j.phase = "closed" /\ out = <<>> BY <1>1 DEF ClientLost
<1>7. client'[c] = NewClient /\ job'[c] = NoJob /\ toServer'[c] = <<>> /\ toClient'[c] = <<>>
  BY <1>1, <1>3 DEF VInv, Globals, ClientLost
<1>8. Only(c) BY DEF Only, VInv, Globals, ClientLost
<1>14. Conn(c, NewClient, NoJob, <<>>, <<>>, catalog', store) BY FreshOff DEF Conn
<1>15. HeldBy(NewClient, NoJob, <<>>) = 0 BY NoJobIs, HeldNone
<1>16. Held(c) = 0
  <2>1. j.phase # "write" BY <1>3
  <2> QED BY <1>1, <1>3, <2>1, HeldNone DEF Held
<1>17. known' \subseteq catalog' /\ catalog \subseteq catalog' /\ catalog' \subseteq CollectionNames /\ store' = store /\ acked' = acked
  BY DEF VInv, Globals, ClientLost
<1> QED BY <1>7, <1>8, <1>14, <1>15, <1>16, <1>17, MakeQuiet

-----------------------------------------------------------------------------
(* The connection's task. *)

IsMessages(ms) == \E V : ms \in Seq(V)

LEMMA Few ==
  ASSUME NEW x, NEW y, NEW z
  PROVE  IsMessages(<<x>>) /\ IsMessages(<<x, y>>) /\ IsMessages(<<x, y, z>>)
<1>1. <<x>> \in Seq({x, y, z}) OBVIOUS
<1>2. <<x, y>> \in Seq({x, y, z}) OBVIOUS
<1>3. <<x, y, z>> \in Seq({x, y, z}) OBVIOUS
<1> QED BY <1>1, <1>2, <1>3, Zenon DEF IsMessages

LEMMA Single == ASSUME NEW m PROVE Head(<<m>>) = m /\ Tail(<<m>>) = <<>>
OBVIOUS

LEMMA RowsAreMessages ==
  ASSUME NEW rows, IsRows(rows)
  PROVE  IsMessages(RowsReply(rows))
<1>1. CASE rows = <<>>
  <2>1. RowsReply(rows) = <<Complete("SELECT", Len(rows)), [k |-> "ready"]>>
    <3>1. PICK x : x = <<Complete("SELECT", Len(rows)), [k |-> "ready"]>> OBVIOUS
    <3>2. IsMessages(x) BY <3>1, Few
    <3>3. <<>> \o x = x BY <3>2, ConcatEmptySeq DEF IsMessages
    <3> QED BY <1>1, <3>1, <3>3 DEF RowsReply
  <2> QED BY <2>1, Few
<1>2. CASE rows # <<>>
  <2> DEFINE n == Len(rows)
             data == [i \in DOMAIN rows |-> [k |-> "data", row |-> rows[i]]]
             V == {data[i] : i \in 1 .. n} \cup {[k |-> "columns"], Complete("SELECT", n), [k |-> "ready"]}
             head == <<[k |-> "columns"]>>
             last == <<Complete("SELECT", n), [k |-> "ready"]>>
  <2>1. n \in Nat /\ DOMAIN rows = 1 .. n BY RowsLen
  <2>2. data \in Seq(V)
    <3>1. data \in [1 .. n -> V] BY <2>1
    <3> QED BY <2>1, <3>1
  <2>3. head \in Seq(V) /\ last \in Seq(V) OBVIOUS
  <2>4. RowsReply(rows) = (head \o data) \o last BY <1>2 DEF RowsReply
  <2> HIDE DEF data, head, last, V, n
  <2>5. head \o data \in Seq(V) BY <2>2, <2>3, ConcatProperties
  <2>6. (head \o data) \o last \in Seq(V) BY <2>3, <2>5, ConcatProperties
  <2> QED BY <2>4, <2>6 DEF IsMessages
<1> QED BY <1>1, <1>2

\* Messages sent to a client that has read everything.
LEMMA Sends ==
  ASSUME VInv, NEW c \in Clients, toClient[c] = <<>>, NEW ms, IsMessages(ms), SendAll(c, ms)
  PROVE  toClient'[c] = ms /\ DOMAIN toClient' = Clients /\ \A d \in Clients : d # c => toClient'[d] = toClient[d]
<1>1. <<>> \o ms = ms BY ConcatEmptySeq DEF IsMessages
<1>2. PICK x : x = toClient[c] \o ms OBVIOUS
<1>3. toClient' = [toClient EXCEPT ![c] = x] BY <1>2 DEF SendAll
<1>4. x = ms BY <1>1, <1>2
<1> QED BY <1>3, <1>4 DEF VInv, Globals

LEMMA StartupQuiet ==
  ASSUME VInv, NEW c \in Clients, Startup(c)
  PROVE  Quiet(c)
<1>1. PICK cl, j, in, out : cl = client[c] /\ j = job[c] /\ in = toServer[c] /\ out = toClient[c] OBVIOUS
<1>2. Conn(c, cl, j, in, out, catalog, store) BY <1>1 DEF VInv, Connections, Here
<1>3. j.phase = "startup" /\ in # <<>> BY <1>1 DEF Startup, Received
<1>4. Shapes(cl, j) /\ (Negotiating(cl, j, in, out) \/ Starting(cl, j, in, out)) BY <1>2, <1>3, ConnCases
<1>5. /\ out = <<>>
      /\ \/ cl.phase = "negotiating" /\ in = <<[k |-> "ssl"]>> /\ Good(cl)
         \/ cl.phase = "starting" /\ in = <<[k |-> "startup"]>> /\ Good(cl)
  BY <1>3, <1>4 DEF Negotiating, Starting
<1>6. toServer'[c] = Tail(in) /\ DOMAIN toServer' = Clients /\ \A d \in Clients : d # c => toServer'[d] = toServer[d]
  BY <1>1 DEF Startup, Consume, VInv, Globals
<1>7. Tail(in) = <<>> BY <1>5, Single
<1>8. UNCHANGED <<catalog, store, client, acked, known, left>> BY DEF Startup
<1>9. client'[c] = cl /\ DOMAIN client' = Clients /\ \A d \in Clients : client'[d] = client[d]
  BY <1>1, <1>8 DEF VInv, Globals
<1>10. Held(c) = 0
  <2>1. j.phase # "write" BY <1>3
  <2> QED BY <1>1, <1>5, <2>1, HeldNone DEF Held
<1>11. known' \subseteq catalog' /\ catalog \subseteq catalog' /\ catalog' \subseteq CollectionNames /\ store' = store /\ acked' = acked
  BY <1>8 DEF VInv, Globals
<1>12. CASE cl.phase = "negotiating"
  <2>1. Head(toServer[c]).k = "ssl" BY <1>1, <1>5, <1>12
  <2>2. PICK m : m = [k |-> "no"] OBVIOUS
  <2>3. SendAll(c, <<m>>) /\ UNCHANGED job BY <2>1, <2>2 DEF Startup
  <2>4. toClient'[c] = <<m>> /\ DOMAIN toClient' = Clients /\ \A d \in Clients : d # c => toClient'[d] = toClient[d]
    BY <1>1, <1>5, <2>3, Few, Sends
  <2>5. Only(c) /\ job'[c] = j BY <1>1, <1>6, <1>9, <2>3, <2>4 DEF Only, VInv, Globals
  <2>6. Negotiating(cl, j, <<>>, <<m>>) BY <1>3, <1>5, <1>12, <2>2 DEF Negotiating
  <2>7. Conn(c, cl, j, <<>>, <<m>>, catalog', store) BY <1>4, <2>6 DEF Conn
  <2>8. HeldBy(cl, j, <<m>>) = 0
    <3>1. j.phase # "write" /\ cl.phase # "waiting" BY <1>3, <1>12
    <3> QED BY <3>1, HeldNone
  <2>9. toServer'[c] = <<>> BY <1>6, <1>7
  <2> QED BY <1>9, <1>10, <1>11, <2>4, <2>5, <2>7, <2>8, <2>9, MakeQuiet
<1>13. CASE cl.phase # "negotiating"
  <2>1. Head(toServer[c]).k # "ssl" /\ cl.phase = "starting" BY <1>1, <1>5, <1>13
  <2>3. SendAll(c, Greeting) /\ job' = [job EXCEPT ![c].phase = "ready"] BY <2>1 DEF Startup, Greeting
  <2>2. IsMessages(Greeting) BY Few DEF Greeting
  <2>4. toClient'[c] = Greeting /\ DOMAIN toClient' = Clients /\ \A d \in Clients : d # c => toClient'[d] = toClient[d]
    BY <1>1, <1>5, <2>2, <2>3, Sends
  <2>5. PICK y : y = At(j, "ready") OBVIOUS
  <2>6. job'[c] = y BY <1>1, <2>3, <2>5 DEF At, VInv, Globals
  <2>7. Only(c) BY <1>6, <1>9, <2>3, <2>4 DEF Only, VInv, Globals
  <2>8. IsJob(y) /\ y.phase = "ready" /\ y.next = j.next BY <1>4, <2>5, JobAt DEF Shapes
  <2>9. Shapes(cl, y) BY <1>3, <1>4, <2>8 DEF Shapes
  <2>10. Starting(cl, y, <<>>, Greeting) BY <1>5, <2>1, <2>8 DEF Starting
  <2>11. Conn(c, cl, y, <<>>, Greeting, catalog', store) BY <2>9, <2>10 DEF Conn
  <2>12. HeldBy(cl, y, Greeting) = 0
    <3>1. y.phase # "write" /\ cl.phase # "waiting" BY <2>1, <2>8
    <3> QED BY <3>1, HeldNone
  <2>13. toServer'[c] = <<>> BY <1>6, <1>7
  <2> QED BY <1>9, <1>10, <1>11, <2>4, <2>6, <2>7, <2>11, <2>12, <2>13, MakeQuiet
<1> QED BY <1>12, <1>13

\* What the parameters promise of one statement.
LEMMA LanguageOf ==
  ASSUME Language, NEW c \in Clients, NEW q \in ClientQueries[c], NEW cat \in SUBSET CollectionNames
  PROVE  /\ \A st \in Stores : IsRows(Shortcut(TextOf[q], cat, st)[2])
         /\ q.k \in Kinds => ReadBack(q, cat, Stores)
         /\ SelectsAll(q) => SelectBinds(q, cat, Stores)
         /\ q.k = "insert" => InsertBinds(q, cat, Nat, Records)
         /\ q.k = "create" => CreateBinds(q, cat, Stores)
         /\ ReadText(TextOf[q]).ok =>
              /\ q.k # "insert" => Reads(ReadText(TextOf[q]).ast, cat, Stores)
              /\ q.k # "create" => ReadText(TextOf[q]).ast.k # "create"
BY DEF Language, LanguageOK

LEMMA ReadMessageQuiet ==
  ASSUME VInv, Language, NEW c \in Clients, ReadMessage(c)
  PROVE  Quiet(c)
<1>1. PICK cl, j, in, out : cl = client[c] /\ j = job[c] /\ in = toServer[c] /\ out = toClient[c] OBVIOUS
<1>2. Conn(c, cl, j, in, out, catalog, store) BY <1>1 DEF VInv, Connections, Here
<1>3. j.phase = "ready" /\ in # <<>> BY <1>1 DEF ReadMessage, Received
<1>4. /\ Shapes(cl, j)
      /\ \/ Off(cl, j, in, out) \/ Losing(cl, j, in, out)
         \/ Asks(c, cl, catalog, store) /\ Asking(cl, j, in, out)
  BY <1>2, <1>3, ConnCases
<1>5. out = <<>> BY <1>4 DEF Off, Losing, Asking
<1>6. PICK m : m = Head(in) OBVIOUS
<1>7. toServer'[c] = Tail(in) /\ DOMAIN toServer' = Clients /\ \A d \in Clients : d # c => toServer'[d] = toServer[d]
  BY <1>1 DEF ReadMessage, Consume, VInv, Globals
<1>8. UNCHANGED <<catalog, store, client, acked, known, left>> BY DEF ReadMessage
<1>9. client'[c] = cl /\ DOMAIN client' = Clients /\ \A d \in Clients : client'[d] = client[d]
  BY <1>1, <1>8 DEF VInv, Globals
<1>10. Held(c) = 0
  <2>1. j.phase # "write" BY <1>3
  <2> QED BY <1>1, <1>5, <2>1, HeldNone DEF Held
<1>11. known' \subseteq catalog' /\ catalog \subseteq catalog' /\ catalog' \subseteq CollectionNames /\ store' = store /\ acked' = acked
  BY <1>8 DEF VInv, Globals
<1>12. CASE Off(cl, j, in, out) \/ Losing(cl, j, in, out)
  <2>1. m.k \in {"terminate", "other"} /\ Tail(in) = <<>>
    <3>1. PICK n : in = <<n>> /\ n.k \in {"terminate", "other"} BY <1>3, <1>12 DEF Off, Losing
    <3> QED BY <1>6, <3>1, Single
  <2>2. m.k # "query" BY <2>1
  <2>3. job' = [job EXCEPT ![c] = At(NoJob, "closed")] /\ UNCHANGED toClient BY <1>1, <1>6, <2>2 DEF ReadMessage
  <2>4. PICK y : y = At(NoJob, "closed") OBVIOUS
  <2>5. IsJob(y) /\ y.phase = "closed" /\ y.next = 1 BY <2>4, JobAt, NoJobIs
  <2>6. job'[c] = y /\ toClient'[c] = <<>> /\ toServer'[c] = <<>> BY <1>1, <1>5, <1>7, <2>1, <2>3, <2>4 DEF VInv, Globals
  <2>7. Only(c) BY <1>7, <1>9, <2>3 DEF Only, VInv, Globals
  <2>8. Off(cl, y, <<>>, <<>>) \/ Losing(cl, y, <<>>, <<>>) BY <1>12, <2>5 DEF Off, Losing
  <2>9. Shapes(cl, y) BY <1>4, <2>5 DEF Shapes
  <2>10. Conn(c, cl, y, <<>>, <<>>, catalog', store) BY <2>8, <2>9 DEF Conn
  <2>11. HeldBy(cl, y, <<>>) = 0
    <3>1. y.phase # "write" BY <2>5
    <3> QED BY <3>1, HeldNone
  <2> QED BY <1>9, <1>10, <1>11, <2>6, <2>7, <2>10, <2>11, MakeQuiet
<1>13. CASE Asks(c, cl, catalog, store) /\ Asking(cl, j, in, out)
  <2>1. m = [k |-> "query", text |-> TextOf[cl.query]] /\ Tail(in) = <<>> BY <1>6, <1>13 DEF Asking
  <2>2. m.k = "query" /\ m.text = TextOf[cl.query] BY <2>1
  <2>3. toServer'[c] = <<>> BY <1>7, <2>1
  <2>4. Asks(c, cl, catalog', store) BY <1>8, <1>13
  <2>5. CASE m.text = <<"EOF">>
    <3>1. SendAll(c, EmptyReply) /\ UNCHANGED job BY <1>1, <1>6, <2>2, <2>5 DEF ReadMessage, EmptyReply
    <3>2. IsMessages(EmptyReply) BY Few DEF EmptyReply
    <3>3. toClient'[c] = EmptyReply /\ DOMAIN toClient' = Clients /\ \A d \in Clients : d # c => toClient'[d] = toClient[d]
      BY <1>1, <1>5, <3>1, <3>2, Sends
    <3>4. cl.query.k \notin Kinds
      <4>1. cl.query \in ClientQueries[c] /\ catalog \in SUBSET CollectionNames BY <1>13 DEF Asks, VInv, Globals
      <4>2. cl.query.k \in Kinds => ReadBack(cl.query, catalog, Stores) BY <4>1, LanguageOf
      <4> QED BY <2>2, <2>5, <4>2 DEF ReadBack
    <3>5. Told(cl, j, <<>>, EmptyReply, catalog') BY <1>3, <3>4 DEF Told, Replied
    <3>6. Conn(c, cl, j, <<>>, EmptyReply, catalog', store) BY <1>4, <2>4, <3>5 DEF Conn
    <3>7. HeldBy(cl, j, EmptyReply) = 0
      <4>1. j.phase # "write" /\ cl.query.k # "insert" BY <1>3, <3>4 DEF Kinds
      <4> QED BY <4>1, HeldNone
    <3>8. Only(c) /\ job'[c] = j BY <1>1, <1>7, <1>9, <3>1, <3>3 DEF Only, VInv, Globals
    <3> QED BY <1>9, <1>10, <1>11, <2>3, <3>3, <3>6, <3>7, <3>8, MakeQuiet
  <2>6. CASE m.text # <<"EOF">>
    <3>1. PICK x, y : x = [NoJob EXCEPT !.text = m.text] /\ y = At(x, "query") OBVIOUS
    <3>2. job' = [job EXCEPT ![c] = y] /\ UNCHANGED toClient BY <1>1, <1>6, <2>2, <2>6, <3>1 DEF ReadMessage
    <3>3. IsJob(x) /\ x.text = m.text /\ x.next = 1 BY <3>1, JobText, NoJobIs
    <3>4. IsJob(y) /\ y.phase = "query" /\ y.text = m.text /\ y.next = 1
      <4>1. IsJob(x) BY <3>3
      <4>2. IsJob(y) /\ y.phase = "query" /\ y.text = x.text /\ y.next = x.next BY <3>1, <4>1, JobAt
      <4> QED BY <3>3, <4>2
    <3>5. Working(cl, y, <<>>, <<>>, catalog') BY <2>2, <3>4 DEF Working, Busy
    <3>6. Shapes(cl, y) BY <1>4, <3>4 DEF Shapes
    <3>7. Conn(c, cl, y, <<>>, <<>>, catalog', store) BY <2>4, <3>5, <3>6 DEF Conn
    <3>8. HeldBy(cl, y, <<>>) = 0
      <4>1. y.phase # "write" BY <3>4
      <4> QED BY <4>1, HeldNone
    <3>9. Only(c) /\ job'[c] = y /\ toClient'[c] = <<>> BY <1>1, <1>5, <1>7, <1>9, <3>2 DEF Only, VInv, Globals
    <3> QED BY <1>9, <1>10, <1>11, <2>3, <3>7, <3>8, <3>9, MakeQuiet
  <2> QED BY <2>5, <2>6
<1> QED BY <1>4, <1>12, <1>13

-----------------------------------------------------------------------------
(* The handler. *)

\* A connection whose task works on a statement: what every step starts from.
LEMMA AtWorkIs ==
  ASSUME VInv, NEW c \in Clients, job[c].phase \in AtWork
  PROVE  /\ Shapes(client[c], job[c]) /\ Asks(c, client[c], catalog, store)
         /\ Busy(client[c].query, job[c], catalog)
         /\ toServer[c] = <<>> /\ toClient[c] = <<>>
         /\ client[c].query \in ClientQueries[c] /\ catalog \in SUBSET CollectionNames /\ store \in Stores
<1>1. PICK cl, j, in, out : cl = client[c] /\ j = job[c] /\ in = toServer[c] /\ out = toClient[c] OBVIOUS
<1>2. Conn(c, cl, j, in, out, catalog, store) BY <1>1 DEF VInv, Connections, Here
<1>3. Shapes(cl, j) /\ Asks(c, cl, catalog, store) /\ Working(cl, j, in, out, catalog) BY <1>1, <1>2, ConnCases
<1>4. catalog \in SUBSET CollectionNames /\ store \in Stores BY DEF VInv, Globals
<1>5. cl.query \in ClientQueries[c] BY <1>3 DEF Asks
<1> QED BY <1>1, <1>3, <1>4, <1>5 DEF Working

\* The task goes on with the statement, perhaps with a larger catalog.
LEMMA GoesOnQuiet ==
  ASSUME VInv, NEW c \in Clients, job[c].phase \in AtWork, job[c].phase # "write",
         NEW y, job' = [job EXCEPT ![c] = y], IsJob(y), y.next = 1, Busy(client[c].query, y, catalog'),
         catalog \subseteq catalog', catalog' \subseteq CollectionNames,
         UNCHANGED <<store, client, toServer, toClient, acked, known>>
  PROVE  Quiet(c)
<1>1. PICK cl : cl = client[c] OBVIOUS
<1>2. /\ Shapes(cl, job[c]) /\ Asks(c, cl, catalog, store) /\ toServer[c] = <<>> /\ toClient[c] = <<>> /\ store \in Stores
  BY <1>1, AtWorkIs
<1>3. Asks(c, cl, catalog', store) BY <1>2, PromiseKept, SameStore
<1>4. Shapes(cl, y) BY <1>2 DEF Shapes
<1>5. Working(cl, y, <<>>, <<>>, catalog') BY <1>1 DEF Working
<1>6. Conn(c, cl, y, <<>>, <<>>, catalog', store) BY <1>3, <1>4, <1>5 DEF Conn
<1>7. Only(c) /\ client'[c] = cl /\ job'[c] = y /\ toServer'[c] = <<>> /\ toClient'[c] = <<>>
  BY <1>1, <1>2 DEF Only, VInv, Globals
<1>8. Held(c) = 0 BY <1>2, HeldNone DEF Held
<1>9. known' \subseteq catalog' BY DEF VInv, Globals
<1>10. CASE y.phase # "write"
  <2>1. HeldBy(cl, y, <<>>) = 0 BY <1>10, HeldNone
  <2> QED BY <1>6, <1>7, <1>8, <1>9, <2>1, MakeQuiet
<1>11. CASE y.phase = "write"
  <2>1. HeldBy(cl, y, <<>>) = 0 BY <1>11 DEF HeldBy
  <2> QED BY <1>6, <1>7, <1>8, <1>9, <2>1, MakeQuiet
<1> QED BY <1>10, <1>11

\* An answer is sent whole.
Answers(c, ms) ==
  /\ Only(c) /\ client'[c] = client[c] /\ toServer'[c] = <<>> /\ toClient'[c] = ms
  /\ IsJob(job'[c]) /\ job'[c].phase = "ready" /\ job'[c].next = 1

LEMMA ReplyAnswers ==
  ASSUME VInv, NEW c \in Clients, job[c].phase \in AtWork, NEW ms, IsMessages(ms), Reply(c, ms), UNCHANGED <<client, toServer>>
  PROVE  Answers(c, ms)
<1>1. toServer[c] = <<>> /\ toClient[c] = <<>> BY AtWorkIs
<1>2. SendAll(c, ms) /\ job' = [job EXCEPT ![c] = At(NoJob, "ready")] BY DEF Reply
<1>3. toClient'[c] = ms /\ DOMAIN toClient' = Clients /\ \A d \in Clients : d # c => toClient'[d] = toClient[d]
  BY <1>1, <1>2, Sends
<1>4. PICK y : y = At(NoJob, "ready") OBVIOUS
<1>5. IsJob(y) /\ y.phase = "ready" /\ y.next = 1 BY <1>4, JobAt, NoJobIs
<1>6. job'[c] = y /\ DOMAIN job' = Clients /\ \A d \in Clients : d # c => job'[d] = job[d] BY <1>2, <1>4 DEF VInv, Globals
<1>7. Only(c) BY <1>3, <1>6 DEF Only, VInv, Globals
<1> QED BY <1>1, <1>3, <1>5, <1>6, <1>7 DEF Answers

\* The connection after an answer, whatever the rows are by then.
LEMMA AnswerHere ==
  ASSUME VInv, NEW c \in Clients, job[c].phase \in AtWork, NEW ms, Answers(c, ms),
         Replied(client[c], ms, catalog), catalog' = catalog, store' \in Stores, Extends(store, store')
  PROVE  Here(c)'
<1>1. PICK cl, y : cl = client[c] /\ y = job'[c] OBVIOUS
<1>2. Shapes(cl, job[c]) /\ Asks(c, cl, catalog, store) /\ store \in Stores BY <1>1, AtWorkIs
<1>3. Asks(c, cl, catalog', store') BY <1>2, PromiseKept
<1>4. Shapes(cl, y) BY <1>1, <1>2 DEF Shapes, Answers
<1>5. Told(cl, y, <<>>, ms, catalog') BY <1>1 DEF Told, Answers
<1>6. Conn(c, cl, y, <<>>, ms, catalog', store') BY <1>3, <1>4, <1>5 DEF Conn
<1> QED BY <1>1, <1>6 DEF Here, Answers

LEMMA ReplyQuiet ==
  ASSUME VInv, NEW c \in Clients, job[c].phase \in AtWork, job[c].phase # "write", NEW ms, IsMessages(ms), Reply(c, ms),
         Replied(client[c], ms, catalog), client[c].query.k # "insert" \/ ms[1].k # "complete",
         UNCHANGED <<catalog, store, client, toServer, acked, known>>
  PROVE  Quiet(c)
<1>1. Answers(c, ms) BY ReplyAnswers
<1>2. store' \in Stores /\ Extends(store, store') BY SameStore DEF VInv, Globals
<1>3. Here(c)' BY <1>1, <1>2, AnswerHere
<1>4. toClient[c] = <<>> BY AtWorkIs
<1>5. Held(c) = 0 BY <1>4, HeldNone DEF Held
<1>6. Held(c)' = 0
  <2>1. HeldBy(client[c], job'[c], ms) = 0 BY <1>1 DEF HeldBy, Answers
  <2> QED BY <1>1, <2>1 DEF Held, Answers
<1>7. catalog \subseteq catalog' /\ catalog' \subseteq CollectionNames /\ known' \subseteq catalog' BY DEF VInv, Globals
<1> QED BY <1>1, <1>3, <1>5, <1>6, <1>7 DEF Quiet, Answers

LEMMA ErrorQuiet ==
  ASSUME VInv, NEW c \in Clients, job[c].phase \in AtWork, job[c].phase # "write", NEW code, Reply(c, ErrorReply(code)),
         RefusedWith(client[c], code),
         UNCHANGED <<catalog, store, client, toServer, acked, known>>
  PROVE  Quiet(c)
<1>1. PICK ms : ms = ErrorReply(code) OBVIOUS
<1>2. IsMessages(ms) BY <1>1, Few DEF ErrorReply
<1>3. ms[1] = [k |-> "error", code |-> code] BY <1>1 DEF ErrorReply
<1>4. ms[1].k # "complete" BY <1>3
<1>5. Replied(client[c], ms, catalog) BY <1>1, Zenon DEF Replied
<1>6. Reply(c, ms) BY <1>1
<1> QED BY <1>2, <1>4, <1>5, <1>6, ReplyQuiet

LEMMA RowsQuiet ==
  ASSUME VInv, NEW c \in Clients, job[c].phase \in AtWork, job[c].phase # "write", NEW rows, Reply(c, RowsReply(rows)),
         ShownWith(client[c], rows, catalog),
         UNCHANGED <<catalog, store, client, toServer, acked, known>>
  PROVE  Quiet(c)
<1>1. PICK ms : ms = RowsReply(rows) OBVIOUS
<1>2. IsRows(rows) /\ client[c].query.k # "insert" BY DEF ShownWith
<1>3. IsMessages(ms) BY <1>1, <1>2, RowsAreMessages
<1>4. Replied(client[c], ms, catalog) BY <1>1, Zenon DEF Replied
<1>5. Reply(c, ms) BY <1>1
<1> QED BY <1>2, <1>3, <1>4, <1>5, ReplyQuiet

LEMMA DispatchQuiet ==
  ASSUME VInv, Language, NEW c \in Clients, Dispatch(c)
  PROVE  Quiet(c)
<1>1. PICK cl, q : cl = client[c] /\ q = cl.query OBVIOUS
<1>2. job[c].phase = "query" BY DEF Dispatch
<1>3. job[c].phase \in AtWork /\ job[c].phase # "write" BY <1>2 DEF AtWork
<1>4. /\ Shapes(cl, job[c]) /\ Busy(q, job[c], catalog)
      /\ q \in ClientQueries[c] /\ catalog \in SUBSET CollectionNames /\ store \in Stores
  BY <1>1, <1>3, AtWorkIs
<1>5. job[c].text = TextOf[q] BY <1>2, <1>4 DEF Busy
<1>6. /\ IsRows(Shortcut(TextOf[q], catalog, store)[2])
      /\ q.k \in Kinds => ReadBack(q, catalog, Stores)
      /\ ReadText(TextOf[q]).ok => (q.k # "create" => ReadText(TextOf[q]).ast.k # "create")
  BY <1>4, LanguageOf
<1>7. UNCHANGED <<catalog, store, client, toServer, acked, known>> BY DEF Dispatch
<1>8. PICK fast : fast = Shortcut(TextOf[q], catalog, store) OBVIOUS
<1>9. CASE fast[1]
  <2>1. Reply(c, RowsReply(fast[2])) BY <1>5, <1>8, <1>9 DEF Dispatch
  <2>2. q.k \notin Kinds BY <1>4, <1>6, <1>8, <1>9 DEF ReadBack
  <2>3. q.k # "insert" /\ q.k # "create" /\ ~SelectsAll(q) BY <2>2 DEF Kinds, SelectsAll
  <2>4. ShownWith(cl, fast[2], catalog) BY <1>1, <1>6, <1>8, <2>3 DEF ShownWith, Registered
  <2> QED BY <1>1, <1>3, <1>7, <2>1, <2>4, RowsQuiet
<1>10. CASE ~fast[1]
  <2>1. PICK parsed : parsed = ReadText(TextOf[q]) OBVIOUS
  <2>2. Parsed(c, parsed) BY <1>5, <1>8, <1>10, <2>1 DEF Dispatch
  <2>3. CASE parsed.ok
    <3>1. PICK p : p = IF parsed.ast.k = "create" THEN "create" ELSE "bind" OBVIOUS
    <3>2. PICK x, y : x = [job[c] EXCEPT !.ast = parsed.ast] /\ y = At(x, p) OBVIOUS
    <3>3. job' = [job EXCEPT ![c] = y] /\ UNCHANGED toClient BY <2>2, <2>3, <3>1, <3>2 DEF Parsed
    <3>4. IsJob(x) /\ x.ast = parsed.ast /\ x.next = 1 BY <1>3, <1>4, <3>2, JobAst DEF Shapes
    <3>5. IsJob(y) /\ y.phase = p /\ y.ast = parsed.ast /\ y.next = 1
      <4>1. IsJob(x) BY <3>4
      <4>2. y = At(x, p) BY <3>2
      <4>3. IsJob(y) /\ y.phase = p /\ y.ast = x.ast /\ y.next = x.next BY <4>1, <4>2, JobAt
      <4> QED BY <3>4, <4>3
    <3>6. Busy(q, y, catalog')
      <4>1. CASE parsed.ast.k = "create"
        <5>1. q.k = "create" /\ p = "create" BY <1>6, <2>1, <2>3, <3>1, <4>1
        <5> QED BY <2>1, <2>3, <3>5, <5>1 DEF Busy
      <4>2. CASE parsed.ast.k # "create"
        <5>1. q.k # "create"
          <6>1. q.k = "create" => ReadBack(q, catalog, Stores) BY <1>6 DEF Kinds
          <6> QED BY <2>1, <4>2, <6>1 DEF ReadBack
        <5>2. p = "bind" BY <3>1, <4>2
        <5> QED BY <2>1, <2>3, <3>5, <5>1, <5>2 DEF Busy, Registered
      <4> QED BY <4>1, <4>2
    <3>7. catalog \subseteq catalog' /\ catalog' \subseteq CollectionNames BY <1>4, <1>7
    <3> QED BY <1>1, <1>3, <1>7, <3>3, <3>5, <3>6, <3>7, GoesOnQuiet
  <2>4. CASE ~parsed.ok
    <3>1. Reply(c, ErrorReply("42601")) BY <2>2, <2>4 DEF Parsed
    <3>2. q.k \notin Kinds BY <1>6, <2>1, <2>4 DEF ReadBack
    <3>3. RefusedWith(cl, "42601") BY <1>1, <3>2 DEF RefusedWith, SelectsAll, Kinds
    <3> QED BY <1>1, <1>3, <1>7, <3>1, <3>3, ErrorQuiet
  <2> QED BY <2>3, <2>4
<1> QED BY <1>9, <1>10

LEMMA RegisterCreateQuiet ==
  ASSUME VInv, Language, NEW c \in Clients, RegisterCreate(c)
  PROVE  Quiet(c)
<1>1. PICK cl, q : cl = client[c] /\ q = cl.query OBVIOUS
<1>2. job[c].phase = "create" BY DEF RegisterCreate
<1>3. job[c].phase \in AtWork /\ job[c].phase # "write" BY <1>2 DEF AtWork
<1>4. /\ Shapes(cl, job[c]) /\ Busy(q, job[c], catalog)
      /\ q \in ClientQueries[c] /\ catalog \in SUBSET CollectionNames
  BY <1>1, <1>3, AtWorkIs
<1>5. q.k = "create" /\ ReadText(TextOf[q]).ok /\ job[c].ast = ReadText(TextOf[q]).ast BY <1>2, <1>4 DEF Busy
<1>6. ReadBack(q, catalog, Stores) /\ CreateBinds(q, catalog, Stores) BY <1>4, <1>5, LanguageOf DEF Kinds
<1>7. job[c].ast = q BY <1>5, <1>6 DEF ReadBack
<1>8. q.name \in CollectionNames BY <1>6 DEF CreateBinds
<1>9. catalog' = catalog \cup {q.name} BY <1>7 DEF RegisterCreate
<1>10. PICK y : y = At(job[c], "bind") OBVIOUS
<1>11. job' = [job EXCEPT ![c] = y]
  <2>1. job' = [job EXCEPT ![c].phase = "bind"] BY DEF RegisterCreate
  <2> QED BY <1>10, <2>1 DEF At, VInv, Globals
<1>12. IsJob(y) /\ y.phase = "bind" /\ y.ast = job[c].ast /\ y.next = 1
  <2>1. IsJob(job[c]) /\ job[c].next = 1 BY <1>3, <1>4 DEF Shapes
  <2> QED BY <1>10, <2>1, JobAt
<1>13. Busy(q, y, catalog') BY <1>5, <1>8, <1>9, <1>12 DEF Busy, Registered
<1>14. catalog \subseteq catalog' /\ catalog' \subseteq CollectionNames BY <1>4, <1>8, <1>9
<1>15. UNCHANGED <<store, client, toServer, toClient, acked, known>> BY DEF RegisterCreate
<1> QED BY <1>1, <1>3, <1>11, <1>12, <1>13, <1>14, <1>15, GoesOnQuiet

LEMMA RegisterInsertQuiet ==
  ASSUME VInv, NEW c \in Clients, RegisterInsert(c)
  PROVE  Quiet(c)
<1>1. PICK cl, q : cl = client[c] /\ q = cl.query OBVIOUS
<1>2. job[c].phase = "register" BY DEF RegisterInsert
<1>3. job[c].phase \in AtWork /\ job[c].phase # "write" BY <1>2 DEF AtWork
<1>4. /\ Shapes(cl, job[c]) /\ Busy(q, job[c], catalog) /\ catalog \in SUBSET CollectionNames
  BY <1>1, <1>3, AtWorkIs
<1>5. InsertPlan(q, job[c].plan) BY <1>2, <1>4 DEF Busy
<1>6. job[c].plan.name = q.name /\ q.name \in CollectionNames /\ IsRows(job[c].plan.rows) /\ job[c].plan.rows # <<>>
  BY <1>5 DEF InsertPlan
<1>7. Len(job[c].plan.rows) \in Nat /\ Len(job[c].plan.rows) # 0 BY <1>6, RowsLen
<1>8. catalog' = catalog \cup {q.name} BY <1>6 DEF RegisterInsert
<1>9. PICK y : y = At(job[c], "write") OBVIOUS
<1>10. job' = [job EXCEPT ![c] = y]
  <2>1. job' = [job EXCEPT ![c].phase = "write"] BY DEF RegisterInsert
  <2> QED BY <1>9, <2>1 DEF At, VInv, Globals
<1>11. IsJob(y) /\ y.phase = "write" /\ y.plan = job[c].plan /\ y.next = 1
  <2>1. IsJob(job[c]) /\ job[c].next = 1 BY <1>3, <1>4 DEF Shapes
  <2> QED BY <1>9, <2>1, JobAt
<1>12. Busy(q, y, catalog')
  <2>1. InsertPlan(q, y.plan) BY <1>5, <1>11
  <2>2. y.next \in 1 .. Len(y.plan.rows) BY <1>7, <1>11
  <2> QED BY <1>8, <1>11, <2>1, <2>2 DEF Busy
<1>13. catalog \subseteq catalog' /\ catalog' \subseteq CollectionNames BY <1>4, <1>6, <1>8
<1>14. UNCHANGED <<store, client, toServer, toClient, acked, known>> BY DEF RegisterInsert
<1> QED BY <1>1, <1>3, <1>10, <1>11, <1>12, <1>13, <1>14, GoesOnQuiet

LEMMA BindStepQuiet ==
  ASSUME VInv, Language, NEW c \in Clients, BindStep(c)
  PROVE  Quiet(c)
<1>1. PICK cl, q : cl = client[c] /\ q = cl.query OBVIOUS
<1>2. job[c].phase = "bind" BY DEF BindStep
<1>3. job[c].phase \in AtWork /\ job[c].phase # "write" BY <1>2 DEF AtWork
<1>4. /\ Shapes(cl, job[c]) /\ Busy(q, job[c], catalog) /\ Asks(c, cl, catalog, store)
      /\ q \in ClientQueries[c] /\ catalog \in SUBSET CollectionNames
  BY <1>1, <1>3, AtWorkIs
<1>5. PICK ast : ast = ReadText(TextOf[q]).ast OBVIOUS
<1>6. ReadText(TextOf[q]).ok /\ job[c].ast = ast /\ Registered(q, catalog) BY <1>2, <1>4, <1>5 DEF Busy
<1>7. /\ q.k \in Kinds => ReadBack(q, catalog, Stores)
      /\ SelectsAll(q) => SelectBinds(q, catalog, Stores)
      /\ q.k = "insert" => InsertBinds(q, catalog, Nat, Records)
      /\ q.k = "create" => CreateBinds(q, catalog, Stores)
      /\ q.k # "insert" => Reads(ast, catalog, Stores)
  BY <1>4, <1>5, <1>6, LanguageOf
<1>8. q.k \in Kinds => ast = q BY <1>5, <1>7 DEF ReadBack
<1>9. PICK bound : bound = Binder(ast, catalog) OBVIOUS
<1>10. UNCHANGED <<catalog, store, client, toServer, acked, known>> BY DEF BindStep
<1>11. SelectsAll(q) => q.k = "select" BY DEF SelectsAll
<1>12. CASE bound.ok
  <2>1. PICK p : p = IF bound.plan.op = "Insert" THEN "register" ELSE "execute" OBVIOUS
  <2>2. PICK x, y : x = [job[c] EXCEPT !.plan = bound.plan] /\ y = At(x, p) OBVIOUS
  <2>3. job' = [job EXCEPT ![c] = y] /\ UNCHANGED toClient BY <1>6, <1>9, <1>12, <2>1, <2>2 DEF BindStep
  <2>4. IsJob(x) /\ x.plan = bound.plan /\ x.next = 1 BY <1>3, <1>4, <2>2, JobPlan DEF Shapes
  <2>5. IsJob(y) /\ y.phase = p /\ y.plan = bound.plan /\ y.next = 1
    <3>1. IsJob(x) BY <2>4
    <3>2. y = At(x, p) BY <2>2
    <3>3. IsJob(y) /\ y.phase = p /\ y.plan = x.plan /\ y.next = x.next BY <3>1, <3>2, JobAt
    <3> QED BY <2>4, <3>3
  <2>6. CASE q.k = "insert"
    <3>1. InsertBinds(q, catalog, Nat, Records) /\ bound = Binder(q, catalog) BY <1>7, <1>8, <1>9, <2>6 DEF Kinds
    <3>2. InsertPlan(q, bound.plan) /\ bound.plan.op = "Insert" BY <2>6, <3>1 DEF InsertBinds, InsertPlan
    <3>3. Busy(q, y, catalog') BY <2>1, <2>5, <3>2 DEF Busy
    <3>4. catalog \subseteq catalog' /\ catalog' \subseteq CollectionNames BY <1>4, <1>10
    <3> QED BY <1>1, <1>3, <1>10, <2>3, <2>5, <3>3, <3>4, GoesOnQuiet
  <2>7. CASE q.k # "insert"
    <3>1. bound.plan.op # "Insert" /\ \A st \in Stores : IsRows(Executor(Optimizer(bound.plan), st))
      BY <1>7, <1>9, <1>12, <2>7 DEF Reads
    <3>2. SelectsAll(q) => \A st \in Stores : Len(Executor(Optimizer(bound.plan), st)) >= Cardinality(RowsOf(TargetOf(q), st))
      <4> SUFFICES ASSUME SelectsAll(q) PROVE \A st \in Stores : Len(Executor(Optimizer(bound.plan), st)) >= Cardinality(RowsOf(TargetOf(q), st))
        OBVIOUS
      <4>1. SelectBinds(q, catalog, Stores) /\ bound = Binder(q, catalog) BY <1>7, <1>8, <1>9, <1>11 DEF Kinds
      <4> QED BY <1>12, <4>1 DEF SelectBinds
    <3>3. q.k = "create" => \A st \in Stores : Executor(Optimizer(bound.plan), st) = <<>>
      <4> SUFFICES ASSUME q.k = "create" PROVE \A st \in Stores : Executor(Optimizer(bound.plan), st) = <<>>
        OBVIOUS
      <4>1. CreateBinds(q, catalog, Stores) /\ bound = Binder(q, catalog) BY <1>7, <1>8, <1>9 DEF Kinds
      <4> QED BY <4>1 DEF CreateBinds
    <3>4. ReadPlan(q, bound.plan) BY <2>7, <3>1, <3>2, <3>3 DEF ReadPlan
    <3>5. Busy(q, y, catalog') BY <1>6, <1>10, <2>1, <2>5, <3>1, <3>4 DEF Busy
    <3>6. catalog \subseteq catalog' /\ catalog' \subseteq CollectionNames BY <1>4, <1>10
    <3> QED BY <1>1, <1>3, <1>10, <2>3, <2>5, <3>5, <3>6, GoesOnQuiet
  <2> QED BY <2>6, <2>7
<1>13. CASE ~bound.ok
  <2>1. Reply(c, ErrorReply(bound.code)) BY <1>6, <1>9, <1>13 DEF BindStep
  <2>2. RefusedWith(cl, bound.code)
    <3> SUFFICES ASSUME SelectsAll(q) PROVE bound.code = "42P01" /\ ~cl.sure
      BY <1>1 DEF RefusedWith
    <3>1. SelectBinds(q, catalog, Stores) /\ bound = Binder(q, catalog) BY <1>7, <1>8, <1>9, <1>11 DEF Kinds
    <3>2. bound.code = "42P01" /\ TargetOf(q) \notin catalog BY <1>13, <3>1 DEF SelectBinds
    <3> QED BY <1>1, <1>4, <3>2 DEF Asks, Promised
  <2> QED BY <1>1, <1>3, <1>10, <2>1, <2>2, ErrorQuiet
<1> QED BY <1>12, <1>13

\* A row for every record.
LEMMA DataRowsOf ==
  ASSUME NEW batch, IsRows(batch)
  PROVE  IsRows(DataRows(batch)) /\ Len(DataRows(batch)) = Len(batch)
<1>1. PICK n : n = Len(batch) OBVIOUS
<1>2. n \in Nat /\ DOMAIN batch = 1 .. n BY <1>1, RowsLen
<1>3. PICK rows : rows = DataRows(batch) OBVIOUS
<1>4. DOMAIN rows = 1 .. n /\ rows = [i \in 1 .. n |-> rows[i]] BY <1>2, <1>3 DEF DataRows
<1>5. rows \in [1 .. n -> {rows[i] : i \in DOMAIN rows}] BY <1>4
<1>6. rows \in Seq({rows[i] : i \in DOMAIN rows}) BY <1>2, <1>5
<1>7. Len(rows) = n BY <1>2, <1>4, <1>6
<1> QED BY <1>1, <1>3, <1>6, <1>7 DEF IsRows

LEMMA RunPlanQuiet ==
  ASSUME VInv, Language, NEW c \in Clients, RunPlan(c)
  PROVE  Quiet(c)
<1>1. PICK cl, q : cl = client[c] /\ q = cl.query OBVIOUS
<1>2. job[c].phase = "execute" BY DEF RunPlan
<1>3. job[c].phase \in AtWork /\ job[c].phase # "write" BY <1>2 DEF AtWork
<1>4. Busy(q, job[c], catalog) /\ Asks(c, cl, catalog, store) /\ store \in Stores BY <1>1, <1>3, AtWorkIs
<1>5. ReadPlan(q, job[c].plan) /\ Registered(q, catalog) BY <1>2, <1>4 DEF Busy
<1>6. PICK batch : batch = Executor(Optimizer(job[c].plan), store) OBVIOUS
<1>7. PICK rows : rows = DataRows(batch) OBVIOUS
<1>8. Reply(c, RowsReply(rows)) /\ UNCHANGED <<catalog, store, client, toServer, acked, known>> BY <1>6, <1>7 DEF RunPlan
<1>9. /\ q.k # "insert" /\ IsRows(batch)
      /\ q.k = "create" => batch = <<>>
      /\ SelectsAll(q) => Len(batch) >= Cardinality(RowsOf(TargetOf(q), store))
  BY <1>4, <1>5, <1>6 DEF ReadPlan
<1>10. IsRows(rows) /\ Len(rows) = Len(batch) /\ Len(batch) \in Nat BY <1>7, <1>9, DataRowsOf, RowsLen
<1>11. SelectsAll(q) => Len(rows) >= cl.must
  <2>1. PICK n \in Nat : n = Cardinality(RowsOf(TargetOf(q), store)) BY <1>4, RowsFinite
  <2>2. cl.must \in Nat /\ cl.must <= n BY <1>1, <1>4, <2>1 DEF Asks, Promised
  <2> QED BY <1>9, <1>10, <2>1, <2>2
<1>12. q.k = "create" => rows = <<>> BY <1>9, <1>10, RowsLen
<1>13. ShownWith(cl, rows, catalog) BY <1>1, <1>5, <1>9, <1>10, <1>11, <1>12 DEF ShownWith
<1> QED BY <1>1, <1>3, <1>8, <1>13, RowsQuiet

-----------------------------------------------------------------------------
(* Steps that write rows, and those that count them. *)

\* A connection that takes the rows S for its own.
Takes(W, V, c, S) == V = [W EXCEPT ![c] = S]

LEMMA StoreGrows ==
  ASSUME NEW st \in Stores, NEW st2 \in Stores, Extends(st, st2)
  PROVE  /\ DOMAIN st \subseteq DOMAIN st2
         /\ \A i \in DOMAIN st : st2[i] = st[i]
<1>1. DOMAIN st = 1 .. Len(st) /\ DOMAIN st2 = 1 .. Len(st2) /\ Len(st) \in Nat /\ Len(st2) \in Nat BY DEF Stores
<1> QED BY <1>1 DEF Extends

LEMMA StoreFinite ==
  ASSUME NEW st \in Stores, NEW T, T \subseteq DOMAIN st
  PROVE  IsFiniteSet(T) /\ Cardinality(T) \in Nat
<1>1. PICK n \in Nat : DOMAIN st = 1 .. n BY DEF Stores
<1>2. IsFiniteSet(T) BY <1>1, FS_Interval, FS_Subset
<1> QED BY <1>2, FS_CardinalityType

LEMMA OwnsMore ==
  ASSUME VInv, NEW c \in Clients, Only(c), store' \in Stores, Extends(store, store'),
         NEW W, Owns(W), NEW S, S \subseteq DOMAIN store', \A d \in Clients : d # c => S \cap W[d] = {},
         Cardinality(S) = Held(c)', \A i \in S : store'[i].coll = client'[c].query.name,
         NEW V, Takes(W, V, c, S)
  PROVE  Owns(V)'
<1>1. store \in Stores BY DEF VInv, Globals
<1>2. DOMAIN store \subseteq DOMAIN store' /\ \A i \in DOMAIN store : store'[i] = store[i] BY <1>1, StoreGrows
<1>3. W \in [Clients -> SUBSET DOMAIN store] /\ \A d, e \in Clients : d # e => W[d] \cap W[e] = {} BY DEF Owns
<1>4. V \in [Clients -> SUBSET DOMAIN store'] /\ V[c] = S /\ \A d \in Clients : d # c => V[d] = W[d]
  BY <1>2, <1>3 DEF Takes
<1>5. \A d, e \in Clients : d # e => V[d] \cap V[e] = {} BY <1>3, <1>4
<1>6. ASSUME NEW d \in Clients
      PROVE  Cardinality(V[d]) = Held(d)' /\ \A i \in V[d] : store'[i].coll = client'[d].query.name
  <2>1. CASE d = c BY <1>4, <2>1
  <2>2. CASE d # c
    <3>1. Held(d)' = Held(d) /\ client'[d] = client[d] BY <2>2 DEF Held, Only
    <3>2. V[d] = W[d] /\ \A i \in W[d] : store'[i] = store[i] BY <1>2, <1>3, <1>4, <2>2
    <3>3. Cardinality(W[d]) = Held(d) /\ \A i \in W[d] : store[i].coll = client[d].query.name BY DEF Owns
    <3> QED BY <3>1, <3>2, <3>3
  <2> QED BY <2>1, <2>2
<1> QED BY <1>4, <1>5, <1>6 DEF Owns

\* Rows nobody owned are still nobody's, unless they are new.
LEMMA StillFree ==
  ASSUME VInv, NEW c \in Clients, store' \in Stores, Extends(store, store'),
         NEW W, Owns(W), NEW S, S \cap DOMAIN store \subseteq W[c], NEW V, Takes(W, V, c, S), NEW d
  PROVE  Free(W, d) \subseteq Free(V, d)' /\ Free(W, d) \subseteq DOMAIN store /\ Free(V, d)' \subseteq DOMAIN store'
<1>1. store \in Stores BY DEF VInv, Globals
<1>2. DOMAIN store \subseteq DOMAIN store' /\ \A i \in DOMAIN store : store'[i] = store[i] BY <1>1, StoreGrows
<1>3. V[c] = S /\ \A e \in Clients : e # c => V[e] = W[e] BY DEF Takes, Owns
<1>4. ASSUME NEW i \in Free(W, d) PROVE i \in Free(V, d)'
  <2>1. i \in DOMAIN store /\ store[i].coll = d /\ \A e \in Clients : i \notin W[e] BY DEF Free
  <2>2. \A e \in Clients : i \notin V[e] BY <1>3, <2>1
  <2> QED BY <1>2, <2>1, <2>2 DEF Free
<1> QED BY <1>4 DEF Free

LEMMA PaysOn ==
  ASSUME VInv, NEW c \in Clients, store' \in Stores, Extends(store, store'), acked' = acked,
         NEW W, Owns(W), Pays(W), NEW S, S \cap DOMAIN store \subseteq W[c], NEW V, Takes(W, V, c, S)
  PROVE  Pays(V)'
<1> SUFFICES ASSUME NEW d \in CollectionNames PROVE acked[d] <= Cardinality(Free(V, d)')
  BY DEF Pays
<1>1. PICK A, B : A = Free(W, d) /\ B = Free(V, d)' OBVIOUS
<1>2. A \subseteq B /\ A \subseteq DOMAIN store /\ B \subseteq DOMAIN store' BY <1>1, StillFree
<1>3. IsFiniteSet(B) BY <1>2, StoreFinite
<1>4. PICK m, n : m = Cardinality(A) /\ n = Cardinality(B) OBVIOUS
<1>5. m <= n /\ m \in Nat /\ n \in Nat BY <1>2, <1>3, <1>4, FS_Subset, FS_CardinalityType
<1>6. acked[d] \in Nat /\ acked[d] <= m BY <1>1, <1>4 DEF Pays, VInv, Globals
<1> QED BY <1>1, <1>4, <1>5, <1>6

\* A failed write: what the INSERT wrote is nobody's from now on.
LEMMA WriteFailsKeeps ==
  ASSUME VInv, NEW c \in Clients, WriteFails(c)
  PROVE  VInv'
<1>1. job[c].phase = "write" /\ UNCHANGED <<catalog, store, client, toServer, acked, known>> BY DEF WriteFails
<1>2. job[c].phase \in AtWork BY <1>1 DEF AtWork
<1>3. Busy(client[c].query, job[c], catalog) /\ store \in Stores BY <1>2, AtWorkIs
<1>4. client[c].query.k = "insert" BY <1>1, <1>3 DEF Busy, InsertPlan
<1>5. PICK ms : ms = ErrorReply("XX000") OBVIOUS
<1>6. IsMessages(ms) BY <1>5, Few DEF ErrorReply
<1>7. ms # <<>> /\ ms[1].k # "complete"
  <2>1. ms[1] = [k |-> "error", code |-> "XX000"] BY <1>5 DEF ErrorReply
  <2>2. ms # <<>> BY <1>5 DEF ErrorReply
  <2> QED BY <2>1, <2>2
<1>8. Answers(c, ms)
  <2>1. Reply(c, ms) BY <1>5 DEF WriteFails
  <2> QED BY <1>1, <1>2, <1>6, <2>1, ReplyAnswers
<1>9. Replied(client[c], ms, catalog)
  <2>1. RefusedWith(client[c], "XX000") BY <1>4 DEF RefusedWith, SelectsAll
  <2> QED BY <1>5, <2>1, Zenon DEF Replied
<1>10. store' \in Stores /\ Extends(store, store') BY <1>1, <1>3, SameStore
<1>11. Here(c)' BY <1>1, <1>2, <1>8, <1>9, <1>10, AnswerHere
<1>12. Only(c) BY <1>8 DEF Answers
<1>13. Connections' BY <1>1, <1>10, <1>11, <1>12, OthersKept
<1>14. Globals' BY <1>1, <1>12 DEF VInv, Globals, Only
<1>15. PICK W : Owns(W) /\ Pays(W) BY DEF VInv, Ledger
<1>16. PICK V : Takes(W, V, c, {}) BY DEF Takes
<1>17. Held(c)' = 0 BY <1>7, <1>8 DEF Held, HeldBy, Answers
<1>18. Owns(V)' BY <1>10, <1>12, <1>15, <1>16, <1>17, OwnsMore, FS_EmptySet
<1>19. Pays(V)' BY <1>1, <1>10, <1>15, <1>16, PaysOn
<1> QED BY <1>13, <1>14, <1>18, <1>19 DEF VInv, Ledger

\* A row more for the connection that wrote it, whose answer counts it if it is the last.
LEMMA WriteRowKeeps ==
  ASSUME VInv, NEW c \in Clients, WriteRow(c)
  PROVE  VInv'
<1>1. PICK cl, q, j, p : cl = client[c] /\ q = cl.query /\ j = job[c] /\ p = j.plan OBVIOUS
<1>2. j.phase = "write" /\ UNCHANGED <<catalog, client, toServer, acked, known>> BY <1>1 DEF WriteRow
<1>3. job[c].phase \in AtWork BY <1>1, <1>2 DEF AtWork
<1>4. /\ Shapes(cl, j) /\ Asks(c, cl, catalog, store) /\ Busy(q, j, catalog) /\ store \in Stores
      /\ toServer[c] = <<>> /\ toClient[c] = <<>>
  BY <1>1, <1>3, AtWorkIs
<1>5. InsertPlan(q, p) /\ q.name \in catalog /\ j.next \in 1 .. Len(p.rows) BY <1>1, <1>2, <1>4 DEF Busy
<1>6. IsRows(p.rows) /\ p.name = q.name /\ q.k = "insert" /\ q.name \in CollectionNames BY <1>5 DEF InsertPlan
<1>7. PICK n : n = Len(p.rows) OBVIOUS
<1>8. n \in Nat /\ DOMAIN p.rows = 1 .. n /\ j.next \in 1 .. n BY <1>5, <1>6, <1>7, RowsLen
<1>9. PICK id \in Nat : id = Len(store) + 1 BY <1>4 DEF Stores
<1>10. PICK record : record = Recorder(q.name, p.rows[j.next], id) OBVIOUS
<1>11. record \in Records /\ record.coll = q.name BY <1>5, <1>8, <1>10 DEF InsertPlan
<1>12. store' = Append(store, record) BY <1>1, <1>6, <1>9, <1>10 DEF WriteRow
<1>13. /\ store' \in Stores /\ Extends(store, store') /\ id \in DOMAIN store' /\ id \notin DOMAIN store /\ store'[id] = record
       /\ DOMAIN store \subseteq DOMAIN store'
  BY <1>4, <1>9, <1>11, <1>12 DEF Stores, Extends
<1>14. Only(c) /\ Here(c)' /\ Held(c)' = j.next
  <2>1. CASE j.next = n
    <3>1. PICK ms : ms = InsertReply(n) OBVIOUS
    <3>2. IsMessages(ms) BY <3>1, Few DEF InsertReply
    <3>3. Reply(c, ms) BY <1>1, <1>7, <2>1, <3>1 DEF WriteRow, InsertReply
    <3>4. Answers(c, ms) BY <1>2, <1>3, <3>2, <3>3, ReplyAnswers
    <3>5. Replied(client[c], ms, catalog)
      <4>1. InsertedWith(client[c], n, catalog) BY <1>1, <1>5, <1>6, <1>8 DEF InsertedWith
      <4> QED BY <3>1, <4>1, Zenon DEF Replied
    <3>6. Here(c)' BY <1>2, <1>3, <1>13, <3>4, <3>5, AnswerHere
    <3>7. ms # <<>> /\ ms[1].k = "complete" /\ ms[1].n = n
      <4>1. ms[1] = Complete("INSERT", n) /\ ms # <<>> BY <3>1 DEF InsertReply
      <4> QED BY <4>1 DEF Complete
    <3>8. cl.phase = "waiting" BY <1>4 DEF Asks
    <3>9. Held(c)' = n BY <1>1, <1>6, <3>4, <3>7, <3>8 DEF Held, HeldBy, Answers
    <3> QED BY <2>1, <3>4, <3>6, <3>9 DEF Answers
  <2>2. CASE j.next # n
    <3>1. PICK y : y = [j EXCEPT !.next = j.next + 1] OBVIOUS
    <3>2. job' = [job EXCEPT ![c] = y] /\ UNCHANGED toClient
      <4>1. job' = [job EXCEPT ![c].next = @ + 1] /\ UNCHANGED toClient BY <1>1, <1>7, <2>2 DEF WriteRow
      <4> QED BY <1>1, <3>1, <4>1 DEF VInv, Globals
    <3>3. IsJob(y) /\ y.next = j.next + 1 /\ y.plan = p /\ y.phase = "write"
      <4>1. IsJob(j) BY <1>4 DEF Shapes
      <4> QED BY <1>1, <1>2, <3>1, <4>1, JobNext
    <3>4. y.next \in 1 .. Len(y.plan.rows)
      <4>1. j.next + 1 \in 1 .. n BY <1>8, <2>2
      <4> QED BY <1>7, <3>3, <4>1
    <3>5. Busy(q, y, catalog) BY <1>5, <3>3, <3>4 DEF Busy
    <3>6. Asks(c, cl, catalog, store') BY <1>4, <1>13, PromiseKept
    <3>7. Shapes(cl, y) BY <1>4, <3>3 DEF Shapes
    <3>8. Conn(c, cl, y, <<>>, <<>>, catalog, store') BY <1>1, <3>5, <3>6, <3>7 DEF Conn, Working
    <3>9. job'[c] = y /\ DOMAIN job' = Clients /\ \A d \in Clients : d # c => job'[d] = job[d]
      BY <3>2 DEF VInv, Globals
    <3>10. Only(c) BY <1>2, <3>2, <3>9 DEF Only, VInv, Globals
    <3>11. Here(c)' BY <1>1, <1>2, <1>4, <3>2, <3>8, <3>9 DEF Here
    <3>12. Held(c)' = y.next - 1 BY <3>3, <3>9 DEF Held, HeldBy
    <3>13. y.next - 1 = j.next BY <1>8, <3>3
    <3> QED BY <3>10, <3>11, <3>12, <3>13
  <2> QED BY <2>1, <2>2
<1>15. Connections' BY <1>2, <1>13, <1>14, OthersKept
<1>16. Globals' BY <1>2, <1>13, <1>14 DEF VInv, Globals, Only
<1>17. PICK W : Owns(W) /\ Pays(W) BY DEF VInv, Ledger
<1>18. PICK S : S = W[c] \cup {id} OBVIOUS
<1>19. PICK V : Takes(W, V, c, S) BY DEF Takes
<1>20. /\ \A d \in Clients : W[d] \subseteq DOMAIN store
       /\ \A d, e \in Clients : d # e => W[d] \cap W[e] = {}
  BY <1>17 DEF Owns
<1>21. Cardinality(S) = j.next
  <2>1. Cardinality(W[c]) = j.next - 1 BY <1>1, <1>2, <1>17 DEF Owns, Held, HeldBy
  <2>2. IsFiniteSet(W[c]) /\ id \notin W[c] BY <1>4, <1>13, <1>20, StoreFinite
  <2>3. Cardinality(S) = Cardinality(W[c]) + 1 BY <1>18, <2>2, FS_AddElement
  <2> QED BY <1>8, <2>1, <2>3
<1>22. S \subseteq DOMAIN store' /\ \A d \in Clients : d # c => S \cap W[d] = {} BY <1>13, <1>18, <1>20
<1>23. \A i \in S : store'[i].coll = client'[c].query.name
  <2>1. \A i \in W[c] : store[i].coll = q.name /\ i \in DOMAIN store BY <1>1, <1>17, <1>20 DEF Owns
  <2>2. \A i \in DOMAIN store : store'[i] = store[i] BY <1>13 DEF Extends
  <2> QED BY <1>1, <1>2, <1>11, <1>13, <1>18, <2>1, <2>2
<1>24. Owns(V)' BY <1>13, <1>14, <1>17, <1>19, <1>21, <1>22, <1>23, OwnsMore
<1>25. S \cap DOMAIN store \subseteq W[c] BY <1>13, <1>18
<1>26. Pays(V)' BY <1>2, <1>13, <1>17, <1>19, <1>25, PaysOn
<1> QED BY <1>15, <1>16, <1>24, <1>26 DEF VInv, Ledger

\* Every answer ends with ready.
LEMMA EndsReady ==
  /\ \A x, y : <<x, y>>[Len(<<x, y>>)] = y
  /\ \A x, y, z : <<x, y, z>>[Len(<<x, y, z>>)] = z
OBVIOUS

LEMMA RowsEndReady ==
  ASSUME NEW rows, IsRows(rows)
  PROVE  RowsReply(rows)[Len(RowsReply(rows))].k = "ready"
<1>1. PICK ms, r : ms = RowsReply(rows) /\ r = [k |-> "ready"] OBVIOUS
<1>2. r.k = "ready" BY <1>1
<1>3. CASE rows = <<>>
  <2>1. PICK x : x = Complete("SELECT", Len(rows)) OBVIOUS
  <2>2. ms = <<x, r>> BY <1>1, <1>3, <2>1 DEF RowsReply
  <2>3. ms[Len(ms)] = r BY <2>2, EndsReady
  <2> QED BY <1>1, <1>2, <2>3
<1>4. CASE rows # <<>>
  <2>1. Len(ms) = Len(rows) + 3 /\ ms[Len(rows) + 3] = r BY <1>1, <1>4, RowsMessages
  <2> QED BY <1>1, <1>2, <2>1
<1> QED BY <1>3, <1>4

\* A client that has read up to ready.
HasRead(c, a) ==
  /\ Only(c) /\ IsClient(client'[c]) /\ client'[c].phase = "idle" /\ client'[c].query = client[c].query
  /\ client'[c].answer = a /\ client'[c].must = client[c].must /\ client'[c].sure = client[c].sure
  /\ UNCHANGED <<job, toServer, catalog, store>> /\ toClient'[c] = <<>>

LEMMA ReadsAll ==
  ASSUME VInv, NEW c \in Clients, ClientRead(c), client[c].phase # "negotiating",
         toClient[c][Len(toClient[c])].k = "ready"
  PROVE  HasRead(c, AnswerRead(client[c].answer, toClient[c]))
<1>1. PICK cl, out, a : cl = client[c] /\ out = toClient[c] /\ a = AnswerRead(cl.answer, out) OBVIOUS
<1>2. IsClient(cl) BY <1>1 DEF VInv, Connections, Here, Conn, Shapes
<1>3. PICK y : y = [cl EXCEPT !.answer = a] OBVIOUS
<1>4. PICK x : x = At(y, "idle") OBVIOUS
<1>5. IsClient(y) /\ y.query = cl.query /\ y.answer = a /\ y.must = cl.must /\ y.sure = cl.sure BY <1>2, <1>3, ClientAnswer
<1>6. IsClient(x) /\ x.phase = "idle" /\ x.query = cl.query /\ x.answer = a /\ x.must = cl.must /\ x.sure = cl.sure
  BY <1>4, <1>5, ClientAt
<1>7. client' = [client EXCEPT ![c] = x] BY <1>1, <1>3, <1>4 DEF ClientRead
<1>8. toClient' = [toClient EXCEPT ![c] = <<>>] /\ UNCHANGED <<job, toServer, catalog, store>> BY DEF ClientRead
<1>9. client'[c] = x /\ DOMAIN client' = Clients /\ \A d \in Clients : d # c => client'[d] = client[d]
  BY <1>7 DEF VInv, Globals
<1>10. toClient'[c] = <<>> /\ DOMAIN toClient' = Clients /\ \A d \in Clients : d # c => toClient'[d] = toClient[d]
  BY <1>8 DEF VInv, Globals
<1>11. Only(c) BY <1>8, <1>9, <1>10 DEF Only, VInv, Globals
<1> QED BY <1>1, <1>6, <1>8, <1>9, <1>10, <1>11 DEF HasRead

\* The connection of a client that has read a good answer is idle.
LEMMA ReadHere ==
  ASSUME VInv, NEW c \in Clients, NEW a, HasRead(c, a), Good(client'[c]), job[c].phase = "ready", toServer[c] = <<>>
  PROVE  Here(c)' /\ Held(c)' = 0
<1>1. PICK x : x = client'[c] OBVIOUS
<1>2. IsJob(job[c]) /\ (job[c].phase # "write" => job[c].next = 1) BY DEF VInv, Connections, Here, Conn, Shapes
<1>3. Shapes(x, job[c]) BY <1>1, <1>2 DEF Shapes, HasRead
<1>4. Idle(x, job[c], <<>>, <<>>) BY <1>1 DEF Idle, HasRead
<1>5. Conn(c, x, job[c], <<>>, <<>>, catalog, store) BY <1>3, <1>4 DEF Conn
<1>6. Here(c)' BY <1>1, <1>5 DEF Here, HasRead
<1>7. Held(c)' = 0 BY DEF Held, HeldBy, HasRead
<1> QED BY <1>6, <1>7

LEMMA ReadQuiet ==
  ASSUME VInv, NEW c \in Clients, NEW a, HasRead(c, a), Good(client'[c]), job[c].phase = "ready", toServer[c] = <<>>,
         Held(c) = 0, acked' = acked, known' \subseteq catalog
  PROVE  Quiet(c)
<1>1. Here(c)' /\ Held(c)' = 0 BY ReadHere
<1>2. catalog' = catalog /\ store' = store /\ Only(c) BY DEF HasRead
<1>3. catalog' \subseteq CollectionNames BY <1>2 DEF VInv, Globals
<1> QED BY <1>1, <1>2, <1>3 DEF Quiet

\* The server declined SSL, or the client has been let in.
LEMMA NegotiatedQuiet ==
  ASSUME VInv, NEW c \in Clients, ClientRead(c), Negotiating(client[c], job[c], toServer[c], toClient[c])
  PROVE  Quiet(c)
<1>1. PICK cl, j : cl = client[c] /\ j = job[c] OBVIOUS
<1>2. Shapes(cl, j) BY <1>1 DEF VInv, Connections, Here, Conn
<1>3. toClient[c] # <<>> BY DEF ClientRead
<1>4. cl.phase = "negotiating" /\ Good(cl) /\ j.phase = "startup" /\ toServer[c] = <<>> BY <1>1, <1>3 DEF Negotiating
<1>5. PICK m : m = [k |-> "startup"] OBVIOUS
<1>6. PICK x : x = At(cl, "starting") OBVIOUS
<1>7. /\ client' = [client EXCEPT ![c] = x] /\ toClient' = [toClient EXCEPT ![c] = <<>>]
      /\ UNCHANGED <<job, catalog, store>>
  BY <1>1, <1>4, <1>6 DEF ClientRead
<1>8. toServer' = [toServer EXCEPT ![c] = Append(@, m)] /\ UNCHANGED <<known, acked>>
  BY <1>1, <1>4, <1>5 DEF ClientRead, Send
<1>9. client'[c] = x /\ DOMAIN client' = Clients /\ \A d \in Clients : d # c => client'[d] = client[d]
  BY <1>7 DEF VInv, Globals
<1>10. toClient'[c] = <<>> /\ DOMAIN toClient' = Clients /\ \A d \in Clients : d # c => toClient'[d] = toClient[d]
  BY <1>7 DEF VInv, Globals
<1>11. toServer'[c] = <<m>> /\ DOMAIN toServer' = Clients /\ \A d \in Clients : d # c => toServer'[d] = toServer[d]
  BY <1>4, <1>8 DEF VInv, Globals
<1>12. Only(c) BY <1>7, <1>9, <1>10, <1>11 DEF Only, VInv, Globals
<1>13. IsClient(x) /\ x.phase = "starting" /\ x.query = cl.query /\ x.answer = cl.answer /\ x.must = cl.must /\ x.sure = cl.sure
  BY <1>2, <1>6, ClientAt DEF Shapes
<1>14. Good(x) BY <1>4, <1>13, GoodSame
<1>15. Shapes(x, j) BY <1>2, <1>13 DEF Shapes
<1>16. Starting(x, j, <<m>>, <<>>) BY <1>4, <1>5, <1>13, <1>14 DEF Starting
<1>17. Conn(c, x, j, <<m>>, <<>>, catalog', store) BY <1>15, <1>16 DEF Conn
<1>18. HeldBy(x, j, <<>>) = 0 BY <1>4, HeldNone
<1>19. Held(c) = 0 BY <1>1, <1>4, HeldNone DEF Held
<1>20. catalog' \subseteq CollectionNames /\ known' \subseteq catalog' BY <1>7, <1>8 DEF VInv, Globals
<1>21. job'[c] = j /\ store' = store /\ acked' = acked /\ catalog \subseteq catalog' BY <1>1, <1>7, <1>8
<1> QED BY <1>9, <1>10, <1>11, <1>12, <1>17, <1>18, <1>19, <1>20, <1>21, MakeQuiet

LEMMA GreetedQuiet ==
  ASSUME VInv, NEW c \in Clients, ClientRead(c), Starting(client[c], job[c], toServer[c], toClient[c])
  PROVE  Quiet(c)
<1>1. toClient[c] # <<>> BY DEF ClientRead
<1>2. PICK cl, a : cl = client[c] /\ a = cl.answer OBVIOUS
<1>3. cl.phase = "starting" /\ Good(cl) /\ job[c].phase = "ready" /\ toServer[c] = <<>> /\ toClient[c] = Greeting
  BY <1>1, <1>2 DEF Starting
<1>4. PICK x, y, z : x = [k |-> "auth"] /\ y = [k |-> "key"] /\ z = [k |-> "ready"] OBVIOUS
<1>5. toClient[c] = <<x, y, z>> BY <1>3, <1>4 DEF Greeting
<1>6. AnswerRead(a, toClient[c]) = a
  <2>1. Collect(a, x) = a /\ Collect(a, y) = a /\ Collect(a, z) = a BY <1>4, CollectNothing
  <2>2. AnswerRead(a, <<x, y, z>>) = Collect(Collect(Collect(a, x), y), z) BY ShortRead
  <2> QED BY <1>5, <2>1, <2>2
<1>7. toClient[c][Len(toClient[c])].k = "ready"
  <2>1. toClient[c][Len(toClient[c])] = z BY <1>5, EndsReady
  <2>2. z.k = "ready" BY <1>4
  <2> QED BY <2>1, <2>2
<1>8. HasRead(c, a) BY <1>2, <1>3, <1>6, <1>7, ReadsAll
<1>9. Good(client'[c]) BY <1>2, <1>3, <1>8, GoodSame DEF HasRead
<1>10. Held(c) = 0 BY <1>2, <1>3, HeldNone DEF Held
<1>11. UNCHANGED <<known, acked>> BY <1>2, <1>3 DEF ClientRead
<1>12. known' \subseteq catalog BY <1>11 DEF VInv, Globals
<1> QED BY <1>3, <1>8, <1>9, <1>10, <1>11, <1>12, ReadQuiet

\* An error is read as its code and nothing else.
LEMMA ErrorReadQuiet ==
  ASSUME VInv, NEW c \in Clients, ClientRead(c), Asks(c, client[c], catalog, store),
         job[c].phase = "ready", toServer[c] = <<>>,
         NEW code, toClient[c] = ErrorReply(code), RefusedWith(client[c], code)
  PROVE  Quiet(c)
<1>1. PICK x, z : x = [k |-> "error", code |-> code] /\ z = [k |-> "ready"] OBVIOUS
<1>2. PICK out, a : out = toClient[c] /\ a = AnswerOf(<<>>, "", 0, code) OBVIOUS
<1>3. out = <<x, z>> BY <1>1, <1>2 DEF ErrorReply
<1>4. client[c].phase = "waiting" /\ client[c].answer = NoAnswer BY DEF Asks, Promised
<1>5. AnswerRead(NoAnswer, out) = a
  <2>1. AnswerRead(NoAnswer, <<x, z>>) = Collect(Collect(NoAnswer, x), z) BY ShortRead
  <2>2. NoAnswer = AnswerOf(<<>>, "", 0, "") BY DEF NoAnswer, AnswerOf
  <2>3. Collect(AnswerOf(<<>>, "", 0, ""), x) = a
    <3>1. x = [k |-> "error", code |-> code] BY <1>1
    <3>2. Collect(AnswerOf(<<>>, "", 0, ""), x) = AnswerOf(<<>>, "", 0, code) BY <3>1 DEF Collect, AnswerOf
    <3> QED BY <1>2, <3>2
  <2>4. Collect(a, z) = a BY <1>1, CollectNothing
  <2> QED BY <1>3, <2>1, <2>2, <2>3, <2>4
<1>6. out[Len(out)].k = "ready" /\ out[1].k # "complete"
  <2>1. out[Len(out)] = z BY <1>3, EndsReady
  <2>2. out[1] = x BY <1>3
  <2>3. z.k = "ready" /\ x.k # "complete" BY <1>1
  <2> QED BY <2>1, <2>2, <2>3
<1>7. HasRead(c, a) BY <1>2, <1>4, <1>5, <1>6, ReadsAll
<1>8. a.error = code /\ a.tag = "" BY <1>2 DEF AnswerOf
<1>9. Good(client'[c]) BY <1>7, <1>8 DEF Good, HasRead, RefusedWith
<1>10. UNCHANGED <<known, acked>> BY <1>2, <1>4, <1>5, <1>8 DEF ClientRead, Acknowledged
<1>11. Held(c) = 0 BY <1>2, <1>6 DEF Held, HeldBy
<1>12. known' \subseteq catalog BY <1>10 DEF VInv, Globals
<1> QED BY <1>7, <1>9, <1>10, <1>11, <1>12, ReadQuiet

\* An empty query has no answer.
LEMMA EmptyReadQuiet ==
  ASSUME VInv, NEW c \in Clients, ClientRead(c), Asks(c, client[c], catalog, store),
         job[c].phase = "ready", toServer[c] = <<>>, toClient[c] = EmptyReply, client[c].query.k \notin Kinds
  PROVE  Quiet(c)
<1>1. PICK x, z : x = [k |-> "empty"] /\ z = [k |-> "ready"] OBVIOUS
<1>2. PICK out : out = toClient[c] OBVIOUS
<1>3. out = <<x, z>> BY <1>1, <1>2 DEF EmptyReply
<1>4. client[c].phase = "waiting" /\ client[c].answer = NoAnswer BY DEF Asks, Promised
<1>5. PICK a : a = AnswerRead(NoAnswer, out) OBVIOUS
<1>6. out[Len(out)].k = "ready"
  <2>1. out[Len(out)] = z BY <1>3, EndsReady
  <2> QED BY <1>1, <2>1
<1>7. HasRead(c, a) BY <1>2, <1>4, <1>5, <1>6, ReadsAll
<1>8. client[c].query.k # "insert" /\ client[c].query.k # "create" /\ client[c].query.k # "select" BY DEF Kinds
<1>9. Good(client'[c]) BY <1>7, <1>8 DEF Good, SelectsAll, HasRead
<1>10. UNCHANGED <<known, acked>> BY <1>8 DEF ClientRead, Acknowledged
<1>11. Held(c) = 0 BY <1>8, HeldNone DEF Held
<1>12. known' \subseteq catalog BY <1>10 DEF VInv, Globals
<1> QED BY <1>7, <1>9, <1>10, <1>11, <1>12, ReadQuiet

\* Rows are read as they were sent; the collection of a CREATE is known.
LEMMA RowsReadQuiet ==
  ASSUME VInv, NEW c \in Clients, ClientRead(c), Asks(c, client[c], catalog, store),
         job[c].phase = "ready", toServer[c] = <<>>,
         NEW rows, toClient[c] = RowsReply(rows), ShownWith(client[c], rows, catalog)
  PROVE  Quiet(c)
<1>1. PICK cl, q, out, a : cl = client[c] /\ q = cl.query /\ out = toClient[c] /\ a = AnswerOf(rows, "SELECT", Len(rows), "")
  OBVIOUS
<1>2. /\ IsRows(rows) /\ q.k # "insert" /\ Registered(q, catalog)
      /\ SelectsAll(q) => Len(rows) >= cl.must
      /\ q.k = "create" => rows = <<>>
  BY <1>1 DEF ShownWith
<1>3. cl.phase = "waiting" /\ cl.answer = NoAnswer BY <1>1 DEF Asks, Promised
<1>4. AnswerRead(NoAnswer, out) = a /\ out[Len(out)].k = "ready" BY <1>1, <1>2, RowsRead, RowsEndReady
<1>5. HasRead(c, a) BY <1>1, <1>3, <1>4, ReadsAll
<1>6. a.rows = rows /\ a.n = Len(rows) /\ a.error = "" /\ a.tag = "SELECT" BY <1>1 DEF AnswerOf
<1>7. Good(client'[c]) BY <1>1, <1>2, <1>5, <1>6 DEF Good, HasRead
<1>8. Held(c) = 0 BY <1>1, <1>2, HeldNone DEF Held
<1>9. acked' = acked /\ known' \subseteq catalog
  <2>1. CASE q.k = "create"
    <3>1. Acknowledged(q, a) BY <1>6, <2>1 DEF Acknowledged
    <3>2. known' = known \cup {q.name} /\ acked' = [acked EXCEPT ![q.name] = @ + a.n]
      BY <1>1, <1>3, <1>4, <3>1 DEF ClientRead
    <3>3. q.name \in catalog /\ q.name \in CollectionNames BY <1>2, <2>1 DEF Registered
    <3>4. a.n = 0 BY <1>2, <1>6, <2>1
    <3>5. acked \in [CollectionNames -> Nat] /\ known \subseteq catalog BY DEF VInv, Globals
    <3>6. acked[q.name] + a.n = acked[q.name] BY <3>3, <3>4, <3>5
    <3>7. acked' = acked BY <3>2, <3>5, <3>6
    <3> QED BY <3>2, <3>3, <3>5, <3>7
  <2>2. CASE q.k # "create"
    <3>1. UNCHANGED <<known, acked>> BY <1>1, <1>2, <2>2 DEF ClientRead, Acknowledged
    <3> QED BY <3>1 DEF VInv, Globals
  <2> QED BY <2>1, <2>2
<1> QED BY <1>5, <1>7, <1>8, <1>9, ReadQuiet

\* The tag of an INSERT: the rows the connection owned are counted now.
LEMMA InsertReadKeeps ==
  ASSUME VInv, NEW c \in Clients, ClientRead(c), Asks(c, client[c], catalog, store),
         job[c].phase = "ready", toServer[c] = <<>>,
         NEW n, toClient[c] = InsertReply(n), InsertedWith(client[c], n, catalog)
  PROVE  VInv'
<1>1. PICK q, out, a : q = client[c].query /\ out = toClient[c] /\ a = AnswerOf(<<>>, "INSERT", n, "") OBVIOUS
<1>2. n \in Nat /\ q.k = "insert" /\ q.name \in catalog /\ q.name \in CollectionNames BY <1>1 DEF InsertedWith
<1>3. PICK x, z : x = Complete("INSERT", n) /\ z = [k |-> "ready"] OBVIOUS
<1>4. out = <<x, z>> BY <1>1, <1>3 DEF InsertReply
<1>5. client[c].phase = "waiting" /\ client[c].answer = NoAnswer BY DEF Asks, Promised
<1>6. AnswerRead(NoAnswer, out) = a
  <2>1. AnswerRead(NoAnswer, <<x, z>>) = Collect(Collect(NoAnswer, x), z) BY ShortRead
  <2>2. NoAnswer = AnswerOf(<<>>, "", 0, "") BY DEF NoAnswer, AnswerOf
  <2>3. Collect(AnswerOf(<<>>, "", 0, ""), x) = a
    <3>1. x = Complete("INSERT", n) BY <1>3
    <3>2. Collect(AnswerOf(<<>>, "", 0, ""), x) = AnswerOf(<<>>, "INSERT", n, "") BY <3>1 DEF Collect, AnswerOf, Complete
    <3> QED BY <1>1, <3>2
  <2>4. Collect(a, z) = a BY <1>3, CollectNothing
  <2> QED BY <1>4, <2>1, <2>2, <2>3, <2>4
<1>7. out[Len(out)].k = "ready" /\ out # <<>> /\ out[1].k = "complete" /\ out[1].n = n
  <2>1. out[Len(out)] = z BY <1>4, EndsReady
  <2>2. out[1] = x /\ out # <<>> BY <1>4
  <2>3. z.k = "ready" BY <1>3
  <2>4. x.k = "complete" /\ x.n = n BY <1>3 DEF Complete
  <2> QED BY <2>1, <2>2, <2>3, <2>4
<1>8. HasRead(c, a) BY <1>1, <1>5, <1>6, <1>7, ReadsAll
<1>9. a.n = n /\ a.error = "" /\ a.tag = "INSERT" BY <1>1 DEF AnswerOf
<1>10. Good(client'[c]) BY <1>1, <1>2, <1>8 DEF Good, SelectsAll, HasRead
<1>11. Here(c)' /\ Held(c)' = 0 BY <1>8, <1>10, ReadHere
<1>12. Held(c) = n BY <1>1, <1>2, <1>5, <1>7 DEF Held, HeldBy
<1>13. known' = known \cup {q.name} /\ acked' = [acked EXCEPT ![q.name] = @ + n]
  <2>1. Acknowledged(q, a) BY <1>2, <1>9 DEF Acknowledged
  <2> QED BY <1>1, <1>5, <1>6, <1>9, <2>1 DEF ClientRead
<1>14. acked \in [CollectionNames -> Nat] /\ known \subseteq catalog /\ catalog \subseteq CollectionNames /\ store \in Stores
  BY DEF VInv, Globals
<1>15. PICK m : m = acked[q.name] + n OBVIOUS
<1>16. m \in Nat BY <1>2, <1>14, <1>15
<1>17. acked' = [acked EXCEPT ![q.name] = m] BY <1>13, <1>15
<1>18. /\ acked' \in [CollectionNames -> Nat] /\ acked'[q.name] = m
       /\ \A d \in CollectionNames : d # q.name => acked'[d] = acked[d]
  BY <1>2, <1>14, <1>16, <1>17
<1>19. Only(c) /\ catalog' = catalog /\ store' = store BY <1>8 DEF HasRead
<1>20. store' \in Stores /\ Extends(store, store') BY <1>14, <1>19, SameStore
<1>21. Connections' BY <1>11, <1>19, <1>20, OthersKept
<1>22. known' \subseteq catalog' BY <1>2, <1>13, <1>14, <1>19
<1>23. Globals' BY <1>14, <1>18, <1>19, <1>22 DEF Globals, Only
<1>24. PICK W : Owns(W) /\ Pays(W) BY DEF VInv, Ledger
<1>25. PICK V : Takes(W, V, c, {}) BY DEF Takes
<1>26. Owns(V)' BY <1>11, <1>19, <1>20, <1>24, <1>25, OwnsMore, FS_EmptySet
<1>27. ASSUME NEW d \in CollectionNames PROVE acked'[d] <= Cardinality(Free(V, d)')
  <2>1. PICK A, B : A = Free(W, d) /\ B = Free(V, d)' OBVIOUS
  <2>2. A \subseteq B /\ A \subseteq DOMAIN store /\ B \subseteq DOMAIN store BY <1>19, <1>20, <1>24, <1>25, <2>1, StillFree
  <2>3. IsFiniteSet(A) /\ IsFiniteSet(B) BY <1>14, <2>2, StoreFinite
  <2>4. PICK s, t : s = Cardinality(A) /\ t = Cardinality(B) OBVIOUS
  <2>5. s \in Nat /\ t \in Nat /\ s <= t BY <2>2, <2>3, <2>4, FS_Subset, FS_CardinalityType
  <2>6. acked[d] \in Nat /\ acked[d] <= s BY <1>14, <1>24, <2>1, <2>4 DEF Pays
  <2>7. CASE d # q.name
    <3>1. acked'[d] = acked[d] BY <1>18, <2>7
    <3>2. acked[d] <= t BY <2>5, <2>6
    <3> QED BY <2>1, <2>4, <3>1, <3>2
  <2>8. CASE d = q.name
    <3>1. PICK C : C = W[c] OBVIOUS
    <3>2. /\ C \subseteq DOMAIN store /\ Cardinality(C) = n /\ \A i \in C : store[i].coll = d
          /\ \A e \in Clients : e # c => W[e] \cap C = {}
      BY <1>1, <1>12, <1>24, <2>8, <3>1 DEF Owns
    <3>3. IsFiniteSet(C) BY <1>14, <3>2, StoreFinite
    <3>4. A \cap C = {} BY <2>1, <3>1 DEF Free
    <3>5. C \subseteq B
      <4>1. V[c] = {} /\ \A e \in Clients : e # c => V[e] = W[e] BY <1>24, <1>25 DEF Takes, Owns
      <4>2. \A i \in C : \A e \in Clients : i \notin V[e] BY <3>2, <4>1
      <4> QED BY <1>19, <2>1, <3>2, <4>2 DEF Free
    <3>6. PICK u : u = Cardinality(A \cup C) OBVIOUS
    <3>7. IsFiniteSet(A \cup C) /\ u = s + n
      <4>1. IsFiniteSet(A \cup C) /\ u = s + n - Cardinality(A \cap C) BY <2>3, <2>4, <3>2, <3>3, <3>6, FS_Union
      <4>2. Cardinality(A \cap C) = 0 BY <3>4, FS_EmptySet
      <4> QED BY <1>2, <2>5, <4>1, <4>2
    <3>8. u <= t
      <4>1. A \cup C \subseteq B BY <2>2, <3>5
      <4> QED BY <2>3, <2>4, <3>6, <4>1, FS_Subset
    <3>9. m <= t BY <1>2, <1>15, <1>16, <2>5, <2>6, <2>8, <3>7, <3>8
    <3>10. acked'[d] = m BY <1>18, <2>8
    <3> QED BY <2>1, <2>4, <3>9, <3>10
  <2> QED BY <2>7, <2>8
<1>28. Pays(V)' BY <1>27 DEF Pays
<1> QED BY <1>21, <1>23, <1>26, <1>28 DEF VInv, Ledger

LEMMA ClientReadKeeps ==
  ASSUME VInv, NEW c \in Clients, ClientRead(c)
  PROVE  VInv'
<1>1. PICK cl, j, in, out : cl = client[c] /\ j = job[c] /\ in = toServer[c] /\ out = toClient[c] OBVIOUS
<1>2. Conn(c, cl, j, in, out, catalog, store) BY <1>1 DEF VInv, Connections, Here
<1>3. out # <<>> BY <1>1 DEF ClientRead
<1>4. \/ Negotiating(cl, j, in, out) \/ Starting(cl, j, in, out)
      \/ Asks(c, cl, catalog, store) /\ Told(cl, j, in, out, catalog)
  BY <1>2, <1>3, ConnCases
<1>5. CASE Negotiating(cl, j, in, out) BY <1>1, <1>5, NegotiatedQuiet, QuietKeeps
<1>6. CASE Starting(cl, j, in, out) BY <1>1, <1>6, GreetedQuiet, QuietKeeps
<1>7. CASE Asks(c, cl, catalog, store) /\ Told(cl, j, in, out, catalog)
  <2>1. j.phase = "ready" /\ in = <<>> /\ Replied(cl, out, catalog) BY <1>7 DEF Told
  <2>2. CASE \E code : out = ErrorReply(code) /\ RefusedWith(cl, code)
    BY <1>1, <1>7, <2>1, <2>2, ErrorReadQuiet, QuietKeeps
  <2>3. CASE \E rows : out = RowsReply(rows) /\ ShownWith(cl, rows, catalog)
    BY <1>1, <1>7, <2>1, <2>3, RowsReadQuiet, QuietKeeps
  <2>4. CASE \E n : out = InsertReply(n) /\ InsertedWith(cl, n, catalog)
    BY <1>1, <1>7, <2>1, <2>4, InsertReadKeeps
  <2>5. CASE out = EmptyReply /\ cl.query.k \notin Kinds
    BY <1>1, <1>7, <2>1, <2>5, EmptyReadQuiet, QuietKeeps
  <2> QED BY <2>1, <2>2, <2>3, <2>4, <2>5 DEF Replied
<1> QED BY <1>4, <1>5, <1>6, <1>7

-----------------------------------------------------------------------------
(* The whole server. *)

\* Connections as they are at the start, whatever the catalog and the rows.
Fresh(cls, js, ins, outs) ==
  /\ cls = [c \in Clients |-> NewClient] /\ js = [c \in Clients |-> NoJob]
  /\ ins = [c \in Clients |-> <<>>] /\ outs = [c \in Clients |-> <<>>]

LEMMA FreshHere ==
  ASSUME NEW cls, NEW js, NEW ins, NEW outs, Fresh(cls, js, ins, outs), NEW c \in Clients, NEW cat, NEW st
  PROVE  /\ Conn(c, cls[c], js[c], ins[c], outs[c], cat, st)
         /\ HeldBy(cls[c], js[c], outs[c]) = 0
         /\ DOMAIN cls = Clients /\ DOMAIN js = Clients /\ DOMAIN ins = Clients /\ DOMAIN outs = Clients
<1>1. cls[c] = NewClient /\ js[c] = NoJob /\ ins[c] = <<>> /\ outs[c] = <<>> BY DEF Fresh
<1>2. Conn(c, NewClient, NoJob, <<>>, <<>>, cat, st) BY FreshOff DEF Conn
<1>3. HeldBy(NewClient, NoJob, <<>>) = 0 BY NoJobIs, HeldNone
<1>4. DOMAIN cls = Clients /\ DOMAIN js = Clients /\ DOMAIN ins = Clients /\ DOMAIN outs = Clients BY DEF Fresh
<1> QED BY <1>1, <1>2, <1>3, <1>4

LEMMA InitKeeps == ASSUME Language, ServerInit PROVE VInv
<1>1. Fresh(client, job, toServer, toClient) BY DEF ServerInit, Fresh
<1>2. Connections BY <1>1, FreshHere DEF Connections, Here
<1>3. /\ DOMAIN client = Clients /\ DOMAIN job = Clients /\ DOMAIN toServer = Clients /\ DOMAIN toClient = Clients
  BY <1>1 DEF Fresh
<1>4. store = <<>> /\ acked = [d \in CollectionNames |-> 0] /\ known = {} /\ catalog = DefaultCollections BY DEF ServerInit
<1>5. catalog \subseteq CollectionNames BY <1>4 DEF Language, LanguageOK
<1>6. Globals BY <1>3, <1>4, <1>5 DEF Globals, Stores
<1>7. PICK W : W = [c \in Clients |-> {}] OBVIOUS
<1>8. \A c \in Clients : Held(c) = 0 BY <1>1, FreshHere DEF Held
<1>9. Owns(W) BY <1>7, <1>8, FS_EmptySet DEF Owns
<1>10. Pays(W)
  <2> SUFFICES ASSUME NEW d \in CollectionNames PROVE acked[d] <= Cardinality(Free(W, d))
    BY DEF Pays
  <2>1. Free(W, d) = {} BY <1>4 DEF Free
  <2> QED BY <1>4, <2>1, FS_EmptySet
<1> QED BY <1>2, <1>6, <1>9, <1>10 DEF VInv, Ledger

\* A restart forgets the catalog and the connections; the rows stay.
LEMMA RestartKeeps == ASSUME VInv, Language, Restart PROVE VInv'
<1>1. Fresh(client', job', toServer', toClient') BY DEF Restart, Fresh
<1>2. Connections' BY <1>1, FreshHere DEF Connections, Here
<1>3. /\ DOMAIN client' = Clients /\ DOMAIN job' = Clients /\ DOMAIN toServer' = Clients /\ DOMAIN toClient' = Clients
  BY <1>1 DEF Fresh
<1>4. store' = store /\ acked' = acked /\ known' = {} /\ catalog' = DefaultCollections BY DEF Restart
<1>5. catalog' \subseteq CollectionNames BY <1>4 DEF Language, LanguageOK
<1>6. store \in Stores /\ acked \in [CollectionNames -> Nat] BY DEF VInv, Globals
<1>7. Globals' BY <1>3, <1>4, <1>5, <1>6 DEF Globals
<1>8. PICK V : V = [c \in Clients |-> {}] OBVIOUS
<1>9. \A c \in Clients : Held(c)' = 0 BY <1>1, FreshHere DEF Held
<1>10. Owns(V)' BY <1>8, <1>9, FS_EmptySet DEF Owns
<1>11. PICK W : Owns(W) /\ Pays(W) BY DEF VInv, Ledger
<1>12. Pays(V)'
  <2> SUFFICES ASSUME NEW d \in CollectionNames PROVE acked[d] <= Cardinality(Free(V, d)')
    BY <1>4 DEF Pays
  <2>1. PICK A, B : A = Free(W, d) /\ B = Free(V, d)' OBVIOUS
  <2>2. A \subseteq B /\ B \subseteq DOMAIN store BY <1>4, <1>8, <2>1 DEF Free
  <2>3. IsFiniteSet(B) BY <1>6, <2>2, StoreFinite
  <2>4. PICK s, t : s = Cardinality(A) /\ t = Cardinality(B) OBVIOUS
  <2>5. s \in Nat /\ t \in Nat /\ s <= t BY <2>2, <2>3, <2>4, FS_Subset, FS_CardinalityType
  <2>6. acked[d] \in Nat /\ acked[d] <= s BY <1>6, <1>11, <2>1, <2>4 DEF Pays
  <2> QED BY <2>1, <2>4, <2>5, <2>6
<1> QED BY <1>2, <1>7, <1>10, <1>12 DEF VInv, Ledger

LEMMA NextKeeps == ASSUME VInv, Language, [ServerNext]_serverVars PROVE VInv'
<1>1. CASE UNCHANGED serverVars
  BY <1>1 DEF serverVars, VInv, Globals, Connections, Here, Ledger, Owns, Pays, Free, Held
<1>2. CASE Restart BY <1>2, RestartKeeps
<1>3. ASSUME NEW c \in Clients, ServerStep(c) PROVE VInv'
  <2>1. CASE WriteRow(c) BY <2>1, WriteRowKeeps
  <2>2. CASE ~WriteRow(c)
    <3>1. Quiet(c)
      BY <1>3, <2>2, StartupQuiet, ReadMessageQuiet, DispatchQuiet, RegisterCreateQuiet, BindStepQuiet,
         RegisterInsertQuiet, RunPlanQuiet DEF ServerStep
    <3> QED BY <3>1, QuietKeeps
  <2> QED BY <2>1, <2>2
<1>4. ASSUME NEW c \in Clients, ClientStep(c) PROVE VInv'
  BY <1>4, ClientReadKeeps, ClientLostQuiet, QuietKeeps DEF ClientStep
<1>5. ASSUME NEW c \in Clients, UserStep(c) PROVE VInv'
  <2>1. Quiet(c) BY <1>5, ConnectQuiet, SendQueryQuiet, LeavingQuiet DEF UserStep
  <2> QED BY <2>1, QuietKeeps
<1>6. ASSUME NEW c \in Clients, WriteFails(c) PROVE VInv'
  BY <1>6, WriteFailsKeeps
<1> QED BY <1>1, <1>2, <1>3, <1>4, <1>5, <1>6 DEF ServerNext

LEMMA VInvVisible == ASSUME VInv PROVE InsertVisible
<1> SUFFICES ASSUME NEW c \in Clients, client[c].phase = "idle", SelectsAll(client[c].query)
             PROVE  \/ client[c].answer.error = "" /\ Len(client[c].answer.rows) >= client[c].must
                       /\ client[c].answer.n = Len(client[c].answer.rows)
                    \/ client[c].answer.error = "42P01" /\ ~client[c].sure
  BY DEF InsertVisible
<1>1. Conn(c, client[c], job[c], toServer[c], toClient[c], catalog, store) BY DEF VInv, Connections, Here
<1>2. Idle(client[c], job[c], toServer[c], toClient[c]) BY <1>1, ConnCases
<1> QED BY <1>2 DEF Idle, Good

-----------------------------------------------------------------------------

(* A client that has read the answer to its SELECT of a whole collection     *)
(* has at least the rows that the tags of earlier INSERTs counted, or the    *)
(* collection is unknown and was not registered since the last restart       *)
(* (execute registers a collection before it writes and answers).  The       *)
(* hypothesis is what LanguageOK asks of parser, binder and executor, for    *)
(* every store of records; TLC evaluates it on a small instance.             *)
THEOREM InsertVisibleHolds ==
  ASSUME LanguageOK(Nat, Records, Seq(Records))
  PROVE  HandlerSpec => []InsertVisible
<1>1. Language BY DEF Language, Stores
<1>2. ServerInit => VInv BY <1>1, InitKeeps
<1>3. VInv /\ [ServerNext]_serverVars => VInv' BY <1>1, NextKeeps
<1>4. VInv => InsertVisible BY VInvVisible
<1> QED BY <1>2, <1>3, <1>4, PTL DEF HandlerSpec
===============================================================================
