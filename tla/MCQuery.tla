------------------------------- MODULE MCQuery -------------------------------
(***************************************************************************)
(* Small instances of the query side and of the structures of MCKnowledge. *)
(* A behaviour is about one part: a text or a plan, an extended session,   *)
(* clients and a server, or one of those structures.                       *)
(***************************************************************************)
EXTENDS Query, ExtendedSession, FunQLText, MCKnowledge

mcVars == <<serverVars, taskVars, sessionVars, knowledgeVars, part>>

MCIdents == {"a", "b", "t", "u", "m", "x", "y", "to", "of", "estimate", "effect", "causal", "model", "system",
             "valid", "time", "using", "learn", "weight", "half_life", "min_similarity", "_confidence", "count",
             "version", "_schema", "_collections"}
MCInts == {"0", "1", "2"}
MCFloats == {"0.5"}
MCStrings == {"'s'", "'t'", "'u'"}
MCParams == {":p"}
MCValueOf == "0" :> 0 @@ "1" :> 10 @@ "2" :> 20 @@ "0.5" :> 5 @@ "'s'" :> 1 @@ "'t'" :> 2 @@ "'u'" :> 3
MCSpells == "'t'" :> <<"t">> @@ "'u'" :> <<"u">>

-----------------------------------------------------------------------------
(* Trees. *)

Id(n) == [NamedNode EXCEPT !.n = n]
Num(v) == [k |-> "int", v |-> v]
Str(v) == [k |-> "string", v |-> v]
Two(op, l, r) == [InfixNode(l) EXCEPT !.op = op, !.r = r]
Leaves == {Id("a"), Num("1")}
Operators == {"Or", "And", "Eq", "Lt", "Add", "Sub", "Mul", "Div", "Arrow"}
Over(S, T) ==
  {Two(op, l, r) : op \in Operators, l \in S, r \in T}
  \cup {[InfixNode(l) EXCEPT !.k = "between", !.r = r, !.hi = Num("2")] : l \in S, r \in T}
Around(S) ==
  {[k |-> "not", l |-> e] : e \in S} \cup {[k |-> "neg", l |-> e] : e \in S}
  \cup {[InfixNode(e) EXCEPT !.k = "isnull"] : e \in S}
  \cup {[InfixNode(e) EXCEPT !.k = "in", !.list = <<Num("1"), e>>] : e \in S}
Shallow == Leaves \cup Over(Leaves, Leaves) \cup Around(Leaves)
Exprs == Shallow \cup Over(Shallow, Leaves) \cup Over(Leaves, Shallow) \cup Around(Shallow)

Table(n) == [k |-> "table", name |-> <<n>>, alias |-> "", agent |-> FALSE]
From(n) == [SelectNode EXCEPT !.items = <<Wild>>, !.from = Table(n)]
Call(n, args) == [NamedNode EXCEPT !.k = "call", !.n = n, !.args = args]
Item(e, alias) == [k |-> "item", e |-> e, alias |-> alias]
Order(e, asc) == [k |-> "order", e |-> e, asc |-> asc]
Vector == [NamedNode EXCEPT !.k = "vdist", !.f = "b", !.args = <<[k |-> "array", list |-> <<Num("1"), Num("2")>>]>>]

\* One value for every clause, and SELECTs with every three of them.
Filled ==
  [joins |-> <<[k |-> "join", type |-> "Left", table |-> Table("u"), on |-> Two("Eq", Id("a"), Id("b"))]>>,
   traverse |-> [TraverseNode EXCEPT !.chain = <<"x", "y">>, !.min = Num("1"), !.max = Num("2")],
   trace |-> [TraceNode EXCEPT !.from = Id("x"), !.to = Id("y"), !.maxDepth = Num("2")],
   where |-> Two("Or", Two("And", Two("Lt", Vector, Num("1")), Id("a")), Id("b")),
   recall |-> <<[k |-> "similarity", e |-> Str("'s'"), w |-> Num("1")],
                [k |-> "recency", decay |-> "x", half |-> "", w |-> NoExpr]>>,
   groupBy |-> <<Id("a"), Id("b")>>,
   having |-> Two("Lt", Call("count", <<[k |-> "star", v |-> "*"]>>), Num("2")),
   orderBy |-> <<Order(Id("a"), FALSE), Order(Id("b"), TRUE)>>,
   limit |-> Num("1"), offset |-> Num("2"),
   within |-> [k |-> "within", maxTokens |-> Num("2"), coherence |-> Num("1"), diversity |-> NoExpr,
               contradictions |-> "TRUE", priority |-> <<Order(Id("a"), FALSE)>>],
   asOf |-> [k |-> "validBetween", lo |-> Num("0"), hi |-> Num("1")],
   ret |-> <<Item(Id("a"), "b"), Wild>>]
Selects ==
  {[f \in DOMAIN SelectNode |-> IF f \in S THEN Filled[f] ELSE From("t")[f]] :
     S \in {S \in SUBSET DOMAIN Filled : Cardinality(S) <= 3}}
  \cup {[From("t") EXCEPT !.asOf = [k |-> "system", lo |-> Num("1"), hi |-> NoExpr], !.limit = Num("1")],
        [From("t") EXCEPT !.from = NoExpr, !.traverse = [TraverseNode EXCEPT !.chain = <<"x", "y">>],
                          !.where = Id("a"), !.limit = Num("1")],
        [From("t") EXCEPT !.from = NoExpr, !.traverse = [TraverseNode EXCEPT !.chain = <<"x">>, !.alias = "b"]],
        [From("t") EXCEPT !.where = [k |-> "subquery", q |-> From("u")]],
        [From("t") EXCEPT !.items = <<Item([k |-> "case", l |-> NoExpr,
             whens |-> <<[k |-> "when", l |-> Id("a"), r |-> Num("1")]>>, r |-> Num("2")], "x")>>]}

Distinct == {[From("t") EXCEPT !.distinct = TRUE, !.items = <<Item(e, "")>>] : e \in Exprs}

PairOf(n, e) == [k |-> "pair", n |-> n, e |-> e]
OptionOf(kind) == [k |-> kind, words |-> <<>>, n |-> "", e |-> NoExpr]
Estimate == [EstimateNode EXCEPT !.model = <<"m">>, !.set = <<PairOf("x", Num("1"))>>, !.predict = "y"]
What == [CounterfactualNode EXCEPT !.model = <<"m">>, !.had = <<PairOf("x", Num("1"))>>, !.predict = "y"]
Others ==
  {[k |-> "insert", name |-> <<"t">>, columns |-> <<"a", "b">>, rows |-> <<<<Num("1"), Id("b")>>, <<Num("2"), Vector>>>>],
   [k |-> "update", name |-> <<"t">>, alias |-> "x", set |-> <<PairOf("a", Num("1")), PairOf("b", Id("a"))>>, where |-> Id("a")],
   [k |-> "delete", name |-> <<"t", "u">>, where |-> Two("Eq", Id("a"), Num("1"))],
   [k |-> "create", name |-> <<"t">>, columns |-> <<[k |-> "column", n |-> "a", type |-> "x", nullable |-> FALSE],
                                                    [k |-> "column", n |-> "b", type |-> "y", nullable |-> TRUE]>>],
   [k |-> "index", n |-> "x", table |-> "t", columns |-> <<"a", "b">>],
   [k |-> "model", n |-> "m", mode |-> "Equilibrium", vars |-> <<[k |-> "var", n |-> "x", type |-> "a"], [k |-> "var", n |-> "y", type |-> "b"]>>,
    edges |-> <<[k |-> "edge", n |-> "x", to |-> "y"]>>,
    equations |-> <<[k |-> "equation", n |-> "y", e |-> Two("Add", Id("x"), Num("1")), learn |-> "t"]>>],
   [k |-> "understand", v |-> "'s'",
    opts |-> <<[OptionOf("minSimilarity") EXCEPT !.e = Num("1")], [OptionOf("within") EXCEPT !.words = <<"x", "1">>],
               [OptionOf("collection") EXCEPT !.n = "t"], [OptionOf("vector") EXCEPT !.n = "b"],
               [OptionOf("depth") EXCEPT !.e = Num("2")]>>],
   [k |-> "remember", v |-> "'s'", agent |-> Str("'t'"), importance |-> Num("1"), type |-> "x"],
   [k |-> "recall", weights |-> <<[k |-> "similarity", e |-> Str("'s'"), w |-> NoExpr], [k |-> "importance", w |-> Num("1")]>>,
    agent |-> Str("'t'"), limit |-> Num("2")],
   [k |-> "forget", agent |-> Str("'t'"), where |-> Two("Lt", Id("a"), Num("1"))],
   [k |-> "discover", name |-> <<"t">>, algorithm |-> "x", minConfidence |-> Num("1"), store |-> "m", vars |-> <<"x", "y">>],
   [TraceNode EXCEPT !.from = Id("x"), !.to = Id("y"), !.maxDepth = Num("2"), !.ret = <<Item(Id("a"), "")>>],
   Estimate, What, [What EXCEPT !.items = <<Item(Id("a"), "")>>],
   [What EXCEPT !.given = [k |-> "pairs", n |-> "a", e |-> Num("1"), list |-> <<PairOf("b", Num("2"))>>]],
   [What EXCEPT !.given = [k |-> "sub", n |-> "a", list |-> <<>>, q |-> From("t")]],
   [What EXCEPT !.model = <<>>, !.predict = "", !.given = [k |-> "sub", q |-> From("t")]]}
MCTexts == {[tree |-> x[1], text |-> WholeText(x[1], x[2])] :
              x \in (Distinct \X {FALSE}) \cup ((Selects \cup Others) \X BOOLEAN)}

-----------------------------------------------------------------------------
(* Plans: every stack of at most three operators over a scan. *)

A == Col(<<"a">>)
True1 == Lit("bool", "TRUE")
Above1 == Bin("Gt", A, Lit("int", "1"))
Conditions == {Above1, Bin("Or", Un("Not", Bin("Eq", A, Lit("int", "1"))), Lit("bool", "FALSE")),
               Bin("And", Bin("And", Above1, True1), Bin("Or", Lit("bool", "FALSE"), True1)),
               Bin("VectorDist", [Bound("vecref") EXCEPT !.v = "b"], Lit("vector", ""))}
OnTop(p) ==
  {Plan("Filter", <<p>>, <<e>>) : e \in Conditions}
  \cup {Plan("Project", <<p>>, es) : es \in {<<Star>>, <<A, Star>>}}
  \cup {Counted(Plan("Limit", <<p>>, <<>>), n) : n \in 1..2}
  \cup {[Plan("Sort", <<p>>, <<A>>) EXCEPT !.asc = <<asc>>] : asc \in BOOLEAN}
Stacks[n \in 0..3] ==
  IF n = 0 THEN {Named(Plan(op, <<>>, <<Star>>), <<"t">>) : op \in {"Scan", "VectorScan"}}
  ELSE Stacks[n - 1] \cup UNION {OnTop(p) : p \in Stacks[n - 1]}
MCPlans == Stacks[3]
Int10(v) == [t |-> "int", v |-> v]
MCSampleStore == <<[coll |-> <<"t">>, id |-> 1, conf |-> 10, data |-> <<"a">> :> Int10(10)],
                   [coll |-> <<"t">>, id |-> 2, conf |-> 10, data |-> <<"b">> :> Int10(10)],
                   [coll |-> <<"t">>, id |-> 3, conf |-> 5, data |-> <<"a">> :> Int10(20)],
                   [coll |-> <<"u">>, id |-> 4, conf |-> 5, data |-> <<"a">> :> Int10(20)],
                   [coll |-> <<"t">>, id |-> 5, conf |-> 5, data |-> <<"a">> :> Int10(0)]>>

-----------------------------------------------------------------------------
(* What the clients ask. *)

Raw(text) == [k |-> "raw", text |-> text \o <<"EOF">>]
InsertInto(n) == [k |-> "insert", name |-> <<n>>, columns |-> <<"a", "_confidence">>,
                  rows |-> <<<<Num("2"), Num("1")>>, <<Id("a"), [k |-> "float", v |-> "0.5"]>>, <<Num("1")>>>>]
Shared == {[k |-> "create", name |-> <<"t">>, columns |-> <<>>], InsertInto("t"), From("t")}
Asked ==
  {[From("t") EXCEPT !.where = Two("Lt", Num("0"), Id("a")), !.orderBy = <<Order(Id("a"), FALSE)>>, !.limit = Num("1")],
   [From("t") EXCEPT !.where = Two("And", Two("Gt", Id("_confidence"), [k |-> "float", v |-> "0.5"]), Two("Lt", Id("a"), Num("2"))),
                     !.orderBy = <<Order(Id("a"), TRUE)>>],
   [From("u") EXCEPT !.orderBy = <<Order(Id("a"), FALSE)>>],
   [Estimate EXCEPT !.set[1].e = Id("a")],
   Raw(<<>>), Raw(<<"SELECT">>), Raw(<<"SELECT", "1">>), Raw(<<"SELECT", "version", "(", ")">>),
   Raw(<<"SELECT", "a", "FROM", "_schema", "WHERE", "COLLECTION", "=", "'t'">>),
   Raw(<<"SELECT", "*", "FROM", "_collections">>)}
\* One client asks everything, the others write and read.
Asker == CHOOSE c \in Clients : TRUE
MCClientQueries == [c \in Clients |-> IF c = Asker THEN Shared \cup Asked ELSE Shared]
ByConfidence == {InsertInto("t"), [From("t") EXCEPT !.where = Two("Gt", Num("1"), Id("_confidence"))]}
ConfidenceQueries == [c \in Clients |-> ByConfidence]
MCTextOf == [q \in Shared \cup Asked \cup ByConfidence |-> IF q.k = "raw" THEN q.text ELSE WholeText(q, FALSE)]
NoSamples == {}
MCDefaults == {<<"u">>}
MCCollections == {<<"t">>, <<"u">>}

\* What the theorem about the server asks of the language, for stores of at
\* most two records.
MCRecords ==
  LET plans == {Bind(q, {}).plan : q \in {r \in UNION {ClientQueries[c] : c \in Clients} : r.k = "insert"}}
  IN UNION {{RowRecord(p.name, p.rows[i], id) : i \in DOMAIN p.rows} : p \in plans, id \in 1..2}
ASSUME MCLanguage == LanguageOK(1..2, MCRecords, BoundedSeq(MCRecords, 2))

-----------------------------------------------------------------------------

Parts == {"task", "session", "server", "dag", "graph", "hnsw", "cache", "memory", "context", "scm"}
InitFor(parts) ==
  /\ part \in parts
  /\ IF part = "task" THEN TaskInit ELSE task = NoTask /\ outcome = NoTask
  /\ SessionInit
  /\ ServerInit
  /\ KnowledgeInit
MCNext ==
  /\ UNCHANGED part
  /\ \/ part = "task" /\ (ParseText \/ OptimizePlan) /\ UNCHANGED <<serverVars, sessionVars, knowledgeVars>>
     \/ part = "session" /\ SessionNext /\ UNCHANGED <<serverVars, taskVars, knowledgeVars>>
     \/ part = "server" /\ ServerNext /\ UNCHANGED <<taskVars, sessionVars, knowledgeVars>>
     \/ KnowledgeNext /\ UNCHANGED <<serverVars, taskVars, sessionVars>>
MCSpec == InitFor(Parts) /\ [][MCNext]_mcVars /\ QueryFairness
ServerSpec == InitFor({"server"}) /\ [][MCNext]_mcVars /\ QueryFairness
=============================================================================
