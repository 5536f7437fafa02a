------------------------------ MODULE FunQLText ------------------------------
(***************************************************************************)
(* How a FunQL tree is written, independently of the parser: the reference *)
(* the parser is checked against.  An expression is written with the       *)
(* fewest parentheses the precedences of FunQL allow, the clauses of a     *)
(* SELECT in the order asked for.                                          *)
(***************************************************************************)
EXTENDS FunQL

Symbol == [Or |-> "OR", And |-> "AND", Eq |-> "=", NotEq |-> "!=", Lt |-> "<", LtEq |-> "<=",
           Gt |-> ">", GtEq |-> ">=", Like |-> "LIKE", Add |-> "+", Sub |-> "-", Mul |-> "*",
           Div |-> "/", Mod |-> "%", Arrow |-> "<->"]

\* How tightly the outermost operator of an expression binds.
Level(e) ==
  CASE e.k = "bin" /\ e.op = "Or" -> 1
    [] e.k = "bin" /\ e.op = "And" -> 2
    [] e.k = "not" -> 3
    [] e.k = "bin" /\ e.op \in {"Add", "Sub"} -> 5
    [] e.k = "bin" /\ e.op \in {"Mul", "Div", "Mod"} -> 6
    [] e.k = "bin" /\ e.op = "Arrow" -> 7
    [] e.k \in {"bin", "in", "between", "isnull", "isnotnull"} -> 4
    [] e.k = "neg" -> 8
    [] OTHER -> 9

\* What the operands of an operator must at least bind like: a chain of equal
\* operators is read from the left, comparisons and <-> do not chain.
LeftLevel(e) == CASE Level(e) = 4 -> 5 [] Level(e) = 7 -> 8 [] OTHER -> Level(e)
RightLevel(e) == IF Level(e) = 7 THEN 8 ELSE Level(e) + 1

RECURSIVE Written(_, _), SelectText(_, _)

Text(e) == Written(e, FALSE)
Within(e, level) == IF Level(e) >= level THEN Text(e) ELSE <<"(">> \o Text(e) \o <<")">>
Separated(texts, sep) ==
  FoldLeft(LAMBDA acc, t : IF acc = <<>> THEN t ELSE acc \o <<sep>> \o t, <<>>, texts)
List(es) == Separated([i \in DOMAIN es |-> Text(es[i])], ",")
Optional(e, kw) == IF e.k = "none" THEN <<>> ELSE kw \o Text(e)
Word(s, kw) == IF s = "" THEN <<>> ELSE kw \o <<s>>
Dotted(name) == Separated([i \in DOMAIN name |-> <<name[i]>>], ".")

\* The clauses that follow FROM, each with its own text; <<>> where there is none.
Clauses(s) ==
  <<FlattenSeq([i \in DOMAIN s.joins |-> Text(s.joins[i])]),
    IF s.traverse.k = "none" \/ s.traverse.alias # "" THEN <<>> ELSE Text(s.traverse),
    Optional(s.trace, <<>>), Optional(s.where, <<"WHERE">>),
    IF s.recall = <<>> THEN <<>>
    ELSE <<"RECALL", "BY">> \o Separated([i \in DOMAIN s.recall |-> Text(s.recall[i])], "+"),
    IF s.groupBy = <<>> THEN <<>> ELSE <<"GROUP", "BY">> \o List(s.groupBy),
    Optional(s.having, <<"HAVING">>),
    IF s.orderBy = <<>> THEN <<>> ELSE <<"ORDER", "BY">> \o List(s.orderBy),
    Optional(s.limit, <<"LIMIT">>), Optional(s.offset, <<"OFFSET">>),
    Optional(s.within, <<>>), Optional(s.asOf, <<>>),
    IF s.ret = <<>> THEN <<>> ELSE <<"RETURN">> \o List(s.ret)>>

\* back: the clauses in the opposite order.
SelectText(s, back) ==
  <<"SELECT">> \o (IF s.distinct THEN <<"DISTINCT">> ELSE <<>>) \o List(s.items)
  \o (IF s.traverse.k # "none" /\ s.traverse.alias # ""
      THEN <<"FROM">> \o Text([s.traverse EXCEPT !.alias = ""]) \o <<"AS", s.traverse.alias>>
      ELSE Optional(s.from, <<"FROM">>))
  \o FlattenSeq(IF back THEN Reverse(Clauses(s)) ELSE Clauses(s))

Rows(rows) == Separated([i \in DOMAIN rows |-> <<"(">> \o List(rows[i]) \o <<")">>], ",")
NameList(names) == <<"(">> \o Separated([i \in DOMAIN names |-> <<names[i]>>], ",") \o <<")">>
Pairs(ps) == Separated([i \in DOMAIN ps |-> Text(ps[i])], ",")
FromItems(t, text) == IF t.items = <<Wild>> THEN text ELSE <<"SELECT">> \o List(t.items) \o <<"FROM">> \o text
Section3(word, parts) == IF parts = <<>> THEN <<>> ELSE <<word, ":">> \o Separated(parts, ",")

OptionText(o) ==
  CASE o.k = "confidence" -> <<"WITH">> \o Text(o.e)
    [] o.k = "minSimilarity" -> <<"WITH", "min_similarity">> \o Text(o.e)
    [] o.k = "within" -> <<"WITHIN">> \o o.words
    [] o.k = "depth" -> <<"DEPTH">> \o Text(o.e)
    [] o.k = "collection" -> <<"IN", "COLLECTION", o.n>>
    [] o.k = "vector" -> <<"using", "VECTOR", o.n>>

GivenText(g) ==
  CASE g.k = "none" -> <<>>
    [] g.k = "sub" -> <<"GIVEN", g.n, "=", "(">> \o SelectText(g.q, FALSE) \o <<")">>
    [] g.k = "pairs" -> <<"GIVEN", g.n, "=">> \o Text(g.e)
                        \o FlattenSeq([i \in DOMAIN g.list |-> <<",">> \o Text(g.list[i])])

\* The text of an expression, an item, a part of a clause or a statement; alt:
\* a statement is written the other way FunQL allows, where there is one.
Written(e, alt) ==
  CASE e.k \in {"int", "float", "string", "bool", "null", "param", "star"} -> <<e.v>>
    [] e.k = "wild" -> <<"*">>
    [] e.k = "item" -> Text(e.e) \o Word(e.alias, <<"AS">>)
    [] e.k = "table" -> (IF e.agent THEN <<"AGENT", "MEMORY">> ELSE <<>>) \o Dotted(e.name)
                        \o Word(e.alias, <<>>)
    [] e.k = "join" -> (CASE e.type = "Inner" -> <<"JOIN">> [] e.type = "Left" -> <<"LEFT", "JOIN">>
                          [] e.type = "Right" -> <<"RIGHT", "OUTER", "JOIN">>
                          [] e.type = "Cross" -> <<"CROSS", "JOIN">> [] e.type = "Full" -> <<"OUTER", "JOIN">>)
                       \o Text(e.table) \o Optional(e.on, <<"ON">>)
    [] e.k = "order" -> Text(e.e) \o (IF e.asc THEN <<>> ELSE <<"DESC">>)
    [] e.k = "ident" -> <<e.n>>
    [] e.k = "qualified" -> <<e.n, ".", e.f>>
    [] e.k = "call" -> Dotted(IF e.f = "" THEN <<e.n>> ELSE <<e.n, e.f>>) \o <<"(">> \o List(e.args) \o <<")">>
    [] e.k = "vref" -> <<"VECTOR", "(", e.f, ")">>
    [] e.k = "vdist" -> (IF e.f = "_default" THEN <<"VECTOR">> ELSE <<"VECTOR", "(", e.f, ")">>)
                        \o <<"<->">> \o Within(e.args[1], 9)
    [] e.k = "array" -> <<"[">> \o List(e.list) \o <<"]">>
    [] e.k = "subquery" -> <<"(">> \o SelectText(e.q, FALSE) \o <<")">>
    [] e.k = "case" -> <<"CASE">> \o Optional(e.l, <<>>)
                       \o FlattenSeq([i \in DOMAIN e.whens |->
                            <<"WHEN">> \o Text(e.whens[i].l) \o <<"THEN">> \o Text(e.whens[i].r)])
                       \o Optional(e.r, <<"ELSE">>) \o <<"END">>
    [] e.k = "neg" -> <<"-">> \o Within(e.l, 9)
    [] e.k = "not" -> <<"NOT">> \o Within(e.l, 3)
    [] e.k = "isnull" -> Within(e.l, 5) \o <<"IS", "NULL">>
    [] e.k = "isnotnull" -> Within(e.l, 5) \o <<"IS", "NOT", "NULL">>
    [] e.k = "in" -> Within(e.l, 5) \o <<"IN", "(">> \o List(e.list) \o <<")">>
    [] e.k = "between" -> Within(e.l, 5) \o <<"BETWEEN">> \o Within(e.r, 5) \o <<"AND">> \o Within(e.hi, 5)
    [] e.k = "bin" -> Within(e.l, LeftLevel(e))
                      \o (IF e.op = "NotLike" THEN <<"NOT", "LIKE">> ELSE <<Symbol[e.op]>>)
                      \o Within(e.r, RightLevel(e))
    [] e.k = "traverse" ->
         <<"TRAVERSE", e.chain[1]>>
         \o (IF e.min.k = "none" THEN <<>>
             ELSE <<"(">> \o Text(e.min) \o (IF e.max = e.min THEN <<>> ELSE <<"..">> \o Text(e.max)) \o <<")">>)
         \o FlattenSeq([i \in 1..(Len(e.chain) - 1) |-> <<"->", e.chain[i + 1]>>])
    [] e.k = "trace" ->
         <<"TRACE", "CAUSALITY">> \o Optional(e.from, <<"FROM">>) \o Optional(e.to, <<"to">>)
         \o Optional(e.maxDepth, <<"MAX_DEPTH">>) \o Optional(e.minStrength, <<"MIN_STRENGTH">>)
         \o Optional(e.minStability, <<"MIN_STABILITY">>)
         \o (IF e.ret = <<>> THEN <<>> ELSE <<"RETURN">> \o List(e.ret))
    [] e.k = "within" ->
         <<"WITHIN", "CONTEXT", "(">> \o Optional(e.maxTokens, <<"MAX_TOKENS", ":">>)
         \o Optional(e.coherence, <<",", "COHERENCE", ":">>) \o Optional(e.diversity, <<",", "DIVERSITY", ":">>)
         \o Word(e.contradictions, <<",", "INCLUDE_CONTRADICTIONS", ":">>)
         \o (IF e.priority = <<>> THEN <<>> ELSE <<",", "PRIORITY", ":", "[">> \o List(e.priority) \o <<"]">>) \o <<")">>
    [] e.k = "system" -> <<"AS", "of", "system", "time">> \o Text(e.lo)
    [] e.k = "validAt" -> <<"AS_OF", "VALIDTIME">> \o Text(e.lo)
    [] e.k = "validBetween" -> <<"AS_OF", "VALIDTIME", "BETWEEN">> \o Text(e.lo) \o <<"AND">> \o Text(e.hi)
    [] e.k = "similarity" -> <<"SEMANTIC_SIMILARITY", "(">> \o Text(e.e) \o Optional(e.w, <<",", "weight", ":">>) \o <<")">>
    [] e.k = "recency" -> <<"RECENCY", "(">> \o Word(e.decay, <<"DECAY", ":">>)
                          \o Word(e.half, <<",", "half_life", ":">>) \o Optional(e.w, <<",", "weight", ":">>) \o <<")">>
    [] e.k = "importance" -> <<"IMPORTANCE", "(">> \o Optional(e.w, <<"weight", ":">>) \o <<")">>
    [] e.k = "pair" -> <<e.n, "=">> \o Text(e.e)
    [] e.k = "select" ->
         IF e.from.k = "none" /\ e.traverse.k # "none" /\ e.traverse.alias = "" /\ e.items = <<Wild>>
         THEN Text(e.traverse) \o Optional(e.where, <<"WHERE">>) \o Optional(e.limit, <<"LIMIT">>)
         ELSE SelectText(e, alt)
    [] e.k = "insert" -> <<"INSERT", "INTO">> \o Dotted(e.name)
                         \o (IF e.columns = <<>> THEN <<>> ELSE NameList(e.columns)) \o <<"VALUES">> \o Rows(e.rows)
    [] e.k = "update" -> <<"UPDATE">> \o Dotted(e.name) \o Word(e.alias, <<"AS">>) \o <<"SET">> \o Pairs(e.set)
                         \o Optional(e.where, <<"WHERE">>)
    [] e.k = "delete" -> <<"DELETE", "FROM">> \o Dotted(e.name) \o Optional(e.where, <<"WHERE">>)
    [] e.k = "create" ->
         <<"CREATE", IF alt THEN "TABLE" ELSE "COLLECTION">> \o Dotted(e.name)
         \o (IF e.columns = <<>> THEN <<>>
             ELSE <<"(">> \o Separated([i \in DOMAIN e.columns |-> <<e.columns[i].n, e.columns[i].type>>
                     \o (IF e.columns[i].nullable THEN <<>> ELSE <<"NOT", "NULL">>)], ",") \o <<")">>)
    [] e.k = "index" -> <<"CREATE", "INDEX", e.n, "ON", e.table>> \o NameList(e.columns)
    [] e.k = "model" ->
         <<"CREATE", "causal", "model", e.n>> \o (IF e.mode = "Standard" THEN <<>> ELSE <<"EQUILIBRIUM">>)
         \o <<"AS", "(">>
         \o Section3("VARIABLES", [i \in DOMAIN e.vars |-> <<e.vars[i].n, e.vars[i].type>>])
         \o Section3("STRUCTURE", [i \in DOMAIN e.edges |-> <<e.edges[i].n, "->", e.edges[i].to>>])
         \o Section3("EQUATIONS", [i \in DOMAIN e.equations |->
              <<e.equations[i].n, "=">> \o Within(e.equations[i].e, 9)
              \o Word(e.equations[i].learn, <<"learn", "FROM">>)]) \o <<")">>
    [] e.k = "understand" ->
         <<"UNDERSTAND", e.v>> \o FlattenSeq([i \in DOMAIN e.opts |-> OptionText(e.opts[i])])
    [] e.k = "remember" -> <<"REMEMBER", e.v, "FOR", "AGENT">> \o Text(e.agent)
                           \o Optional(e.importance, IF alt THEN <<"WITH", "_confidence", "=">> ELSE <<"WITH", "IMPORTANCE">>)
                           \o Word(e.type, <<"AS">>)
    [] e.k = "recall" -> <<"RECALL", "BY">> \o Separated([i \in DOMAIN e.weights |-> Text(e.weights[i])], "+")
                         \o (IF alt THEN <<"WITHIN", "CONTEXT">> ELSE <<"FOR", "AGENT">>) \o Text(e.agent)
                         \o Optional(e.limit, <<"LIMIT">>)
    [] e.k = "forget" -> <<"FORGET", "FOR", "AGENT">> \o Text(e.agent) \o Optional(e.where, <<"WHERE">>)
    [] e.k = "discover" ->
         <<"DISCOVER", "causal", "STRUCTURE">>
         \o (IF alt THEN <<"FROM">> ELSE <<"IN", "COLLECTION">>) \o Dotted(e.name)
         \o (IF e.vars = <<>> THEN <<>> ELSE <<"VARIABLES">> \o Separated([i \in DOMAIN e.vars |-> <<e.vars[i]>>], ","))
         \o Word(e.algorithm, <<"ALGORITHM">>) \o Optional(e.minConfidence, <<"MIN_CONFIDENCE">>)
         \o Word(e.store, <<"STORE", "AS">>)
    [] e.k = "estimate" ->
         IF alt THEN <<"estimate", "effect", "of", e.set[1].n, "ON", e.predict>>
                     \o (IF e.model = <<>> THEN <<>> ELSE <<"FROM">> \o Dotted(e.model))
         ELSE FromItems(e, <<"INTERVENE", "ON">> \o e.model \o <<"SET">> \o Pairs(e.set) \o <<"PREDICT", e.predict>>)
    [] e.k = "counterfactual" ->
         IF e.model = <<>>
         THEN <<"COUNTERFACTUAL">> \o SelectText(e.given.q, FALSE) \o <<"INTERVENE", "SET">> \o Pairs(e.had)
         ELSE FromItems(e, <<"COUNTERFACTUAL", "ON">> \o e.model \o GivenText(e.given)
                           \o (IF e.had = <<>> THEN <<>> ELSE <<"HAD">> \o Pairs(e.had)) \o Word(e.predict, <<"PREDICT">>))

WholeText(t, alt) == Written(t, alt) \o (IF alt THEN <<";", "EOF">> ELSE <<"EOF">>)
=============================================================================
