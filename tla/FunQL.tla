-------------------------------- MODULE FunQL --------------------------------
(***************************************************************************)
(* The FunQL parser (crates/fundb-sql/src/parser.rs).                      *)
(*                                                                         *)
(* A text is a sequence of tokens ending in "EOF": keywords in upper case, *)
(* and the identifiers, literals and parameters the constants name.  The   *)
(* parser is a recursive descent without backtracking, so each of its      *)
(* functions is written here as a rule: data that says which tokens the    *)
(* function expects, eats or looks ahead at, and which field of the tree   *)
(* it fills.  Run, at the end, is the one interpreter of rules; it carries *)
(* the rest of the text, the last value read and the node being built.     *)
(* A word that the lexer makes a keyword is never an identifier, so the    *)
(* branches of the code that look for it as an identifier are left out.    *)
(***************************************************************************)
EXTENDS Naturals, Sequences, FiniteSets, SequencesExt, TLC

CONSTANTS Idents, Ints, Floats, Strings, Params

\* Keywords that may stand for an identifier, with the name they give.
KeywordAsIdent ==
  [ALGORITHM |-> "algorithm", STRUCTURE |-> "structure", EQUATIONS |-> "equations",
   CONFIDENCE |-> "confidence", DEPTH |-> "depth", PATH |-> "path",
   CAUSALITY |-> "causality", RECENCY |-> "recency", IMPORTANCE |-> "importance",
   MEMORY |-> "memory", AGENT |-> "agent", PRIORITY |-> "priority", COHERENCE |-> "coherence",
   DIVERSITY |-> "diversity", CONTEXT |-> "context", COLLECTION |-> "collection",
   START |-> "start", RETURN |-> "return", PREDICT |-> "predict", NOW |-> "now",
   INTERVAL |-> "interval", EXPLAIN |-> "explain", SET |-> "set", VALUE |-> "value",
   MIN_CONFIDENCE |-> "min_confidence", STORE |-> "store", DECAY |-> "decay",
   SEMANTIC_SIMILARITY |-> "semantic_similarity", CONSOLIDATE |-> "consolidate",
   INFER |-> "infer", STORE_AS |-> "store_as", VECTOR |-> "_vector",
   TRAVERSE |-> "traverse", TRACE |-> "trace", MAX_TOKENS |-> "max_tokens",
   INCLUDE_CONTRADICTIONS |-> "include_contradictions"]
  @@ "VARIABLES" :> "variables" @@ "WITH" :> "with"

Names == Idents \cup DOMAIN KeywordAsIdent
NameOf(t) == IF t \in Idents THEN t ELSE KeywordAsIdent[t]

NoExpr == [k |-> "none"]
Wild == [k |-> "wild"]

-----------------------------------------------------------------------------
(* The forms a rule can have. *)

Expect(t) == [op |-> "expect", t |-> t]           \* expect(t)
Eat(ts) == [op |-> "eat", ts |-> ts]              \* eat any one of ts
Advance == [op |-> "any"]                         \* advance
Name == [op |-> "name"]                           \* expect_ident
OneOf(ts) == [op |-> "oneof", ts |-> ts]          \* a token of ts, which is the value
Seq1(rs) == [op |-> "seq", rs |-> rs]             \* one rule after the other
Nop == Seq1(<<>>)
Rule(n) == [op |-> "rule", n |-> n]               \* a recursive call
Node(d, rs) == [op |-> "node", d |-> d, rs |-> rs]        \* a new node with defaults d
Set(f, r) == [op |-> "set", f |-> f, r |-> r]             \* node.f = value of r
Push(f, r) == [op |-> "push", f |-> f, r |-> r]           \* node.f.push(value of r)
Conj(f, r) == [op |-> "conj", f |-> f, r |-> r]           \* node.f = node.f AND value of r
Into(f, r) == [op |-> "into", f |-> f, r |-> r]           \* r fills node.f
Override(f, r, s) == [op |-> "override", f |-> f, r |-> r, s |-> s]  \* r, s, then node.f = r
Put(f, x) == [op |-> "put", f |-> f, x |-> x]             \* node.f = x
Copy(f, path) == [op |-> "copy", f |-> f, path |-> path]  \* node.f = node.path
Get(r, f) == [op |-> "get", r |-> r, f |-> f]             \* the value of r, its field f
Become(d) == [op |-> "become", d |-> d]                   \* another node with the same items
Need(f) == [op |-> "need", f |-> f]                       \* an error if node.f is missing
Case(alts) == [op |-> "case", alts |-> alts]      \* the first alternative that looks right
Loop(alts) == [op |-> "loop", alts |-> alts, r |-> Nop] \* alternatives until none looks right
Until(ts, r) == [op |-> "until", ts |-> ts, r |-> r]
More(sep, stop, r) == [op |-> "more", sep |-> sep, stop |-> stop, r |-> r]
ListOf(sep, stop, r) == [op |-> "list", sep |-> sep, stop |-> stop, r |-> r]
Infix(r, alts, rep) == [op |-> "infix", r |-> r, alts |-> alts, rep |-> rep]

\* Alternatives: what the next tokens (and a field of the node) must be.
Alt(ts, r) == [look |-> <<ts>>, has |-> {}, r |-> r]
Alt2(ts, us, r) == [look |-> <<ts, us>>, has |-> {}, r |-> r]
AltIf(f, ts, r) == [look |-> <<ts>>, has |-> {f}, r |-> r]
Else(r) == [look |-> <<>>, has |-> {}, r |-> r]
Key(t, r) == Alt({t}, Seq1(<<Expect(t), r>>))
Opt(alts) == Case(Append(alts, Else(Nop)))

-----------------------------------------------------------------------------
(* Expressions. *)

Expr == Rule("expr")
Primary == Rule("primary")
SelectInner == Rule("select")
StringOrName == Case(<<Alt(Strings, OneOf(Strings)), Else(Name)>>)

ExprList == ListOf(",", {}, Expr)
InList == Seq1(<<Put("k", "in"), Expect("("), Set("list", ExprList), Expect(")")>>)

\* _vector('f') <-> v, the bare _vector <-> v, and _vector('f') as a call.
VectorTail ==
  Case(<<Key("<->", Seq1(<<Put("k", "vdist"), Put("f", "_default"), Push("args", Primary)>>)),
         Else(Seq1(<<Expect("("), Set("f", StringOrName), Expect(")"),
                     Case(<<Key("<->", Seq1(<<Put("k", "vdist"), Push("args", Primary)>>)),
                            Else(Put("k", "vref"))>>)>>))>>)

\* Arguments up to the parenthesis; from the second on, one may be named.
CallArgs(rest) ==
  Seq1(<<Put("k", "call"),
         Case(<<Alt({")"}, Nop), Else(Seq1(<<Push("args", Expr), More(",", {")"}, rest)>>))>>),
         Expect(")")>>)
NamedArg == Case(<<Alt2(Idents, {":"}, Seq1(<<Name, Expect(":"), Push("args", Expr)>>)),
                   Else(Push("args", Expr))>>)

NamedNode == [k |-> "ident", n |-> "", f |-> "", args |-> <<>>]

\* An identifier, a call, or table.field, table.*, table.method(...).
NameExpr ==
  Node(NamedNode,
    <<Set("n", Name),
      Opt(<<Key("(", CallArgs(NamedArg)),
            Key(".", Case(<<Key("*", Seq1(<<Put("k", "qualified"), Put("f", "*")>>)),
                            Key("VECTOR", Seq1(<<Put("n", ""), VectorTail>>)),
                            Else(Seq1(<<Put("k", "qualified"), Set("f", Name),
                                        Opt(<<Key("(", CallArgs(Push("args", Expr)))>>)>>))>>))>>)>>)

Literal(kind, ts) == Alt(ts, Node([k |-> kind], <<Set("v", OneOf(ts))>>))
Quoted == Case(<<Literal("string", Strings)>>)
Subquery(rs) == Node([k |-> "subquery"], rs \o <<Expect("("), Set("q", SelectInner), Expect(")")>>)

CaseExpr ==
  Node([k |-> "case", l |-> NoExpr, whens |-> <<>>, r |-> NoExpr],
    <<Expect("CASE"), Case(<<Alt({"WHEN"}, Nop), Else(Set("l", Expr))>>),
      Loop(<<Key("WHEN", Push("whens",
               Node([k |-> "when"], <<Set("l", Expr), Expect("THEN"), Set("r", Expr)>>)))>>),
      Opt(<<Key("ELSE", Set("r", Expr))>>), Expect("END")>>)

ArrayExpr ==
  Node([k |-> "array", list |-> <<>>],
    <<Expect("["),
      Case(<<Alt({"]"}, Nop), Else(Set("list", ListOf(",", {"]"}, Expr)))>>), Expect("]")>>)

PrimaryExpr ==
  Case(<<Literal("int", Ints), Literal("float", Floats), Literal("string", Strings),
         Literal("bool", {"TRUE", "FALSE"}), Literal("null", {"NULL"}), Literal("param", Params),
         Literal("star", {"*"}),
         Key("VECTOR", Node(NamedNode, <<VectorTail>>)),
         Alt2({"("}, {"SELECT"}, Subquery(<<>>)),
         Key("(", Seq1(<<Expr, Expect(")")>>)),
         Alt({"["}, ArrayExpr),
         Alt({"EXISTS"}, Subquery(<<Expect("EXISTS")>>)),
         Alt({"CASE"}, CaseExpr),
         Key("INTERVAL",
             Node([NamedNode EXCEPT !.n = "interval"],
               <<Opt(<<Alt(Strings, Seq1(<<Put("k", "call"), Push("args", Quoted)>>))>>)>>)),
         Alt(Names, NameExpr)>>)

Op(t, op, r) == Key(t, Seq1(<<Put("op", op), Set("r", r)>>))

UnaryExpr == Case(<<Key("-", Node([k |-> "neg"], <<Set("l", Primary)>>)), Else(Primary)>>)
VectorDistExpr == Infix(UnaryExpr, <<Op("<->", "Arrow", UnaryExpr)>>, FALSE)
VectorDist == Rule("vectorDist")
MultiplicativeExpr ==
  Infix(VectorDist, <<Op("*", "Mul", VectorDist), Op("/", "Div", VectorDist), Op("%", "Mod", VectorDist)>>, TRUE)
Multiplicative == Rule("multiplicative")
\* Mutant: + and - group to the right.
AdditiveExprMutant ==
  Infix(Multiplicative, <<Op("+", "Add", Rule("additive")), Op("-", "Sub", Rule("additive"))>>, TRUE)
AdditiveExpr == Infix(Multiplicative, <<Op("+", "Add", Multiplicative), Op("-", "Sub", Multiplicative)>>, TRUE)

Additive == Rule("additive")
Comparison(t, op) == Op(t, op, Additive)
ComparisonExpr ==
  Infix(Additive,
    <<Comparison("=", "Eq"), Comparison("==", "Eq"), Comparison("!=", "NotEq"),
      Comparison("<", "Lt"), Comparison("<=", "LtEq"), Comparison(">", "Gt"),
      Comparison(">=", "GtEq"), Comparison("LIKE", "Like"),
      Key("NOT", Case(<<Comparison("LIKE", "NotLike"), Key("IN", InList)>>)),
      Key("IS", Seq1(<<Case(<<Key("NOT", Put("k", "isnotnull")), Else(Put("k", "isnull"))>>),
                       Expect("NULL")>>)),
      Key("IN", InList),
      Key("BETWEEN", Seq1(<<Put("k", "between"), Set("r", Additive), Expect("AND"),
                            Set("hi", Additive)>>))>>, FALSE)

NotExpr == Case(<<Key("NOT", Node([k |-> "not"], <<Set("l", Rule("not"))>>)),
                  Else(ComparisonExpr)>>)
AndExpr == Infix(Rule("not"), <<Op("AND", "And", Rule("not"))>>, TRUE)
OrExpr == Infix(Rule("and"), <<Op("OR", "Or", Rule("and"))>>, TRUE)

-----------------------------------------------------------------------------
(* SELECT and its clauses. *)

Alias == <<Key("AS", Set("alias", Name)), Alt(Idents, Set("alias", Name))>>
QualifiedName == Seq1(<<Push("name", Name), Opt(<<Key(".", Push("name", Name))>>)>>)

SelectItem ==
  Case(<<Alt({"*"}, Node(Wild, <<Expect("*")>>)),
         Else(Node([k |-> "item", alias |-> ""], <<Set("e", Expr), Opt(Alias)>>))>>)
ProjectionList == ListOf(",", {}, SelectItem)

\* A sub-select in FROM is parsed and dropped; AS followed by "of" is no alias.
TableRef ==
  Node([k |-> "table", name |-> <<>>, alias |-> "", agent |-> FALSE],
    <<Case(<<Key("AGENT", Seq1(<<Expect("MEMORY"), Push("name", Name), Put("agent", TRUE)>>)),
             Key("(", Seq1(<<SelectInner, Expect(")"), Put("name", <<"<subquery>">>),
                             Opt(Alias)>>)),
             Else(Seq1(<<QualifiedName, Opt(<<Alt2({"AS"}, {"of"}, Nop)>> \o Alias)>>))>>)>>)

JoinTokens == {"JOIN", "INNER", "LEFT", "RIGHT", "CROSS", "OUTER"}
JoinKind(t, kind, optional) ==
  Key(t, Seq1([i \in DOMAIN optional |-> Eat({optional[i]})] \o <<Put("type", kind)>>))
JoinClause ==
  Node([k |-> "join", type |-> "", on |-> NoExpr],
    <<Case(<<JoinKind("INNER", "Inner", <<"JOIN">>), JoinKind("LEFT", "Left", <<"OUTER", "JOIN">>),
             JoinKind("RIGHT", "Right", <<"OUTER", "JOIN">>), JoinKind("CROSS", "Cross", <<"JOIN">>),
             JoinKind("OUTER", "Full", <<"JOIN">>), JoinKind("JOIN", "Inner", <<>>)>>),
      Set("table", TableRef), Opt(<<Key("ON", Set("on", Expr))>>)>>)

OrderByItem ==
  Node([k |-> "order", asc |-> TRUE],
    <<Set("e", Expr), Case(<<Key("DESC", Put("asc", FALSE)), Else(Eat({"ASC"}))>>)>>)
OrderByList == ListOf(",", {"]"}, OrderByItem)
OrderBy(f) == Key("ORDER", Seq1(<<Expect("BY"), Set(f, OrderByList)>>))

TraverseNode == [k |-> "traverse", chain |-> <<>>, min |-> NoExpr, max |-> NoExpr, alias |-> ""]
Chain == Loop(<<Key("->", Push("chain", Name))>>)
TraverseClause ==
  Node(TraverseNode,
    <<Expect("TRAVERSE"), Push("chain", Name),
      Opt(<<Key("(", Seq1(<<
        Opt(<<Key("DEPTH", Eat({":"}))>>), Set("min", Primary),
        Case(<<Key("..", Set("max", Primary)), Else(Copy("max", <<"min">>))>>), Expect(")")>>))>>),
      Chain>>)
FromTraverse ==
  Node(TraverseNode, <<Push("chain", Name), Chain, Opt(<<Key("AS", Set("alias", Name))>>)>>)

TraceNode == [k |-> "trace", from |-> NoExpr, to |-> NoExpr, maxDepth |-> NoExpr,
              minStrength |-> NoExpr, minStability |-> NoExpr, ret |-> <<>>]
TraceLimits == <<Key("MAX_DEPTH", Set("maxDepth", Expr)), Key("MIN_STRENGTH", Set("minStrength", Expr)),
                 Key("MIN_STABILITY", Set("minStability", Expr))>>
TraceCausalityClause ==
  Node(TraceNode,
    <<Expect("TRACE"), Expect("CAUSALITY"),
      Loop(<<Key("FROM", Set("from", Primary)), Key("to", Set("to", Primary))>> \o TraceLimits)>>)

\* WITHIN CONTEXT (key: value ...): the comma between options is optional.
WithinContext ==
  Node([k |-> "within", maxTokens |-> NoExpr, coherence |-> NoExpr, diversity |-> NoExpr,
        contradictions |-> "", priority |-> <<>>],
    <<Expect("WITHIN"), Expect("CONTEXT"), Expect("("),
      Until({")", "EOF"}, Seq1(<<
        Case(<<Key("MAX_TOKENS", Seq1(<<Expect(":"), Set("maxTokens", Expr)>>)),
               Key("COHERENCE", Seq1(<<Expect(":"), Set("coherence", Expr)>>)),
               Key("DIVERSITY", Seq1(<<Expect(":"), Set("diversity", Expr)>>)),
               Key("INCLUDE_CONTRADICTIONS",
                   Seq1(<<Expect(":"), Set("contradictions", OneOf({"TRUE", "FALSE"}))>>)),
               Key("PRIORITY", Seq1(<<Expect(":"),
                 Case(<<Key("[", Seq1(<<Set("priority", OrderByList), Expect("]")>>)),
                        Else(Set("priority", OrderByList))>>)>>))>>),
        Eat({","})>>)),
      Expect(")")>>)

ValidTime ==
  Node([k |-> "validAt", hi |-> NoExpr],
    <<Case(<<Key("BETWEEN", Seq1(<<Put("k", "validBetween"), Set("lo", Primary), Expect("AND"),
                                   Set("hi", Primary)>>)),
             Else(Set("lo", Primary))>>)>>)
SystemTime == Node([k |-> "system", hi |-> NoExpr], <<Set("lo", Primary)>>)
AsOfBody ==
  Case(<<Key("SYSTEMTIME", SystemTime), Key("VALIDTIME", ValidTime),
         Key("system", Seq1(<<Eat({"time"}), SystemTime>>)),
         Key("valid", Seq1(<<Eat({"time"}), ValidTime>>))>>)

WeightOption == Seq1(<<Expect(":"), Set("w", Primary)>>)
RecallWeight ==
  Case(<<
    Key("SEMANTIC_SIMILARITY", Node([k |-> "similarity", w |-> NoExpr],
      <<Expect("("), Set("e", Primary),
        Opt(<<Key(",", Case(<<Key("weight", WeightOption), Else(Name)>>))>>), Expect(")")>>)),
    Key("RECENCY", Node([k |-> "recency", decay |-> "", half |-> "", w |-> NoExpr],
      <<Expect("("),
        Until({")", "EOF"}, Seq1(<<
          Case(<<Key("DECAY", Seq1(<<Expect(":"), Set("decay", StringOrName)>>)),
                 Key("half_life", Seq1(<<Expect(":"), Set("half", StringOrName)>>)),
                 Key("weight", WeightOption),
                 Else(Seq1(<<Name, Expect(":"), Primary>>))>>), Eat({","})>>)),
        Expect(")")>>)),
    Key("IMPORTANCE", Node([k |-> "importance", w |-> NoExpr],
      <<Expect("("), Case(<<Alt({")"}, Nop), Key("weight", WeightOption), Else(Name)>>),
        Expect(")")>>))>>)
RecallWeights == ListOf("+", {}, RecallWeight)

SelectNode ==
  [k |-> "select", distinct |-> FALSE, items |-> <<>>, from |-> NoExpr, joins |-> <<>>,
   where |-> NoExpr, groupBy |-> <<>>, having |-> NoExpr, orderBy |-> <<>>, limit |-> NoExpr,
   offset |-> NoExpr, within |-> NoExpr, asOf |-> NoExpr, traverse |-> NoExpr,
   trace |-> NoExpr, ret |-> <<>>, recall |-> <<>>]

\* The clauses of a SELECT in any order; a repeated clause replaces the earlier one.
FinishSelect ==
  Loop(<<
    Alt(JoinTokens, Push("joins", JoinClause)),
    Alt({"TRAVERSE"}, Set("traverse", TraverseClause)),
    Alt({"TRACE"}, Set("trace", TraceCausalityClause)),
    Key("WHERE", Set("where", Expr)),
    Key("RECALL", Seq1(<<Expect("BY"), Set("recall", RecallWeights)>>)),
    Key("GROUP", Seq1(<<Expect("BY"), Set("groupBy", ExprList)>>)),
    Key("HAVING", Set("having", Expr)),
    OrderBy("orderBy"),
    Key("LIMIT", Set("limit", Expr)),
    Key("OFFSET", Set("offset", Expr)),
    Alt({"WITHIN"}, Set("within", WithinContext)),
    Key("AS_OF", Set("asOf", AsOfBody)),
    Alt2({"AS"}, {"of"}, Seq1(<<Advance, Advance, Set("asOf", AsOfBody)>>)),
    Key("RETURN", Set("ret", ProjectionList)),
    AltIf("trace", {"MAX_DEPTH", "MIN_STRENGTH", "MIN_STABILITY"}, Into("trace", Case(TraceLimits)))>>)

SelectHead == <<Expect("SELECT"), Opt(<<Key("DISTINCT", Put("distinct", TRUE))>>),
                Set("items", ProjectionList)>>
SelectInnerStmt ==
  Node(SelectNode, SelectHead \o <<Opt(<<Key("FROM", Set("from", TableRef))>>), FinishSelect>>)

\* TRAVERSE a -> b [WHERE ...] [LIMIT ...] as a statement of its own.
TraverseStmt ==
  Node([SelectNode EXCEPT !.items = <<Wild>>],
    <<Set("traverse", Node(TraverseNode, <<Expect("TRAVERSE"), Push("chain", Name), Chain>>)),
      Loop(<<Key("WHERE", Set("where", Expr)), Key("LIMIT", Set("limit", Expr)),
             OrderBy("orderBy"),
             AltIf("where", {"AND"}, Seq1(<<Advance, Conj("where", Expr)>>))>>)>>)

-----------------------------------------------------------------------------
(* The other statements. *)

Assignment ==
  Node([k |-> "pair"],
    <<Set("n", Name), Case(<<Key("=", Nop), Else(Eat({"=="}))>>), Set("e", Expr)>>)
AssignmentList == ListOf(",", {}, Assignment)

EstimateNode == [k |-> "estimate", items |-> <<Wild>>, model |-> <<>>, set |-> <<>>, predict |-> ""]
InterveneBody ==
  Seq1(<<Expect("INTERVENE"), Expect("ON"), Push("model", Name), Expect("SET"),
         Set("set", AssignmentList), Expect("PREDICT"), Set("predict", Name)>>)
Intervene == Node(EstimateNode, <<InterveneBody>>)

\* The tables joined and the filter are parsed and dropped.
SkipJoins == Loop(<<Alt(JoinTokens, JoinClause)>>)
EstimateEffectNatural ==
  Node(EstimateNode,
    <<Expect("estimate"), Eat({"effect"}), Eat({"of"}),
      Push("set", Node([k |-> "pair", e |-> [k |-> "int", v |-> "1"]], <<Set("n", Name)>>)),
      Expect("ON"), Set("predict", Name),
      Opt(<<Key("FROM", Seq1(<<Set("model", Get(TableRef, "name")), SkipJoins,
                               Opt(<<Key("WHERE", Expr)>>)>>))>>)>>)

CounterfactualNode == [k |-> "counterfactual", items |-> <<Wild>>, model |-> <<>>,
                       given |-> NoExpr, had |-> <<>>, predict |-> ""]
AnyAssign == Seq1(<<Eat({"="}), Eat({"=="})>>)
Pair == Node([k |-> "pair"], <<Set("n", Name), AnyAssign, Set("e", Expr)>>)
\* GIVEN key = (SELECT ...) or GIVEN key = expr, ...
Given ==
  Node([k |-> "pairs", list |-> <<>>],
    <<Set("n", Name), AnyAssign,
      Case(<<Key("(", Seq1(<<Put("k", "sub"), Set("q", SelectInner), Expect(")")>>)),
             Else(Seq1(<<Set("e", Expr), More(",", {}, Push("list", Pair))>>))>>)>>)
CounterfactualBody ==
  Seq1(<<Expect("COUNTERFACTUAL"), Expect("ON"), Push("model", Name),
         Loop(<<Key("GIVEN", Set("given", Given)),
                Key("HAD", Seq1(<<Push("had", Pair), More(",", {}, Push("had", Pair))>>)),
                Key("PREDICT", Set("predict", Name))>>)>>)
CounterfactualWithSelect ==
  Seq1(<<Expect("COUNTERFACTUAL"), Set("given", Node([k |-> "sub"], <<Set("q", SelectInner)>>)),
         Opt(<<Key("INTERVENE", Seq1(<<Expect("SET"), Set("had", AssignmentList)>>))>>),
         Copy("items", <<"given", "q", "items">>)>>)
Counterfactual ==
  Node(CounterfactualNode,
    <<Case(<<Alt2({"COUNTERFACTUAL"}, {"SELECT"}, CounterfactualWithSelect),
             Else(CounterfactualBody)>>)>>)

\* SELECT: FROM INTERVENE and FROM COUNTERFACTUAL make another statement of it.
SelectStmt ==
  Node(SelectNode, SelectHead \o
    <<Case(<<Key("FROM",
        Case(<<Alt({"INTERVENE"}, Seq1(<<Become(EstimateNode), InterveneBody>>)),
               Alt({"COUNTERFACTUAL"}, Seq1(<<Become(CounterfactualNode), CounterfactualBody>>)),
               Key("TRAVERSE", Override("traverse", FromTraverse, FinishSelect)),
               Else(Seq1(<<Set("from", TableRef), FinishSelect>>))>>)),
        Else(FinishSelect)>>)>>)

\* FROM x WHERE c is x AND c; both ends are required; ORDER BY is dropped.
TraceEnd(f) == Seq1(<<Set(f, Primary), Opt(<<Key("WHERE", Conj(f, Expr))>>)>>)
TraceCausalityTop ==
  Node(TraceNode,
    <<Expect("TRACE"), Expect("CAUSALITY"),
      Loop(<<Key("FROM", TraceEnd("from")), Key("to", TraceEnd("to")),
             Key("RETURN", Set("ret", ProjectionList)),
             Key("ORDER", Seq1(<<Expect("BY"), OrderByList>>))>> \o TraceLimits),
      Need("from"), Need("to")>>)

DiscoverCausal ==
  Node([k |-> "discover", name |-> <<>>, algorithm |-> "", minConfidence |-> NoExpr,
        store |-> "", vars |-> <<>>],
    <<Expect("DISCOVER"), Eat({"CAUSALITY", "causal"}), Eat({"STRUCTURE"}),
      Case(<<Key("IN", Seq1(<<Eat({"COLLECTION"}), Push("name", Name)>>)),
             Key("FROM", Seq1(<<Set("name", Get(TableRef, "name")), SkipJoins>>))>>),
      Loop(<<Key("VARIABLES", Seq1(<<Push("vars", Name), More(",", {}, Push("vars", Name))>>)),
             Key("ALGORITHM", Set("algorithm", StringOrName)),
             Key("MIN_CONFIDENCE", Set("minConfidence", Expr)),
             Key("STORE", Seq1(<<Eat({"AS"}), Set("store", StringOrName)>>))>>)>>)

Option(kind, r) == Push("opts", Node([k |-> kind, words |-> <<>>, n |-> "", e |-> NoExpr], <<r>>))
Understand ==
  Node([k |-> "understand", opts |-> <<>>],
    <<Expect("UNDERSTAND"), Set("v", OneOf(Strings)),
      Loop(<<
        Key("WITH", Case(<<Alt({"CONFIDENCE"}, Option("confidence", Set("e", Expr))),
                           Key("min_similarity", Option("minSimilarity", Set("e", Expr)))>>)),
        Key("WITHIN", Option("within",
              Loop(<<Alt(Idents \cup Ints \cup Strings,
                         Push("words", OneOf(Idents \cup Ints \cup Strings)))>>))),
        Key("DEPTH", Option("depth", Set("e", Expr))),
        Key("IN", Seq1(<<Eat({"COLLECTION"}), Option("collection", Set("n", Name))>>)),
        Key("using", Seq1(<<Eat({"VECTOR"}), Option("vector", Set("n", StringOrName))>>))>>)>>)

\* FOR AGENT x or WITHIN CONTEXT x.
ForAgent ==
  Case(<<Key("FOR", Seq1(<<Expect("AGENT"), Set("agent", Primary)>>)),
         Key("WITHIN", Seq1(<<Expect("CONTEXT"), Set("agent", Primary)>>))>>)
Remember ==
  Node([k |-> "remember", importance |-> NoExpr, type |-> ""],
    <<Expect("REMEMBER"), Set("v", OneOf(Strings)), ForAgent,
      Loop(<<Key("WITH", Case(<<Key("IMPORTANCE", Set("importance", Primary)),
                                Key("_confidence", Seq1(<<AnyAssign, Set("importance", Primary)>>))>>)),
             Key("IMPORTANCE", Set("importance", Primary)),
             Key("AS", Set("type", Name))>>)>>)
RecallBy ==
  Node([k |-> "recall", weights |-> <<>>, limit |-> NoExpr],
    <<Expect("RECALL"), Expect("BY"),
      Case(<<Alt(Strings, Push("weights", Node([k |-> "similarity", w |-> NoExpr], <<Set("e", Primary)>>))),
             Else(Set("weights", RecallWeights))>>),
      ForAgent,
      Loop(<<Key("WHERE", Expr), Key("ORDER", Seq1(<<Expect("BY"), OrderByList>>)),
             Key("LIMIT", Set("limit", Expr))>>)>>)
Where == Opt(<<Key("WHERE", Set("where", Expr))>>)
Forget == Node([k |-> "forget", where |-> NoExpr], <<Expect("FORGET"), ForAgent, Where>>)

Insert ==
  Node([k |-> "insert", name |-> <<>>, columns |-> <<>>],
    <<Expect("INSERT"), Expect("INTO"), QualifiedName,
      Opt(<<Key("(", Seq1(<<Set("columns", ListOf(",", {}, Name)), Expect(")")>>))>>),
      Expect("VALUES"),
      Set("rows", ListOf(",", {}, Seq1(<<Expect("("), ExprList, Expect(")")>>)))>>)
Update ==
  Node([k |-> "update", name |-> <<>>, alias |-> "", where |-> NoExpr],
    <<Expect("UPDATE"), QualifiedName, Opt(<<Key("AS", Set("alias", Name))>>), Expect("SET"),
      Set("set", AssignmentList), Where>>)
Delete ==
  Node([k |-> "delete", name |-> <<>>, where |-> NoExpr],
    <<Expect("DELETE"), Expect("FROM"), QualifiedName, Where>>)

CreateTableBody ==
  Node([k |-> "create", name |-> <<>>, columns |-> <<>>],
    <<Push("name", Name),
      Opt(<<Key("(", Seq1(<<
        Until({")", "EOF"}, Seq1(<<
          Push("columns", Node([k |-> "column", nullable |-> TRUE],
            <<Set("n", Name), Set("type", Name),
              Opt(<<Key("NOT", Seq1(<<Expect("NULL"), Put("nullable", FALSE)>>))>>)>>)),
          Eat({","})>>)),
        Expect(")")>>))>>)>>)
CreateIndexBody ==
  Node([k |-> "index"],
    <<Set("n", Name), Expect("ON"), Set("table", Name), Expect("("),
      Set("columns", ListOf(",", {}, Name)), Expect(")")>>)

\* A section ends where the next begins; tokens that open no section are skipped.
Sections == {"VARIABLES", "STRUCTURE", "EQUATIONS"}
Section(t, r) ==
  Key(t, Seq1(<<Eat({":"}), Until(Sections \cup {")", "EOF"}, Seq1(<<r, Eat({","})>>))>>))
CreateCausalModelBody ==
  Node([k |-> "model", mode |-> "Standard", vars |-> <<>>, edges |-> <<>>, equations |-> <<>>],
    <<Set("n", Name), Opt(<<Key("EQUILIBRIUM", Put("mode", "Equilibrium"))>>),
      Eat({"AS"}), Expect("("),
      Until({")", "EOF"}, Case(<<
        Section("VARIABLES", Push("vars", Node([k |-> "var"], <<Set("n", Name), Set("type", Name)>>))),
        Section("STRUCTURE",
          Push("edges", Node([k |-> "edge"], <<Set("n", Name), Expect("->"), Set("to", Name)>>))),
        Section("EQUATIONS",
          Push("equations", Node([k |-> "equation", learn |-> ""],
            <<Set("n", Name), AnyAssign, Set("e", Primary),
              Opt(<<Key("learn", Seq1(<<Eat({"FROM"}), Set("learn", Name)>>))>>)>>))),
        Else(Advance)>>)),
      Expect(")")>>)
Create ==
  Seq1(<<Expect("CREATE"),
         Case(<<Key("TABLE", CreateTableBody), Key("COLLECTION", CreateTableBody),
                Key("INDEX", CreateIndexBody),
                Key("causal", Seq1(<<Eat({"model"}), CreateCausalModelBody>>))>>)>>)

Statement ==
  Seq1(<<Loop(<<Key(";", Nop)>>),
    Case(<<Alt({"SELECT"}, SelectStmt), Alt({"INSERT"}, Insert), Alt({"UPDATE"}, Update),
           Alt({"DELETE"}, Delete), Alt({"CREATE"}, Create), Alt({"UNDERSTAND"}, Understand),
           Alt({"REMEMBER"}, Remember), Alt({"RECALL"}, RecallBy), Alt({"FORGET"}, Forget),
           Alt({"DISCOVER"}, DiscoverCausal), Alt({"TRACE"}, TraceCausalityTop),
           Alt({"INTERVENE"}, Intervene), Alt({"COUNTERFACTUAL"}, Counterfactual),
           Alt({"TRAVERSE"}, TraverseStmt), Alt({"estimate"}, EstimateEffectNatural)>>),
    Eat({";"})>>)

-----------------------------------------------------------------------------
(* The interpreter. *)

\* The parser: the rest of the text, the last value, the node being built.
Parser(text) == [ok |-> TRUE, s |-> text, v |-> NoExpr, a |-> NoExpr]
Error == [ok |-> FALSE]

\* The last token is never passed.
Rest(s) == IF Len(s) > 1 THEN Tail(s) ELSE s

Looks(alt, st) ==
  /\ \A i \in DOMAIN alt.look : i <= Len(st.s) /\ st.s[i] \in alt.look[i]
  /\ \A f \in alt.has : st.a[f].k # "none"
Pick(alts, st) == SelectInSeq(alts, LAMBDA alt : Looks(alt, st))

RuleNamed(n) ==
  CASE n = "expr" -> OrExpr [] n = "and" -> AndExpr [] n = "not" -> NotExpr
    [] n = "additive" -> AdditiveExpr [] n = "multiplicative" -> MultiplicativeExpr
    [] n = "vectorDist" -> VectorDistExpr [] n = "primary" -> PrimaryExpr [] n = "select" -> SelectInnerStmt

And(l, r) == [k |-> "bin", op |-> "And", l |-> l, r |-> r, hi |-> NoExpr, list |-> <<>>]
InfixNode(l) == [And(l, NoExpr) EXCEPT !.op = ""]

RECURSIVE Run(_, _), RunWhile(_, _, _), RunInfix(_, _)

\* Runs r while the text continues as w says: an alternative to pick, an end
\* not reached, or a separator that is not followed by a stop token.
RunWhile(w, r, st) ==
  IF ~st.ok THEN Error
  ELSE CASE w.op = "loop" -> LET i == Pick(w.alts, st)
                             IN  IF i = 0 THEN st ELSE RunWhile(w, r, Run(w.alts[i].r, st))
         [] w.op = "until" -> IF Head(st.s) \in w.ts THEN st ELSE RunWhile(w, r, Run(r, st))
         [] w.op = "more" ->
              IF Head(st.s) # w.sep THEN st
              ELSE LET next == [st EXCEPT !.s = Rest(st.s)]
                   IN  IF Head(next.s) \in w.stop THEN next ELSE RunWhile(w, r, Run(r, next))

\* value op operand: the value read so far becomes the left of a new node.
RunInfix(r, st) ==
  LET i == Pick(r.alts, st)
      new == Run(r.alts[i].r, [st EXCEPT !.a = InfixNode(st.v)])
      done == IF new.ok THEN [new EXCEPT !.v = new.a, !.a = st.a] ELSE Error
  IN  IF ~st.ok THEN Error ELSE IF i = 0 THEN st
      ELSE IF r.rep /\ done.ok THEN RunInfix(r, done) ELSE done

Run(r, st) ==
  LET next == Head(st.s)
      passed == [st EXCEPT !.s = Rest(st.s)]
      Field(f, x, s) == [s EXCEPT !.a = (f :> x) @@ s.a]
      With(s, F(_)) == IF s.ok THEN F(s) ELSE Error
  IN
  CASE r.op = "expect" -> IF next = r.t THEN passed ELSE Error
    [] r.op = "eat" -> IF next \in r.ts THEN passed ELSE st
    [] r.op = "any" -> passed
    [] r.op = "name" -> IF next \in Names THEN [passed EXCEPT !.v = NameOf(next)] ELSE Error
    [] r.op = "oneof" -> IF next \in r.ts THEN [passed EXCEPT !.v = next] ELSE Error
    [] r.op = "seq" -> FoldLeft(LAMBDA s, x : IF s.ok THEN Run(x, s) ELSE Error, st, r.rs)
    [] r.op = "rule" -> Run(RuleNamed(r.n), st)
    [] r.op = "node" -> With(Run(Seq1(r.rs), [st EXCEPT !.a = r.d]),
                             LAMBDA s : [s EXCEPT !.v = s.a, !.a = st.a])
    [] r.op = "list" -> With(RunWhile(More(r.sep, r.stop, r.r), Push("list", r.r),
                                      Run(Push("list", r.r), [st EXCEPT !.a = [list |-> <<>>]])),
                             LAMBDA s : [s EXCEPT !.v = s.a.list, !.a = st.a])
    [] r.op = "set" -> With(Run(r.r, st), LAMBDA s : Field(r.f, s.v, s))
    [] r.op = "push" -> With(Run(r.r, st), LAMBDA s : Field(r.f, Append(s.a[r.f], s.v), s))
    [] r.op = "conj" -> With(Run(r.r, st), LAMBDA s : Field(r.f, And(s.a[r.f], s.v), s))
    [] r.op = "into" -> With(Run(r.r, [st EXCEPT !.a = st.a[r.f]]),
                             LAMBDA s : [s EXCEPT !.a = (r.f :> s.a) @@ st.a])
    [] r.op = "override" -> With(Run(r.r, st), LAMBDA x :
                              With(Run(r.s, x), LAMBDA s : Field(r.f, x.v, s)))
    [] r.op = "put" -> Field(r.f, r.x, st)
    [] r.op = "copy" -> Field(r.f, FoldLeft(LAMBDA x, f : x[f], st.a, r.path), st)
    [] r.op = "get" -> With(Run(r.r, st), LAMBDA s : [s EXCEPT !.v = s.v[r.f]])
    [] r.op = "become" -> [st EXCEPT !.a = [r.d EXCEPT !.items = st.a.items]]
    [] r.op = "need" -> IF st.a[r.f].k = "none" THEN Error ELSE st
    [] r.op = "case" -> LET i == Pick(r.alts, st) IN IF i = 0 THEN Error ELSE Run(r.alts[i].r, st)
    [] r.op \in {"loop", "until", "more"} -> RunWhile(r, r.r, st)
    [] r.op = "infix" -> RunInfix(r, Run(r.r, st))

\* Parser::parse_statement on a whole text.
Outcome(s) == [ok |-> s.ok, ast |-> IF s.ok THEN s.v ELSE NoExpr]
Parse(text) == Outcome(Run(Statement, Parser(text)))
=============================================================================
