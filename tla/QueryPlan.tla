------------------------------ MODULE QueryPlan ------------------------------
(***************************************************************************)
(* From a FunQL tree to the rows of its answer: the binder                 *)
(* (crates/fundb-sql/src/binder.rs), the optimizer                         *)
(* (crates/fundb-optimizer/src/lib.rs, rules.rs) and the operators of the  *)
(* executor (crates/fundb-executor/src).                                   *)
(*                                                                         *)
(* A collection or column is named by the sequence of the parts of its     *)
(* dotted name.  Numbers are counted in tenths; ValueOf gives a literal    *)
(* its number, a string its place in the string order.  The rows are the   *)
(* records of the store in the order of their time-ordered ids.            *)
(***************************************************************************)
EXTENDS FunQL, Integers

CONSTANTS ValueOf,       \* [Ints \cup Floats \cup Strings -> Nat]
          Spells,        \* [strings -> names]: the collections, each spelled by one string
          LongerNames    \* {<<c, d>>}: d is another collection whose name starts with c's

Tenths == 10
Fail(code) == [ok |-> FALSE, code |-> code]

NameValue(c) == ValueOf[CHOOSE s \in DOMAIN Spells : Spells[s] = c]
CollectionOrder == SetToSortSeq(Range(Spells), LAMBDA c, d : NameValue(c) < NameValue(d))

-----------------------------------------------------------------------------
(* Expressions of a plan.  All have the same fields. *)

Bound(k) == [k |-> k, op |-> "", n |-> <<>>, t |-> "", v |-> "", args |-> <<>>]
Col(n) == [Bound("col") EXCEPT !.n = n]
Lit(t, v) == [Bound("lit") EXCEPT !.t = t, !.v = v]
Bin(op, l, r) == [Bound("bin") EXCEPT !.op = op, !.args = <<l, r>>]
Un(op, x) == [Bound("un") EXCEPT !.op = op, !.args = <<x>>]
Fn(n, args) == [Bound("fn") EXCEPT !.n = n, !.args = args]
Star == Bound("star")

Numeric(e) == e.k \in {"int", "float"}
AllNumeric(es) == \A i \in DOMAIN es : Numeric(es[i])

\* Operators without a counterpart become the nearest one.
BindBinaryOp ==
  [Eq |-> "Eq", NotEq |-> "Ne", Lt |-> "Lt", LtEq |-> "Le", Gt |-> "Gt", GtEq |-> "Ge",
   And |-> "And", Or |-> "Or", Add |-> "Add", Sub |-> "Sub", Mul |-> "Mul", Div |-> "Div",
   Mod |-> "Div", Like |-> "Eq", NotLike |-> "Eq", Arrow |-> "Eq"]

RECURSIVE BindExpr(_)
BindList(es) == [i \in DOMAIN es |-> BindExpr(es[i])]
BindOptional(e) == IF e.k = "none" THEN <<>> ELSE <<BindExpr(e)>>

BindExpr(e) ==
  CASE e.k \in {"int", "float", "string", "bool", "null"} -> Lit(e.k, e.v)
    [] e.k = "ident" -> Col(<<e.n>>)
    [] e.k = "qualified" -> Col(<<e.n, e.f>>)
    [] e.k = "param" -> [Bound("param") EXCEPT !.v = e.v]
    [] e.k \in {"star", "wild"} -> Star
    [] e.k = "item" -> BindExpr(e.e)
    [] e.k = "bin" -> Bin(BindBinaryOp[e.op], BindExpr(e.l), BindExpr(e.r))
    [] e.k = "neg" -> Un("Neg", BindExpr(e.l))
    [] e.k = "not" -> Un("Not", BindExpr(e.l))
    [] e.k = "call" -> Fn(IF e.f = "" THEN <<e.n>> ELSE <<e.n, e.f>>, BindList(e.args))
    [] e.k = "vref" -> Fn(<<"_vector">>, <<Lit("string", e.f)>>)
    [] e.k = "vdist" -> Bin("VectorDist", [Bound("vecref") EXCEPT !.v = e.f], BindExpr(e.args[1]))
    [] e.k = "in" -> Fn(<<"in_list">>, <<BindExpr(e.l)>> \o BindList(e.list))
    [] e.k = "isnull" -> Fn(<<"is_null">>, <<BindExpr(e.l)>>)
    [] e.k = "isnotnull" -> Fn(<<"is_not_null">>, <<BindExpr(e.l)>>)
    [] e.k = "between" -> Bin("And", Bin("Ge", BindExpr(e.l), BindExpr(e.r)),
                                     Bin("Le", BindExpr(e.l), BindExpr(e.hi)))
    [] e.k = "array" -> IF AllNumeric(e.list) THEN Lit("vector", "") ELSE Fn(<<"array">>, BindList(e.list))
    [] e.k = "case" -> Fn(<<"case">>, BindOptional(e.l)
                          \o FlattenSeq([i \in DOMAIN e.whens |-> <<BindExpr(e.whens[i].l), BindExpr(e.whens[i].r)>>])
                          \o BindOptional(e.r))
    [] e.k = "subquery" -> Fn(<<"subquery">>, <<>>)

-----------------------------------------------------------------------------
(* Plans.  All nodes have the same fields: their inputs, their expressions, *)
(* a name and a number, and for a sort the direction of each expression.    *)

Plan(op, inputs, exprs) ==
  [op |-> op, inputs |-> inputs, exprs |-> exprs, name |-> <<>>, n |-> 0, asc |-> <<>>, rows |-> <<>>]
Named(plan, name) == [plan EXCEPT !.name = name]
Counted(plan, n) == [plan EXCEPT !.n = n]
Empty == Plan("Empty", <<>>, <<>>)

\* expr_to_usize, expr_to_u32: a literal that is not negative, else the default.
ToCount(e, default) == IF Numeric(e) THEN ValueOf[e.v] \div Tenths ELSE default

\* WHERE _vector(..) <-> [..] < threshold; a parameter stands for any vector.
IsVectorScan(w) ==
  /\ w.k = "bin" /\ w.op \in {"Lt", "LtEq"}
  /\ w.l.k = "vdist" /\ Numeric(w.r)
  /\ LET v == w.l.args[1] IN v.k = "param" \/ (v.k = "array" /\ AllNumeric(v.list))

AggFuncs == {<<"count">>, <<"sum">>, <<"avg">>, <<"average">>, <<"min">>, <<"max">>}
Aggregates(items) ==
  LET IsAgg(it) == it.k = "item" /\ it.e.k = "call" /\ it.e.f = "" /\ <<it.e.n>> \in AggFuncs
      aggs == SelectSeq(items, IsAgg)
  IN  [i \in DOMAIN aggs |-> IF aggs[i].e.args = <<>> THEN Star ELSE BindExpr(aggs[i].e.args[1])]

\* TRACE CAUSALITY and TRAVERSE replace the plan made so far.
BindSelect(s, catalog) ==
  LET collection == IF s.from.k = "none" THEN <<>> ELSE s.from.name
      scan == Named(Plan("Scan", <<>>, BindList(s.items)), collection)
      source ==
        IF s.where.k = "none" THEN scan
        ELSE IF IsVectorScan(s.where)
             THEN Counted(Named(Plan("VectorScan", <<>>, <<BindExpr(s.where.l)>>), collection),
                          ValueOf[s.where.r.v])
             ELSE Plan("Filter", <<scan>>, <<BindExpr(s.where)>>)
      traced ==
        IF s.trace.k = "none" THEN source
        ELSE Counted(Plan("CausalTrace", <<>>, BindOptional(s.trace.from) \o BindOptional(s.trace.to)),
                     ToCount(s.trace.maxDepth, 10))
      traversed ==
        IF s.traverse.k = "none" THEN traced
        ELSE Counted(Named(Plan("GraphTraverse", <<>>, <<Col(collection)>>), <<s.traverse.chain[1]>>),
                     ToCount(s.traverse.max, ToCount(s.traverse.min, 1)))
      context ==
        IF s.within.k = "none" THEN traversed
        ELSE Counted(Plan("ContextOptimize", <<traversed>>, <<>>), ToCount(s.within.maxTokens, 0))
      grouped ==
        IF s.groupBy = <<>> THEN context
        ELSE Plan("Aggregate", <<context>>, BindList(s.groupBy) \o Aggregates(s.items))
      sorted ==
        IF s.orderBy = <<>> THEN grouped
        ELSE [Plan("Sort", <<grouped>>, [i \in DOMAIN s.orderBy |-> BindExpr(s.orderBy[i].e)])
              EXCEPT !.asc = [i \in DOMAIN s.orderBy |-> s.orderBy[i].asc]]
      limited ==
        IF s.limit.k = "none" THEN sorted ELSE Counted(Plan("Limit", <<sorted>>, <<>>), ToCount(s.limit, 0))
  IN  IF collection # <<>> /\ collection \notin catalog
      THEN Fail("42P01") ELSE [ok |-> TRUE, plan |-> limited]

BindInsert(t) ==
  [Named(Plan("Insert", <<>>, <<>>), t.name)
   EXCEPT !.rows = [i \in DOMAIN t.rows |-> [cols |-> t.columns, vals |-> BindList(t.rows[i])]]]

\* bind_kv_pairs_to_f64: every value is a number.
NumericPairs(ps) == \A i \in DOMAIN ps : Numeric(ps[i].e)

\* Statements without an answer bind to the empty plan.
Bind(t, catalog) ==
  CASE t.k = "select" -> BindSelect(t, catalog)
    [] t.k = "insert" -> [ok |-> TRUE, plan |-> BindInsert(t)]
    [] t.k = "understand" -> [ok |-> TRUE, plan |-> Named(Plan("Understand", <<>>, <<>>), <<t.v>>)]
    [] t.k = "estimate" -> IF NumericPairs(t.set)
                           THEN [ok |-> TRUE, plan |-> Named(Plan("EstimateEffect", <<>>, <<>>), t.model)]
                           ELSE Fail("42P01")
    [] t.k = "counterfactual" ->
         IF NumericPairs(t.had) /\ (t.given.k = "pairs" => Numeric(t.given.e) /\ NumericPairs(t.given.list))
         THEN [ok |-> TRUE, plan |-> Named(Plan("Counterfactual", <<>>, <<>>), t.model)]
         ELSE Fail("42P01")
    [] OTHER -> [ok |-> TRUE, plan |-> Empty]

-----------------------------------------------------------------------------
(* The optimizer.  Every rule goes down through the inputs of every node. *)

RECURSIVE PredicatePushdown(_), LimitPushdown(_), EliminateRedundantProject(_), FoldExpr(_),
          ConstantFold(_), VectorScanElideFilter(_), Rewrite(_, _)

\* Filter over Project becomes Project over Filter.
PredicatePushdown(p) ==
  IF p.op = "Filter" /\ p.inputs[1].op = "Project"
  THEN LET project == p.inputs[1]
       IN  [project EXCEPT !.inputs = <<[p EXCEPT !.inputs = <<PredicatePushdown(project.inputs[1])>>]>>]
  ELSE [p EXCEPT !.inputs = [i \in DOMAIN @ |-> PredicatePushdown(@[i])]]

\* Mutant: a limit is also pushed below a sort.
LimitPushdownMutant(p) ==
  IF p.op = "Limit" /\ p.inputs[1].op \in {"Project", "Sort"}
  THEN [p.inputs[1] EXCEPT !.inputs = <<[p EXCEPT !.inputs = @[1].inputs]>>]
  ELSE [p EXCEPT !.inputs = [i \in DOMAIN @ |-> LimitPushdown(@[i])]]

\* Limit over Project becomes Project over Limit; a limit stays above a sort.
LimitPushdown(p) ==
  IF p.op = "Limit" /\ p.inputs[1].op = "Project"
  THEN LET project == p.inputs[1]
       IN  [project EXCEPT !.inputs = <<[p EXCEPT !.inputs = <<LimitPushdown(project.inputs[1])>>]>>]
  ELSE [p EXCEPT !.inputs = [i \in DOMAIN @ |-> LimitPushdown(@[i])]]

EliminateRedundantProject(p) ==
  IF p.op = "Project" /\ p.exprs = <<Star>>
  THEN EliminateRedundantProject(p.inputs[1])
  ELSE [p EXCEPT !.inputs = [i \in DOMAIN @ |-> EliminateRedundantProject(@[i])]]

\* TRUE AND x is x, FALSE OR x is x, from the inside out.
FoldExpr(e) ==
  LET args == [i \in DOMAIN e.args |-> FoldExpr(e.args[i])]
      unit == CASE e.op = "And" -> Lit("bool", "TRUE") [] e.op = "Or" -> Lit("bool", "FALSE") [] OTHER -> Star
  IN  IF e.k = "bin" /\ e.op \in {"And", "Or"} /\ args[1] = unit THEN args[2]
      ELSE IF e.k = "bin" /\ e.op \in {"And", "Or"} /\ args[2] = unit THEN args[1]
      ELSE [e EXCEPT !.args = args]

\* The plans of a vector scan, a trace or a traversal keep their expressions.
ConstantFold(p) ==
  [p EXCEPT !.inputs = [i \in DOMAIN @ |-> ConstantFold(@[i])],
            !.exprs = IF p.op \in {"VectorScan", "CausalTrace", "GraphTraverse"} THEN @
                      ELSE [i \in DOMAIN @ |-> FoldExpr(@[i])]]

IsVectorDistPredicate(e) == e.k = "bin" /\ e.op \in {"VectorDist", "Lt", "Le"}

VectorScanElideFilter(p) ==
  IF p.op = "Filter" /\ p.inputs[1].op = "VectorScan" /\ IsVectorDistPredicate(p.exprs[1])
  THEN p.inputs[1]
  ELSE [p EXCEPT !.inputs = [i \in DOMAIN @ |-> VectorScanElideFilter(@[i])]]

ApplyAllRules(p) ==
  VectorScanElideFilter(ConstantFold(EliminateRedundantProject(LimitPushdown(PredicatePushdown(p)))))

MaxIterations == 8
Rewrite(p, n) ==
  LET next == ApplyAllRules(p) IN IF n = 0 \/ next = p THEN p ELSE Rewrite(next, n - 1)
Optimize(p) == Rewrite(p, MaxIterations)

-----------------------------------------------------------------------------
(* The filter. *)

Confidence == <<"_confidence">>
Tenant == <<"_tenant">>
Collection == <<"_collection">>

IsNumber(e) == e.k = "lit" /\ e.t \in {"int", "float"}
NumberOf(e) == ValueOf[e.v]

\* compare_f32, compare_f64, compare_str: operators that compare nothing hold.
Compare(x, op, y) ==
  CASE op = "Eq" -> x = y [] op = "Ne" -> x # y [] op = "Lt" -> x < y [] op = "Le" -> x <= y
    [] op = "Gt" -> x > y [] op = "Ge" -> x >= y [] OTHER -> TRUE
Flip(op) ==
  CASE op = "Lt" -> "Gt" [] op = "Le" -> "Ge" [] op = "Gt" -> "Lt" [] op = "Ge" -> "Le" [] OTHER -> op

\* A row with an array does not decode, so it passes every comparison of a
\* field; a missing field, NULL and values of another type pass none.
Decodes(row) == \A c \in DOMAIN row.data : row.data[c].t # "vector"
CompareField(row, c, op, lit) ==
  LET f == row.data[c]
  IN  ~Decodes(row) \/
      /\ c \in DOMAIN row.data
      /\ CASE f.t \in {"int", "float"} -> IsNumber(lit) /\ Compare(f.v, op, NumberOf(lit))
           [] f.t = "string" -> lit.k = "lit" /\ lit.t = "string" /\ Compare(f.v, op, NumberOf(lit))
           [] f.t = "bool" -> lit.k = "lit" /\ lit.t = "bool" /\
                              CASE op = "Eq" -> (f.v = 1) = (lit.v = "TRUE")
                                [] op = "Ne" -> (f.v = 1) # (lit.v = "TRUE") [] OTHER -> TRUE
           [] OTHER -> FALSE
EvalColumn(row, c, op, lit) ==
  CASE c = Collection -> (lit.k = "lit" /\ lit.t = "string") => Compare(NameValue(row.coll), op, NumberOf(lit))
    [] c = Tenant -> IsNumber(lit) => Compare(0, op, NumberOf(lit))
    [] c = Confidence -> IsNumber(lit) => Compare(row.conf, op, NumberOf(lit))
    [] OTHER -> CompareField(row, c, op, lit)

\* A number on the left of _confidence keeps its side although the operator is turned.
EvalBinary(op, l, r, row) ==
  CASE IsNumber(l) /\ r.k = "col" /\ r.n = Confidence -> Compare(NumberOf(l), Flip(op), row.conf)
    [] l.k = "col" -> EvalColumn(row, l.n, op, r)
    [] r.k = "col" /\ l.k # "col" -> EvalColumn(row, r.n, Flip(op), l)
    [] OTHER -> TRUE

RECURSIVE EvalExpr(_, _)
EvalExpr(e, row) ==
  CASE e.k = "lit" /\ e.t = "bool" -> e.v = "TRUE"
    [] e.k = "lit" /\ e.t = "null" -> FALSE
    [] e.k = "bin" /\ e.op = "And" -> EvalExpr(e.args[1], row) /\ EvalExpr(e.args[2], row)
    [] e.k = "bin" /\ e.op = "Or" -> EvalExpr(e.args[1], row) \/ EvalExpr(e.args[2], row)
    [] e.k = "un" /\ e.op = "Not" -> ~EvalExpr(e.args[1], row)
    [] e.k = "bin" -> EvalBinary(e.op, e.args[1], e.args[2], row)
    [] OTHER -> TRUE

-----------------------------------------------------------------------------
(* The sort: numbers and booleans, then strings, then NULL. *)

SortValue(row, c) ==
  CASE c = Confidence -> <<0, row.conf>>
    [] c = Tenant -> <<0, 0>>
    [] c = Collection -> <<1, NameValue(row.coll)>>
    [] OTHER -> IF ~Decodes(row) \/ c \notin DOMAIN row.data THEN <<2, 0>>
                ELSE CASE row.data[c].t \in {"int", "float"} -> <<0, row.data[c].v>>
                       [] row.data[c].t = "bool" -> <<0, row.data[c].v * Tenths>>
                       [] row.data[c].t = "string" -> <<1, row.data[c].v>>
                       [] OTHER -> <<2, 0>>
Less(x, y) == x[1] < y[1] \/ (x[1] = y[1] /\ x[2] < y[2])

\* Mutant: the direction of the sort is forgotten.
BeforeMutant(a, b, p) ==
  \E i \in DOMAIN p.exprs :
    /\ p.exprs[i].k = "col" /\ Less(SortValue(a, p.exprs[i].n), SortValue(b, p.exprs[i].n))
    /\ \A j \in 1..(i - 1) :
         p.exprs[j].k = "col" => SortValue(a, p.exprs[j].n) = SortValue(b, p.exprs[j].n)

\* compare_records: the first column that tells the rows apart decides.
Before(a, b, p) ==
  \E i \in DOMAIN p.exprs :
    /\ p.exprs[i].k = "col"
    /\ LET x == SortValue(a, p.exprs[i].n)
           y == SortValue(b, p.exprs[i].n)
       IN  IF p.asc[i] THEN Less(x, y) ELSE Less(y, x)
    /\ \A j \in 1..(i - 1) :
         p.exprs[j].k = "col" => SortValue(a, p.exprs[j].n) = SortValue(b, p.exprs[j].n)

\* A stable sort: a row follows those before it and the equal ones seen earlier.
SortRows(rows, p) ==
  LET Insert1(acc, row) ==
        LET i == Cardinality({j \in DOMAIN acc : ~Before(row, acc[j], p)})
        IN  SubSeq(acc, 1, i) \o <<row>> \o SubSeq(acc, i + 1, Len(acc))
  IN  FoldLeft(Insert1, <<>>, rows)

-----------------------------------------------------------------------------
(* The executor. *)

\* The key range of a scan ends at the name followed by DEL, so it also holds
\* the collections whose names begin with this one; no name is every collection.
InRange(c, d) == IsPrefix(c, d) \/ <<c, d>> \in LongerNames
ScanRows(c, store) ==
  FlattenSeq([i \in DOMAIN CollectionOrder |->
    SelectSeq(store, LAMBDA row : row.coll = CollectionOrder[i] /\ InRange(c, row.coll))])

\* Plans the executor does not know yet give no rows.  INSERT writes no vectors,
\* so a vector scan finds none.
RECURSIVE Execute(_, _)
Execute(p, store) ==
  CASE p.op = "Scan" -> ScanRows(p.name, store)
    [] p.op = "Filter" -> SelectSeq(Execute(p.inputs[1], store), LAMBDA row : EvalExpr(p.exprs[1], row))
    [] p.op = "Project" -> Execute(p.inputs[1], store)
    [] p.op = "Limit" -> LET rows == Execute(p.inputs[1], store)
                         IN  SubSeq(rows, 1, IF p.n < Len(rows) THEN p.n ELSE Len(rows))
    [] p.op = "Sort" -> SortRows(Execute(p.inputs[1], store), p)
    [] OTHER -> <<>>

\* eval_expr_to_value: what is no literal is stored as NULL.
ToValue(e) ==
  CASE e.k = "lit" /\ e.t \in {"int", "float", "string"} -> [t |-> e.t, v |-> ValueOf[e.v]]
    [] e.k = "lit" /\ e.t = "bool" -> [t |-> "bool", v |-> IF e.v = "TRUE" THEN 1 ELSE 0]
    [] e.k = "lit" /\ e.t = "vector" -> [t |-> "vector", v |-> 0]
    [] OTHER -> [t |-> "null", v |-> 0]

\* The record of one row of an INSERT.  Values beyond the columns share one
\* name; _confidence is a property of the record when it is a number.
ColumnOf(row, i) == IF i <= Len(row.cols) THEN <<row.cols[i]>> ELSE <<"_unknown">>
RowRecord(coll, row, id) ==
  LET Last1(c) == CHOOSE i \in DOMAIN row.vals :
                    ColumnOf(row, i) = c /\ \A j \in DOMAIN row.vals : ColumnOf(row, j) = c => j <= i
      cols == {ColumnOf(row, i) : i \in DOMAIN row.vals}
      confs == {i \in DOMAIN row.vals : ColumnOf(row, i) = Confidence /\ IsNumber(row.vals[i])}
  IN  [coll |-> coll, id |-> id,
       conf |-> IF confs = {} THEN Tenths
                ELSE NumberOf(row.vals[CHOOSE i \in confs : \A j \in confs : j <= i]),
       data |-> [c \in cols \ {Confidence} |-> ToValue(row.vals[Last1(c)])]]
=============================================================================
