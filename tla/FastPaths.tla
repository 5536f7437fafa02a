------------------------------ MODULE FastPaths ------------------------------
(***************************************************************************)
(* The texts FunDBHandler answers without parsing them                     *)
(* (crates/fundb-server/src/handler.rs): what command-line tools ask for.  *)
(***************************************************************************)
EXTENDS QueryPlan

\* Values are wrapped so that names, numbers and rows can be told apart.
Cell(x) == [id |-> 0, conf |-> 0, vals |-> <<>> :> x]
HasWords(text, words) == \E i \in 1..Len(text) : IsPrefix(words, SubSeq(text, i, Len(text)))

\* extract_schema_collection: the first string after the word collection.
SchemaCollection(text) ==
  LET words == {i \in DOMAIN text : text[i] = "COLLECTION"}
      strings == {i \in DOMAIN text : text[i] \in DOMAIN Spells /\ \E w \in words : w < i}
  IN  IF strings = {} THEN <<>> ELSE Spells[text[CHOOSE i \in strings : \A j \in strings : i <= j]]

\* The columns of the first record, between _id and _confidence.
SchemaRows(coll, rows) ==
  LET first == Execute(Counted(Plan("Limit", <<Named(Plan("Scan", <<>>, <<Star>>), coll)>>, <<>>), 1), rows)
      cols == IF first = <<>> THEN <<>> ELSE SetToSeq(DOMAIN first[1].data)
  IN  <<Cell(<<"_id">>)>> \o [i \in DOMAIN cols |-> Cell(cols[i])] \o <<Cell(Confidence)>>

\* The texts answered without being parsed, in the order they are looked for.
FastPath(text, collections, rows) ==
  LET words == SelectSeq(text, LAMBDA t : t \notin {";", "EOF"})
      names == SelectSeq(CollectionOrder, LAMBDA d : d \in collections)
  IN  CASE Len(words) = 2 /\ words[1] = "SELECT" /\ words[2] \in Ints ->
             <<TRUE, <<Cell(<<words[2]>>)>>>>
        [] HasWords(text, <<"version", "(", ")">>) -> <<TRUE, <<Cell(<<"FunDB">>)>>>>
        [] HasWords(text, <<"FROM", "_schema">>) /\ SchemaCollection(text) # <<>> ->
             <<TRUE, SchemaRows(SchemaCollection(text), rows)>>
        [] HasWords(text, <<"FROM", "_collections">>) ->
             <<TRUE, [i \in DOMAIN names |-> Cell(names[i])]>>
        [] OTHER -> <<FALSE, <<>>>>
=============================================================================
