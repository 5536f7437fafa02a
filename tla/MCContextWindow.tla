--------------------------- MODULE MCContextWindow ---------------------------
(***************************************************************************)
(* A small instance of the context windows by themselves: records of which *)
(* one is close to two others that have nothing in common.                 *)
(***************************************************************************)
EXTENDS ContextWindow

ChainEmbeddings == {<<1, 0>>, <<3, 2>>, <<0, 1>>}
ChainRecords == [tags : {<<"x">>}, vector : ChainEmbeddings, confidence : {90}, relevance : {80}]
ChainOptions ==
  [maxTokens : {140, 300}, coherence : {50}, diversity : {30}, includeContradictions : {FALSE}, priority : {""}]

MCContextSpec == ContextInit /\ [][ContextNext]_contextVars
=============================================================================
