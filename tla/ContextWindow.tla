---------------------------- MODULE ContextWindow ----------------------------
(***************************************************************************)
(* Contradictions between records (contradiction.rs), the updates of their *)
(* confidence (confidence.rs) and the selection of a context window for a  *)
(* token budget (context.rs).  A caller checks each new record against the *)
(* stored ones and links or confirms what it finds; windows are filled     *)
(* from the stored ones.  Confidences, similarities and relevances are in  *)
(* percent.  A record has at most one vector, <<>> for none.               *)
(***************************************************************************)
EXTENDS Embeddings

CONSTANTS
  NewRecords,       \* [tags, vector, confidence, relevance] of records to come
  Negations,        \* tags with a negation marker: not_, no_, anti, _false
  WindowOptions,    \* ContextOptions
  MaxRecords        \* bound: records stored

ASSUME ContextAssumption ==
  /\ \A r \in NewRecords : /\ r.tags \in Seq(STRING) /\ r.vector \in Embeddings \cup {<<>>}
                           /\ r.confidence \in Int /\ r.relevance \in Int
  /\ \A o \in WindowOptions : /\ o.maxTokens \in Nat /\ o.coherence \in Nat /\ o.diversity \in Int
                              /\ o.includeContradictions \in BOOLEAN

VARIABLES
  records,          \* the stored records, oldest first, their tags and links in sources
  checked,          \* what check_insert found for the newest record
  window            \* the last window, [options, selected, used], or <<>>
contextVars == <<records, checked, window>>

-----------------------------------------------------------------------------
(* Contradictions *)

\* tags_of: the sources that are not links.
TagsOf(r) == {k \in DOMAIN r.sources : r.sources[k].origin # "contradicts"}
OriginsOf(r) == {r.sources[k].origin : k \in TagsOf(r)}

TagSimilarity(a, b) ==
  (100 * Cardinality({k \in TagsOf(a) : a.sources[k].origin \in OriginsOf(b)}))
    \div Max({Cardinality(TagsOf(a)), Cardinality(TagsOf(b)), 1})
\* cosine_text_similarity and the cosine_sim of context.rs.
VectorSimilarity(a, b) == IF <<>> \in {a.vector, b.vector} THEN 0 ELSE Cosine[a.vector][b.vector]
Similarity(a, b) == Max({TagSimilarity(a, b), VectorSimilarity(a, b)})

\* is_negation_pair looks at the candidate's tag alone: "not_" followed by the
\* new tag is among the tags that start with "not_".
IsNegationPair(new, candidate) == candidate \in Negations

Polarity(new, candidate, similarity) ==
  IF \/ \E t \in OriginsOf(new), u \in OriginsOf(candidate) : IsNegationPair(t, u)
     \/ similarity > 70 /\ \/ new.confidence - candidate.confidence > 50
                           \/ candidate.confidence - new.confidence > 50
  THEN "Conflicting" ELSE "Corroborating"

\* check_insert: the similar records, most similar first, each after those that
\* are more similar or as similar and older; the sort is stable.
CheckInsert(new) ==
  LET Of(i) == Similarity(new, records[i])
      similar == {i \in DOMAIN records : Of(i) > 30}
      Above(i) == {j \in similar : Of(j) > Of(i) \/ (Of(j) = Of(i) /\ j < i)}
      order == [k \in 1 .. Cardinality(similar) |-> CHOOSE i \in similar : Cardinality(Above(i)) = k - 1]
  IN [k \in DOMAIN order |->
        [existing |-> order[k], similarity |-> Of(order[k]),
         polarity |-> Polarity(new, records[order[k]], Of(order[k]))]]

\* update_on_contradiction, which auto_link repeats, and update_on_corroboration.
UpdateOnContradiction(c, strength) == Max({0, c - (20 * strength) \div 100})
UpdateOnCorroboration(c) == Min({100, c + 10})

\* auto_link: each record loses confidence and names the other as a source.
Linked(r, to, strength) ==
  [r EXCEPT !.confidence = UpdateOnContradiction(@, strength),
            !.sources = Append(@, [origin |-> "contradicts", to |-> to, confidence |-> strength])]
AutoLink(i, j, strength) ==
  [k \in DOMAIN records |-> CASE k = i -> Linked(records[k], j, strength)
                              [] k = j -> Linked(records[k], i, strength)
                              [] OTHER -> records[k]]

InsertRecord(r) ==
  LET new == [sources |-> [k \in DOMAIN r.tags |-> [origin |-> r.tags[k], to |-> 0, confidence |-> 100]],
              vector |-> r.vector, confidence |-> r.confidence, relevance |-> r.relevance, validFrom |-> Len(records)]
  IN /\ checked = <<>>
     /\ checked' = CheckInsert(new)
     /\ records' = Append(records, new)
     /\ window' = <<>>

\* The caller's answer to the first of the results.
SettleCandidate ==
  LET c == Head(checked)
  IN /\ checked # <<>>
     /\ checked' = Tail(checked)
     /\ records' = IF c.polarity = "Conflicting" THEN AutoLink(Len(records), c.existing, c.similarity)
                 ELSE [records EXCEPT ![c.existing].confidence = UpdateOnCorroboration(@)]
     /\ UNCHANGED window

-----------------------------------------------------------------------------
(* Context windows *)

EstimateTokens(r) == 50 + 6 * Len(r.vector) + 10
Doubtful(i) == records[i].confidence < 30
MaxSimToSelected(i, selected) == Max({0} \cup {VectorSimilarity(records[i], records[j]) : j \in ToSet(selected)})

\* The order of the candidates, by the first sort key; the sort is stable.
PriorityKey(o, i) == CASE o.priority = "Confidence" -> records[i].confidence
               [] o.priority = "Relevance" -> records[i].relevance
               [] o.priority = "Recency" -> records[i].validFrom
               [] OTHER -> 0
GoesFirst(o, i, j) == PriorityKey(o, i) > PriorityKey(o, j) \/ (PriorityKey(o, i) = PriorityKey(o, j) /\ i < j)

\* Mutant: the budget is compared before the record's cost is added.
FitsMutant(o, w, i) ==
  /\ w.used <= o.maxTokens
  /\ o.coherence > 0 /\ w.selected # <<>> => MaxSimToSelected(i, w.selected) >= o.coherence

\* What the MMR loop does not skip.
Fits(o, w, i) ==
  /\ w.used + EstimateTokens(records[i]) <= o.maxTokens
  /\ o.coherence > 0 /\ w.selected # <<>> => MaxSimToSelected(i, w.selected) >= o.coherence

TakeRecord(w, i) == [selected |-> Append(w.selected, i), used |-> w.used + EstimateTokens(records[i])]

\* A round of the MMR loop: the greatest score, and the first of those.  A round
\* without a record that fits ends the loop: it changes nothing.
MmrRound(o, w) ==
  LET Mmr(i) == o.diversity * records[i].relevance - (100 - o.diversity) * MaxSimToSelected(i, w.selected)
      fit == {i \in DOMAIN records \ ToSet(w.selected) : Fits(o, w, i)}
      best == CHOOSE i \in fit : \A j \in fit \ {i} : Mmr(i) > Mmr(j) \/ (Mmr(i) = Mmr(j) /\ GoesFirst(o, i, j))
  IN IF fit = {} THEN w ELSE TakeRecord(w, best)

\* The first doubtful record is taken whatever it costs, if asked for.
StartWindow(o) ==
  LET none == [selected |-> <<>>, used |-> 0]
      doubtful == {i \in DOMAIN records : Doubtful(i)}
  IN IF o.includeContradictions /\ doubtful # {}
     THEN TakeRecord(none, CHOOSE i \in doubtful : \A j \in doubtful \ {i} : GoesFirst(o, i, j))
     ELSE none

\* ContextOptimizer::select.
SelectWindow(o) ==
  LET w[k \in 0 .. Len(records)] == IF k = 0 THEN StartWindow(o) ELSE MmrRound(o, w[k - 1])
  IN w[Len(records)]

\* The metadata of a window.
CoverageScore(selected) == (100 * Len(selected)) \div Max({Len(records), 1})
MeanPairwiseCosine(selected) ==
  LET pairs == {p \in (1..Len(selected)) \X (1..Len(selected)) : p[1] < p[2]}
      Sim(p) == VectorSimilarity(records[selected[p[1]]], records[selected[p[2]]])
  IN IF pairs = {} THEN 0 ELSE MapThenSumSet(Sim, pairs) \div Cardinality(pairs)
ContradictionsFound(selected) == Cardinality({k \in DOMAIN selected : Doubtful(selected[k])})

FillWindow(o) ==
  LET w == SelectWindow(o)
  IN /\ records # <<>>
     /\ window' = [options |-> o, selected |-> w.selected, used |-> w.used,
                   coverage |-> CoverageScore(w.selected), coherence |-> MeanPairwiseCosine(w.selected),
                   contradictions |-> ContradictionsFound(w.selected)]
     /\ UNCHANGED <<records, checked>>

ContextInit == records = <<>> /\ checked = <<>> /\ window = <<>>
ContextNext ==
  \/ Len(records) < MaxRecords /\ \E r \in NewRecords : InsertRecord(r)
  \/ SettleCandidate
  \/ window = <<>> /\ checked = <<>> /\ \E o \in WindowOptions : FillWindow(o)

-----------------------------------------------------------------------------

\* The tokens of the selected records, numbered.
TokensOf(selected) == UNION {{k} \X (1 .. EstimateTokens(records[selected[k]])) : k \in DOMAIN selected}

\* The window costs what the metadata say, and stays within the budget unless
\* the one doubtful record taken first is already more than the budget allows.
BudgetKept ==
  /\ IsInjective(window.selected)
  /\ window.used = Cardinality(TokensOf(window.selected))
  /\ window.used > window.options.maxTokens =>
       window.options.includeContradictions /\ Len(window.selected) = 1 /\ Doubtful(window.selected[1])

\* Whoever asks for contradictions gets one where there is one, whatever the
\* budget and the coherence, although the decay of auto_link decides which
\* records are doubtful.
DoubtShown ==
  window.options.includeContradictions /\ (\E i \in DOMAIN records : Doubtful(i)) => window.contradictions >= 1

\* The loop stopped for no other reason than that nothing left over fits.
Filling ==
  \A i \in DOMAIN records \ ToSet(window.selected) :
    \/ window.used + EstimateTokens(records[i]) > window.options.maxTokens
    \/ MaxSimToSelected(i, window.selected) < window.options.coherence

\* ContextOptimizer::select keeps to the budget, shows a doubtful record to those
\* who ask for one and stops only when nothing more fits, over records whose
\* confidence the contradictions found at insertion have changed.  What the
\* coherence of the options promises is CoherenceHeld.
ContextSound == window # <<>> => BudgetKept /\ DoubtShown /\ Filling

\* The coherence of the options is the least mean pairwise cosine of the selected
\* set, as its doc says (context.rs:12); the coherence_score of the metadata is
\* that mean.  The loop compares each record with the closest selected one only.
CoherenceHeld ==
  window # <<>> /\ window.options.coherence > 0 /\ Len(window.selected) >= 2 =>
    window.coherence >= window.options.coherence
=============================================================================
