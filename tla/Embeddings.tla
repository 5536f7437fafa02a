----------------------------- MODULE Embeddings -----------------------------
(***************************************************************************)
(* Vectors and their cosine similarity, which memory.rs, contradiction.rs  *)
(* and context.rs each compute for themselves.  A vector is a sequence of  *)
(* naturals: for a text the counts of the words in each bucket, of which   *)
(* the cosine does not see the normalisation.                              *)
(***************************************************************************)
EXTENDS Integers, Sequences, FiniteSets, SequencesExt

CONSTANT Embeddings     \* the vectors of an instance

ASSUME EmbeddingsAssumption == Embeddings \subseteq Seq(Nat)

\* The sum over the dimensions both vectors have.
Dot(a, b) ==
  LET sum[i \in 0 .. Min({Len(a), Len(b)})] == IF i = 0 THEN 0 ELSE sum[i - 1] + a[i] * b[i]
  IN sum[Min({Len(a), Len(b)})]

\* cosine_sim in whole percent, rounded down; 0 for a vector without length.
Cosine ==
  [a \in Embeddings |-> [b \in Embeddings |->
     LET d == Dot(a, b)
         n == Dot(a, a) * Dot(b, b)
     IN IF n = 0 THEN 0 ELSE Max({p \in 0..100 : p * p * n <= 10000 * d * d})]]
=============================================================================
