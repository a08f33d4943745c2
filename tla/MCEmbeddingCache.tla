-------------------------- MODULE MCEmbeddingCache --------------------------
(* Small instances of EmbeddingCache for TLC.                              *)
EXTENDS EmbeddingCache

CONSTANTS e1, e2, m1, m2, a, b

\* The digests stand for themselves: 1 for a, 2 for b.
MCDigest == [t \in {a, b} |-> IF t = a THEN 1 ELSE 2]
=============================================================================
