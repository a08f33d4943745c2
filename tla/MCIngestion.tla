---------------------------- MODULE MCIngestion ----------------------------
(* Small instances of Ingestion for TLC.                                   *)
EXTENDS IngestionClaims, TLC

CONSTANTS r1, r2, t1, t2, blank, short, long, w1, w2

\* "blank" strips to nothing, "short" fits one embedding batch, "long" needs two.
MCNChunks == blank :> 0 @@ short :> 1 @@ long :> 3
MCShort == short :> 1
=============================================================================
