----------------------------- MODULE MCRagChat -----------------------------
(* Small instances of RagChat for TLC.                                     *)
EXTENDS RagChat

CONSTANTS c1, c2, u1, u2
=============================================================================
