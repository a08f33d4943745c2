---------------------------- MODULE MCRagContext ----------------------------
(* Small instances of RagContext for TLC.                                  *)
EXTENDS RagContext
=============================================================================
