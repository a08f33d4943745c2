------------------------- MODULE MCBackgroundWorker -------------------------
(* Small instances of BackgroundWorker for TLC.                            *)
EXTENDS BackgroundWorker
=============================================================================
