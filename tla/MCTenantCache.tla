---------------------------- MODULE MCTenantCache ----------------------------
(* Small instances of TenantCache for TLC.                                 *)
EXTENDS TenantCache
=============================================================================
