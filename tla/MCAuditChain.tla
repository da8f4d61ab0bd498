---------------------------- MODULE MCAuditChain ----------------------------
(* Small instances of AuditChain for TLC.                                  *)
EXTENDS AuditChain
CONSTANTS w1, w2, w3
=============================================================================
