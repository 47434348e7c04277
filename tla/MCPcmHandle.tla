----------------------------- MODULE MCPcmHandle -----------------------------
(* Small instances of PcmHandle: two handles that may share a port of       *)
(* either kind, a console, writes that need a retry.                        *)
EXTENDS PcmHandle
=============================================================================
