----------------------------- MODULE MCPcmBridge ----------------------------
(* Small instances of PcmBridge: one browser tab, two servers of either     *)
(* kind and the serial port in turn, a device that comes back.              *)
EXTENDS PcmBridge
=============================================================================
