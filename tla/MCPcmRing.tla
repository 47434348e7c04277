----------------------------- MODULE MCPcmRing ------------------------------
(* Small instance of PcmRing: a capacity no write length divides, writes up *)
(* to one byte more than the capacity, reads shorter than the capacity.     *)
EXTENDS PcmRing
MCByte == {0, 1}
=============================================================================
