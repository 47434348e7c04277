--------------------------- MODULE MCUdpTransport ---------------------------
(* Small instances of UdpTransport: two descriptors, so that a socket that  *)
(* is left behind shows, and two tries of every write.                      *)
EXTENDS UdpTransport
=============================================================================
