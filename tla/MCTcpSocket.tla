---------------------------- MODULE MCTcpSocket -----------------------------
(* Small instances of TcpSocket.  Two descriptors are all the transport can *)
(* hold (TwoDescriptors is checked with three); four connection identities  *)
(* are enough for two open connections and two remembered ones.             *)
EXTENDS TcpSocket
=============================================================================
