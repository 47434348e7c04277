---------------------------- MODULE MCTcpStream -----------------------------
(* Small instances of TcpStream: a ring shorter than the longest write, a   *)
(* chunk that can empty the ring, a socket that accepts less than a chunk.  *)
EXTENDS TcpStream
=============================================================================
