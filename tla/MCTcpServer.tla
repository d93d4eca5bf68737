----------------------------- MODULE MCTcpServer -----------------------------
(* TcpServer for TLC: a pool of no or of one thread.                          *)
EXTENDS TcpServer

CONSTANTS base, io

OneIoLoop == <<io>>

=============================================================================
