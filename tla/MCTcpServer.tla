---------------------------- MODULE MCTcpServer ----------------------------
(***************************************************************************)
(* The TLC instance of TcpServer: two peers, two requesters.               *)
(***************************************************************************)
EXTENDS TcpServer

CONSTANTS p1, p2, s1, s2

MCPeers   == {p1, p2}
MCSenders == {s1, s2}
============================================================================
