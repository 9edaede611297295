---------------------------- MODULE MCSrtcpStream ---------------------------
(* Small instances of SrtcpStream: a 2-slot replay window and an index    *)
(* space larger than the packets sent.                                     *)
EXTENDS SrtcpStream

MCReplayWin == 2
MCIndexSpace == 8
MCMaxSend == 4
=============================================================================
