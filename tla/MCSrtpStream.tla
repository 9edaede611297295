---------------------------- MODULE MCSrtpStream ----------------------------
(* Small instances of SrtpStream for TLC: an 8-value sequence space (so   *)
(* that a stream rolls over within a few packets), a 2-slot replay window *)
(* and a network that delays a packet by at most 3 packets, more than the *)
(* window so that the "too old" branch of the replay check is reached.    *)
EXTENDS SrtpStream

MCSeqSpace == 8
MCRocSpace == 4
MCReplayWin == 2
MCMaxReorder == 3
MCMaxSend == 10
=============================================================================
