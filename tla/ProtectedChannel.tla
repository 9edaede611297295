--------------------------- MODULE ProtectedChannel ---------------------------
(***************************************************************************)
(* What the receiving side of one protected stream promises the           *)
(* application (RFC 3711 sections 3.3 and 3.4, spec 4.2 and 4.6): it hands *)
(* over packets in some order, and each one it hands over is one the      *)
(* sender protected, identified by the index the sender gave it, and is    *)
(* handed over at most once.  Loss, reordering and refusals are stutters.  *)
(*                                                                         *)
(* sentIx is the set of indices the sender has protected; delivered is the *)
(* sequence of indices the receiver has handed to the application.        *)
(***************************************************************************)
EXTENDS Naturals, Sequences

VARIABLES sentIx, delivered

vars == <<sentIx, delivered>>

Init == sentIx = {} /\ delivered = <<>>

\* The sender protects a packet under index i (which may repeat an
\* earlier index once the index space wraps).
Send == \E i \in sentIx' : sentIx' = sentIx \cup {i} /\ UNCHANGED delivered

\* The receiver hands over a packet the sender protected and has not
\* handed over before.
Receive(i) ==
    /\ i \in sentIx
    /\ \A k \in 1 .. Len(delivered) : delivered[k] # i
    /\ delivered' = Append(delivered, i)
    /\ UNCHANGED sentIx

Next == Send \/ \E i \in sentIx : Receive(i)

Spec == Init /\ [][Next]_vars
=============================================================================
