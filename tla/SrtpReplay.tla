----------------------------- MODULE SrtpReplay -----------------------------
(***************************************************************************)
(* The SRTP/SRTCP replay list (spec 4.2): a bitmap of ReplayWin slots and  *)
(* the highest index accepted, lix.  srtp_decrypt keeps one per stream    *)
(* for RTP (replay_rtp), srtcp_decrypt another for RTCP (replay_rtcp).    *)
(* The bitmap is the set of offsets below lix whose index has been seen;  *)
(* shifting it left by d moves every offset up by d and drops those that  *)
(* leave the window.                                                       *)
(***************************************************************************)
EXTENDS Integers

CONSTANT ReplayWin   \* 64: slots of the replay bitmap

ASSUME ReplayWinAssumption == ReplayWin \in Nat \ {0}

Slots == 0 .. ReplayWin - 1

\* srtp_replay_check: is index i new to the window (lix, bits)?
ReplayAccepts(l, b, i) ==
    \/ i > l
    \/ i < l /\ l - i < ReplayWin /\ (l - i) \notin b

\* Mutant: the shifted bitmap keeps the bits shifted past the window.
ReplayShiftNoTruncate(l, b, i) ==
    IF i > l
    THEN [lix |-> i, bits |-> {0} \cup {s + (i - l) : s \in b}]
    ELSE [lix |-> l, bits |-> b \cup {l - i}]

\* srtp_replay_check: the window after accepting index i.
ReplayShift(l, b, i) ==
    IF i > l
    THEN [lix |-> i,
          bits |-> {0} \cup {s + (i - l) : s \in {s \in b : s + (i - l) < ReplayWin}}]
    ELSE [lix |-> l, bits |-> b \cup {l - i}]

=============================================================================
