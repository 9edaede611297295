--------------------------- MODULE MCIceChecklist ----------------------------
(* Candidate lists for model checking IceChecklist: scenario 5 of the     *)
(* spec (a host and a server-reflexive candidate with the host as base)   *)
(* for component 1, a host candidate for component 2, and a remote        *)
(* candidate of another address family.                                    *)
EXTENDS IceChecklist

Host(c, a, p, f)     == [compid |-> c, af |-> 4, addr |-> a, type |-> "host",
                         base |-> a, prio |-> p, fnd |-> f]
Srflx(c, a, b, p, f) == [compid |-> c, af |-> 4, addr |-> a, type |-> "srflx",
                         base |-> b, prio |-> p, fnd |-> f]
Remote(c, af, a, p, f) == [compid |-> c, af |-> af, addr |-> a, prio |-> p, fnd |-> f]

MCLCands == <<Host(1, "a1", 6, "f1"), Srflx(1, "x1", "a1", 2, "f2"),
              Host(2, "a2", 5, "f1")>>
MCRCands == <<Remote(1, 4, "b1", 6, "g1"), Remote(1, 4, "b2", 3, "g2"),
              Remote(2, 4, "b3", 5, "g1"), Remote(1, 6, "c1", 4, "g3")>>
MCCompIds == <<1, 2>>

\* Local and remote priorities {5, 3} on both sides: the pairs (5, 3) and
\* (3, 5) differ only in the G>D bit, which a role switch flips.
MCLCandsSwap == <<Host(1, "a1", 5, "f1"), Host(1, "a3", 3, "f1")>>
MCRCandsSwap == <<Remote(1, 4, "b1", 3, "g1"), Remote(1, 4, "b2", 5, "g2")>>
MCCompIdsOne == <<1>>
=============================================================================
