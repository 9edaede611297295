------------------------------- MODULE IceRole -------------------------------
(***************************************************************************)
(* Role-conflict resolution between two ICE agents (RFC 5245 7.1.3.1,     *)
(* 7.2.1.1): the server side is icem_stund_recv, src/ice/stunsrv.c, with  *)
(* ice_switch_local_role, src/ice/util.c; the client side, which sends    *)
(* connectivity checks and handles a 487 response, is not in this         *)
(* repository and is modelled from spec 4.9.                              *)
(*                                                                         *)
(* Every connectivity check k of agent a is one STUN transaction: a       *)
(* Binding request carrying a's role and tiebreaker at the time it was    *)
(* sent, then a 2xx or a 487 response.  A 487 makes the client switch its *)
(* role and send the check again.  STUN retransmits until answered, so    *)
(* no message is lost; messages of different checks are delivered in any *)
(* order.  Fingerprint, integrity and username checks are left out: the   *)
(* requests between the two agents pass them.                             *)
(***************************************************************************)
EXTENDS Naturals, FiniteSets

CONSTANTS
    Agents,     \* the two ICE agents
    Tiebrk,     \* icem->tiebrk of each agent: a function Agents -> Nat
    MaxChecks   \* connectivity checks each agent sends

ASSUME IceRoleAssumption ==
    /\ Cardinality(Agents) = 2
    /\ Tiebrk \in [Agents -> Nat]
    /\ MaxChecks \in Nat \ {0}

Roles == {"Controlling", "Controlled"}
Checks == 1 .. MaxChecks

Other(a) == CHOOSE b \in Agents : b # a

\* A message of check k of client `from`: the request (with the role and
\* tiebreaker it carries) or the server's response to it.
Msg == [kind : {"req", "2xx", "487"}, from : Agents, k : Checks,
        role : Roles, tb : Nat]

VARIABLES
    lrole,   \* icem->lrole of each agent
    net,     \* messages in flight
    nSent,   \* checks each agent has started
    done     \* checks of each agent that got a 2xx response

vars == <<lrole, net, nSent, done>>

-----------------------------------------------------------------------------
\* Mutant: the role is left as it is.
SwitchLocalRoleStuck(r) == r

\* Mutant: Controlling becomes ICE_ROLE_UNKNOWN instead of Controlled.
SwitchLocalRoleUnknown(r) ==
    IF r = "Controlling" THEN "Unknown" ELSE "Controlling"

\* ice_switch_local_role: Controlling becomes Controlled, anything else
\* becomes Controlling.  Pair priorities are not recomputed (#if 0).
ice_switch_local_role(r) ==
    IF r = "Controlling" THEN "Controlled" ELSE "Controlling"

\* icem->tiebrk >= tiebrk: the server switches its own role.
SwitchesOnConflict(ltb, rtb) == ltb >= rtb

Request(a, k, r) ==
    [kind |-> "req", from |-> a, k |-> k, role |-> r, tb |-> Tiebrk[a]]

Init ==
    /\ lrole \in [Agents -> Roles]
    /\ net = {}
    /\ nSent = [a \in Agents |-> 0]
    /\ done = [a \in Agents |-> {}]

\* icem_conncheck_send (spec 4.9): agent a starts its next check with
\* ICE-CONTROLLING or ICE-CONTROLLED and its tiebreaker.
SendCheck(a) ==
    /\ nSent[a] < MaxChecks
    /\ nSent' = [nSent EXCEPT ![a] = @ + 1]
    /\ net' = net \cup {Request(a, nSent[a] + 1, lrole[a])}
    /\ UNCHANGED <<lrole, done>>

\* icem_stund_recv at agent a: a request in a's own role is a conflict;
\* a switches role when its tiebreaker is larger or equal and answers 2xx,
\* and answers 487 otherwise.
icem_stund_recv(a, m) ==
    /\ m.kind = "req" /\ m.from = Other(a)
    /\ LET same   == m.role = lrole[a]
           switch == same /\ SwitchesOnConflict(Tiebrk[a], m.tb)
       IN  /\ lrole' = IF switch
                       THEN [lrole EXCEPT ![a] = ice_switch_local_role(@)]
                       ELSE lrole
           /\ net' = (net \ {m}) \cup
                     {[m EXCEPT !.kind = IF same /\ ~switch THEN "487" ELSE "2xx"]}
    /\ UNCHANGED <<nSent, done>>

\* The client's 487 handling (spec 4.9, RFC 5245 7.1.3.1): take the role
\* opposite to the one the request carried (a flip, unless the role has
\* changed since the request was sent) and send the check again with it.
Recv487(a, m) ==
    /\ m.kind = "487" /\ m.from = a
    /\ lrole' = [lrole EXCEPT ![a] = ice_switch_local_role(m.role)]
    /\ net' = (net \ {m}) \cup {Request(a, m.k, lrole'[a])}
    /\ UNCHANGED <<nSent, done>>

\* A 2xx response ends the check.
Recv2xx(a, m) ==
    /\ m.kind = "2xx" /\ m.from = a
    /\ net' = net \ {m}
    /\ done' = [done EXCEPT ![a] = @ \cup {m.k}]
    /\ UNCHANGED <<lrole, nSent>>

Next ==
    \E a \in Agents :
        \/ SendCheck(a)
        \/ \E m \in net : icem_stund_recv(a, m) \/ Recv487(a, m) \/ Recv2xx(a, m)

\* The reactor handles every datagram that arrives and STUN retransmits
\* until a response comes, so every message in flight is eventually
\* handled; the check scheduler's timer eventually starts every check.
Fairness ==
    \A a \in Agents :
        /\ WF_vars(SendCheck(a))
        /\ WF_vars(\E m \in net : icem_stund_recv(a, m))
        /\ WF_vars(\E m \in net : Recv487(a, m))
        /\ WF_vars(\E m \in net : Recv2xx(a, m))

Spec == Init /\ [][Next]_vars /\ Fairness

-----------------------------------------------------------------------------
TypeOK ==
    /\ lrole \in [Agents -> Roles]
    /\ net \subseteq Msg
    /\ nSent \in [Agents -> 0 .. MaxChecks]
    /\ done \in [Agents -> SUBSET Checks]

\* Spec 8 ("Role conflict"): whatever roles the two agents start in, the
\* exchange of checks between them ends with one Controlling and one
\* Controlled agent, and they stay so.
RolesSettle ==
    <>[](\A a \in Agents : lrole[a] # lrole[Other(a)])

\* Spec 8 ("the checklist progresses"): every check of both agents
\* eventually succeeds; 487 responses do not make a check run forever.
ChecksComplete ==
    <>(\A a \in Agents : done[a] = Checks)

\* RFC 5245 7.2.1.1: of two agents that claim the same role, the one
\* with the larger tiebreaker ends up Controlling.  Whether through
\* icem_stund_recv or through a 487 response, an agent gives up the
\* Controlling role only when its tiebreaker is smaller than its peer's,
\* and takes it only when its tiebreaker is at least its peer's.
LargerTiebreakerControls ==
    [][\A a \in Agents :
         /\ lrole[a] = "Controlling" /\ lrole'[a] = "Controlled"
               => Tiebrk[a] < Tiebrk[Other(a)]
         /\ lrole[a] = "Controlled" /\ lrole'[a] = "Controlling"
               => Tiebrk[a] >= Tiebrk[Other(a)]]_vars
=============================================================================
