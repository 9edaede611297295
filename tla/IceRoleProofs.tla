---------------------------- MODULE IceRoleProofs ----------------------------
(***************************************************************************)
(* Type correctness of IceRole for any two agents, any tiebreakers and    *)
(* any number of checks.  TypeOK is inductive on its own: every handler   *)
(* builds its messages from a message in flight or from Request.          *)
(***************************************************************************)
EXTENDS IceRole, TLAPS

USE IceRoleAssumption

\* ice_switch_local_role gives a role.
LEMMA SwitchType ==
    ASSUME NEW r
    PROVE  ice_switch_local_role(r) \in Roles
BY DEF ice_switch_local_role, Roles

\* A request carries the check number, its sender and a role.
LEMMA RequestType ==
    ASSUME NEW a \in Agents, NEW k \in Checks, NEW r \in Roles
    PROVE  Request(a, k, r) \in Msg
BY DEF Request, Msg

\* The response icem_stund_recv puts in place of a request is a message.
LEMMA ResponseType ==
    ASSUME NEW m \in Msg, NEW x \in {"req", "2xx", "487"}
    PROVE  [m EXCEPT !.kind = x] \in Msg
BY DEF Msg

-----------------------------------------------------------------------------
LEMMA InitType == Init => TypeOK
BY DEF Init, TypeOK, Checks

LEMMA SendCheckType ==
    ASSUME TypeOK, NEW a \in Agents, SendCheck(a)
    PROVE  TypeOK'
<1>1. nSent[a] + 1 \in Checks /\ lrole[a] \in Roles
  BY DEF TypeOK, SendCheck, Checks
<1>2. Request(a, nSent[a] + 1, lrole[a]) \in Msg
  BY <1>1, RequestType
<1>3. QED
  BY <1>1, <1>2 DEF TypeOK, SendCheck, Checks

LEMMA StundRecvType ==
    ASSUME TypeOK, NEW a \in Agents, NEW m \in net, icem_stund_recv(a, m)
    PROVE  TypeOK'
<1>1. m \in Msg
  BY DEF TypeOK
<1>2. PICK x \in {"req", "2xx", "487"} :
        net' = (net \ {m}) \cup {[m EXCEPT !.kind = x]}
  BY DEF icem_stund_recv
<1>3. [m EXCEPT !.kind = x] \in Msg
  BY <1>1, ResponseType
<1>4. lrole' \in [Agents -> Roles]
  BY SwitchType DEF icem_stund_recv, TypeOK
<1>5. QED
  BY <1>2, <1>3, <1>4 DEF icem_stund_recv, TypeOK

LEMMA Recv487Type ==
    ASSUME TypeOK, NEW a \in Agents, NEW m \in net, Recv487(a, m)
    PROVE  TypeOK'
<1>1. m.k \in Checks
  BY DEF TypeOK, Msg
<1>2. lrole' \in [Agents -> Roles]
  BY SwitchType DEF Recv487, TypeOK
<1>3. Request(a, m.k, lrole'[a]) \in Msg
  BY <1>1, <1>2, RequestType
<1>4. QED
  BY <1>2, <1>3 DEF Recv487, TypeOK

LEMMA Recv2xxType ==
    ASSUME TypeOK, NEW a \in Agents, NEW m \in net, Recv2xx(a, m)
    PROVE  TypeOK'
<1>1. m.k \in Checks
  BY DEF TypeOK, Msg
<1>2. QED
  BY <1>1 DEF Recv2xx, TypeOK

LEMMA NextType ==
    ASSUME TypeOK, [Next]_vars
    PROVE  TypeOK'
<1>1. CASE \E a \in Agents : SendCheck(a)
  BY <1>1, SendCheckType
<1>2. CASE \E a \in Agents, m \in net : icem_stund_recv(a, m)
  BY <1>2, StundRecvType
<1>3. CASE \E a \in Agents, m \in net : Recv487(a, m)
  BY <1>3, Recv487Type
<1>4. CASE \E a \in Agents, m \in net : Recv2xx(a, m)
  BY <1>4, Recv2xxType
<1>5. CASE UNCHANGED vars
  BY <1>5 DEF TypeOK, vars
<1>6. QED
  BY <1>1, <1>2, <1>3, <1>4, <1>5 DEF Next

-----------------------------------------------------------------------------
\* Type correctness of the role-conflict exchange: roles stay Controlling
\* or Controlled (ice_switch_local_role never yields ICE_ROLE_UNKNOWN, also
\* when the 487 handling takes the role opposite to the request's), every
\* message is a request or a response of a started check, and no agent
\* starts more than MaxChecks checks.
THEOREM TypeCorrect == Spec => []TypeOK
<1>1. Init => TypeOK
  BY InitType
<1>2. TypeOK /\ [Next]_vars => TypeOK'
  BY NextType
<1>3. QED
  BY <1>1, <1>2, PTL DEF Spec
=============================================================================
