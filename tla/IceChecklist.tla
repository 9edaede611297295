----------------------------- MODULE IceChecklist ----------------------------
(***************************************************************************)
(* The check list of one ICE media stream (struct icem) of one agent:     *)
(* forming, ordering and pruning the candidate pairs and computing their  *)
(* initial states (src/ice/chklist.c), the connectivity checks and their  *)
(* responses, triggered checks and nomination by the STUN server          *)
(* (src/ice/stunsrv.c), and the check-list update that concludes ICE for  *)
(* every component (chklist.c).  The peer is the environment: it answers  *)
(* our checks with 2xx, 487 Role Conflict or a failure (timeout, error)   *)
(* and sends Binding requests of its own, with or without USE-CANDIDATE.  *)
(*                                                                         *)
(* Candidates are records; their list order is that of icem->lcandl and   *)
(* icem->rcandl.  Pair allocation, pair priority, the scheduler and the   *)
(* response handling are in candpair.c and conncheck.c, not in this       *)
(* repository, and are modelled from spec 4.7 and 4.9.  The 2^32 of the   *)
(* pair priority is the constant PrioBase.                                 *)
(***************************************************************************)
EXTENDS Integers, SequencesExt

CONSTANTS
    LCands,      \* icem->lcandl: [compid, af, addr, type, base, prio, fnd]
    RCands,      \* icem->rcandl: [compid, af, addr, prio, fnd]
    CompIds,     \* icem->compl: the component ids, in list order
    InitRole,    \* the role icem_alloc was given
    Tiebrk,      \* icem->tiebrk
    PeerTiebrk,  \* the tiebreaker in the peer's requests
    PrioBase,    \* 2^32: (m << 32) in ice_calc_pair_prio
    MaxInbound,  \* Binding requests the peer sends
    MaxConflicts \* 487 responses the peer sends

ASSUME IceChecklistAssumption ==
    /\ InitRole \in {"Controlling", "Controlled"}
    /\ {Tiebrk, PeerTiebrk, MaxInbound, MaxConflicts} \subseteq Nat
    /\ PrioBase \in Nat
    /\ \A c \in Range(LCands) \cup Range(RCands) : 2 * c.prio + 1 < PrioBase

Roles == {"Controlling", "Controlled"}
PairStates == {"Frozen", "Waiting", "InProgress", "Succeeded", "Failed"}
Comps == Range(CompIds)
\* Every pair the lists can form, <<lcand, rcand>>.
AllPairs == Range(LCands) \X Range(RCands)
NoPair == <<>>

VARIABLES
    clState,    \* icem->state
    checkl,     \* icem->checkl, a sequence of pairs
    pstate,     \* cp->state of each pair
    pprio,      \* cp->pprio, computed when the pair was allocated
    validl,     \* icem->validl
    nominated,  \* pairs with cp->nominated set
    lrole,      \* icem->lrole
    concluded,  \* comp->concluded
    sel,        \* comp->cp_sel
    nomSent,    \* pairs concluding_ice sent USE-CANDIDATE on
    formed,     \* the pairs candpairs_form allocated, before pruning
    nInbound,   \* Binding requests received
    nConflict   \* 487 responses received

vars == <<clState, checkl, pstate, pprio, validl, nominated, lrole,
          concluded, sel, nomSent, formed, nInbound, nConflict>>

-----------------------------------------------------------------------------
(* Priorities (src/ice/util.c, spec 4.7).                                  *)

\* ice_calc_pair_prio: 2^32*MIN(G,D) + 2*MAX(G,D) + (G>D?1:0).
ice_calc_pair_prio(g, d) ==
    PrioBase * Min({g, d}) + 2 * Max({g, d}) + (IF g > d THEN 1 ELSE 0)

\* icem_candpair_alloc: G is the controlling agent's candidate.
PairPrio(p, role) ==
    IF role = "Controlling" THEN ice_calc_pair_prio(p[1].prio, p[2].prio)
                            ELSE ice_calc_pair_prio(p[2].prio, p[1].prio)

-----------------------------------------------------------------------------
(* Forming the check list (chklist.c).                                    *)

\* The (lcand, rcand) pairs in the order of the two nested loops.
Cross == [i \in 1 .. Len(LCands) * Len(RCands) |->
            <<LCands[(i - 1) \div Len(RCands) + 1],
              RCands[((i - 1) % Len(RCands)) + 1]>>]

\* candpairs_form: same component and address family, not yet a pair.
candpairs_form ==
    SelectSeq(Cross, LAMBDA p : /\ p[1].compid = p[2].compid
                                /\ p[1].af = p[2].af
                                /\ p \notin Range(checkl)
                                /\ p \notin validl)

\* cand_srflx_addr: a server-reflexive candidate compares by its base.
cand_srflx_addr(c) == IF c.type = "srflx" THEN c.base ELSE c.addr

SamePairAddrs(p1, p2) ==
    /\ p1[1].compid = p2[1].compid
    /\ cand_srflx_addr(p1[1]) = cand_srflx_addr(p2[1])
    /\ p1[2].addr = p2[2].addr

\* Mutant: the pair with the larger priority is the one removed.
unique_handler_inverted(p1, p2, prio) ==
    IF ~SamePairAddrs(p1, p2) THEN "none"
    ELSE IF prio[p1] > prio[p2] THEN "first" ELSE "second"

\* unique_handler: which of two duplicates to remove, or none.
unique_handler(p1, p2, prio) ==
    IF ~SamePairAddrs(p1, p2) THEN "none"
    ELSE IF prio[p1] < prio[p2] THEN "first" ELSE "second"

\* ice_list_unique: le1 walks the list up to its tail; le2 scans the
\* elements after it, removing each one the handler names, until the
\* handler names le1 itself, which is then removed.
ice_list_unique(s, prio) ==
    LET scan[x \in Seq(AllPairs) \X Nat \X Nat] ==
            LET l == x[1]  i == x[2]  j == x[3]
                h == unique_handler(l[i], l[j], prio)
            IN  IF i >= Len(l) THEN l
                ELSE IF j > Len(l) THEN scan[<<l, i + 1, i + 2>>]
                ELSE IF h = "none"   THEN scan[<<l, i, j + 1>>]
                ELSE IF h = "second" THEN scan[<<RemoveAt(l, j), i, j>>]
                ELSE scan[<<RemoveAt(l, i), i, i + 1>>]
    IN  scan[<<s, 1, 2>>]

\* icem_candpair_cmp_fnd: both candidates have the same foundations.
SameFoundation(p1, p2) == p1[1].fnd = p2[1].fnd /\ p1[2].fnd = p2[2].fnd

\* ice_candpair_set_states, inner loop: starting from cp, take every later
\* pair of the foundation with a lower component id AND a higher priority.
WaitingFor(s, k, prio) ==
    FoldLeft(LAMBDA cp, cp2 :
                IF SameFoundation(cp, cp2) /\ cp2[1].compid < cp[1].compid
                   /\ prio[cp2] > prio[cp] THEN cp2 ELSE cp,
             s[k], s)

ice_candpair_set_states(s, prio) == {WaitingFor(s, k, prio) : k \in 1 .. Len(s)}

-----------------------------------------------------------------------------
Init ==
    /\ clState = "Null"
    /\ checkl = <<>>
    /\ pstate = [p \in AllPairs |-> "Frozen"]
    /\ pprio = [p \in AllPairs |-> 0]
    /\ validl = {}
    /\ nominated = {}
    /\ lrole = InitRole
    /\ concluded = [c \in Comps |-> FALSE]
    /\ sel = [c \in Comps |-> NoPair]
    /\ nomSent = {}
    /\ formed = <<>>
    /\ nInbound = 0
    /\ nConflict = 0

\* icem_conncheck_start: icem_checklist_form (candpairs_form, sort by
\* priority, prune), state Running, ice_candpair_set_states.  Either
\* candidate list empty: ENOENT and nothing changes.
ConncheckStart ==
    /\ clState = "Null"
    /\ LCands # <<>> /\ RCands # <<>>
    /\ LET new    == candpairs_form
           prio   == [p \in AllPairs |->
                        IF p \in Range(new) THEN PairPrio(p, lrole) ELSE pprio[p]]
           sorted == SortSeq(checkl \o new, LAMBDA a, b : prio[a] >= prio[b])
           pruned == ice_list_unique(sorted, prio)
           waiting == ice_candpair_set_states(pruned, prio)
       IN  /\ formed' = new
           /\ pprio' = prio
           /\ checkl' = pruned
           /\ pstate' = [p \in AllPairs |-> IF p \in waiting THEN "Waiting" ELSE pstate[p]]
    /\ clState' = "Running"
    /\ UNCHANGED <<validl, nominated, lrole, concluded, sel, nomSent,
                   nInbound, nConflict>>

-----------------------------------------------------------------------------
(* Connectivity checks (spec 4.9) and the check-list update (chklist.c).  *)

\* icem_conncheck_schedule_check: the first (highest-priority) Waiting pair
\* of the check list, else the first Frozen one, goes In-Progress.
ScheduleCheck ==
    /\ \E i \in 1 .. Len(checkl) :
          LET st(j) == pstate[checkl[j]]
              first(x) == st(i) = x /\ \A j \in 1 .. i - 1 : st(j) # x
          IN  /\ \/ first("Waiting")
                 \/ first("Frozen") /\ \A j \in 1 .. Len(checkl) : st(j) # "Waiting"
              /\ pstate' = [pstate EXCEPT ![checkl[i]] = "InProgress"]
    /\ UNCHANGED <<clState, checkl, pprio, validl, nominated, lrole, concluded,
                   sel, nomSent, formed, nInbound, nConflict>>

\* Mutant: a Failed pair keeps the check list from completing.
iscompleted_succeeded_only(ps) ==
    \A i \in 1 .. Len(checkl) : ps[checkl[i]] = "Succeeded"

\* iscompleted: every pair of the check list is Succeeded or Failed.
iscompleted(ps) ==
    \A i \in 1 .. Len(checkl) : ps[checkl[i]] \in {"Succeeded", "Failed"}

\* icem_candpair_find_st(&validl, compid, SUCCEEDED): the valid list is
\* ordered by pprio, so the Succeeded pair of the component with the
\* highest stored priority.
BestValid(vl, ps, c) ==
    LET S == {p \in vl : p[1].compid = c /\ ps[p] = "Succeeded"}
    IN  {p \in S : \A q \in S : pprio[q] <= pprio[p]}

\* Mutant: concluding_ice without its comp->concluded check.
concluding_ice_unguarded(c, vl, ps) == BestValid(vl, ps, c) # {}

\* concluding_ice runs to the end: the component has not concluded and
\* has a Succeeded pair in the valid list.
concluding_ice(c, vl, ps) == ~concluded[c] /\ BestValid(vl, ps, c) # {}

\* The components icem_checklist_update visits: those before the first
\* one without a valid pair, where the loop breaks with ENOENT.
Visited(vl) ==
    LET missing == {i \in 1 .. Len(CompIds) :
                      ~\E p \in vl : p[1].compid = CompIds[i]}
        stop == IF missing = {} THEN Len(CompIds) + 1 ELSE Min(missing)
    IN  [found |-> missing = {}, comps |-> {CompIds[i] : i \in 1 .. stop - 1}]

\* icem_checklist_update over the state the handler left (ps, vl, role):
\* nothing unless the check list is complete; concluding_ice for every
\* visited component: select the best pair and send a check on it with
\* icem_conncheck_send (In-Progress, as in triggered_check), carrying
\* USE-CANDIDATE when Controlling; then icem_conncheck_schedule_check,
\* which finds no Waiting or Frozen pair in a complete check list; state
\* Completed, or Failed when a component has no valid pair.
icem_checklist_update(ps, vl, role) ==
    IF ~iscompleted(ps)
    THEN /\ pstate' = ps
         /\ UNCHANGED <<clState, concluded, sel, nomSent>>
    ELSE LET v      == Visited(vl)
             new    == {c \in v.comps : concluding_ice(c, vl, ps)}
             pick(c) == CHOOSE p \in BestValid(vl, ps, c) : TRUE
             picked == {pick(c) : c \in new}
         IN  /\ sel' = [c \in Comps |-> IF c \in new THEN pick(c) ELSE sel[c]]
             /\ concluded' = [c \in Comps |-> concluded[c] \/ c \in new]
             /\ pstate' = [p \in AllPairs |-> IF p \in picked THEN "InProgress" ELSE ps[p]]
             /\ nomSent' = IF role = "Controlling" THEN nomSent \cup picked ELSE nomSent
             /\ clState' = IF v.found THEN "Completed" ELSE "Failed"

\* Mutant: Controlling becomes ICE_ROLE_UNKNOWN instead of Controlled.
SwitchLocalRoleUnknown(r) ==
    IF r = "Controlling" THEN "Unknown" ELSE "Controlling"

\* ice_switch_local_role; pair priorities are not recomputed (#if 0).
ice_switch_local_role(r) ==
    IF r = "Controlling" THEN "Controlled" ELSE "Controlling"

\* The response to the check on pair p, which only an In-Progress pair
\* has (conncheck.c, spec 4.9): a 2xx makes it Succeeded and valid; a 487
\* switches the local role and the check is sent again; an error or a
\* timeout makes it Failed.  The handler ends with icem_checklist_update.
Respond(p) ==
    /\ pstate[p] = "InProgress"
    /\ \/ /\ validl' = validl \cup {p}
          /\ UNCHANGED <<lrole, nConflict>>
          /\ icem_checklist_update([pstate EXCEPT ![p] = "Succeeded"],
                                   validl \cup {p}, lrole)
       \/ /\ nConflict < MaxConflicts
          /\ nConflict' = nConflict + 1
          /\ lrole' = ice_switch_local_role(lrole)
          /\ UNCHANGED validl
          /\ icem_checklist_update(pstate, validl, lrole')
       \/ /\ UNCHANGED <<validl, lrole, nConflict>>
          /\ icem_checklist_update([pstate EXCEPT ![p] = "Failed"], validl, lrole)
    /\ UNCHANGED <<checkl, pprio, nominated, formed, nInbound>>

-----------------------------------------------------------------------------
(* The STUN server (stunsrv.c).                                           *)

\* icem->tiebrk >= tiebrk: the server switches its own role.
SwitchesOnConflict(ltb, rtb) == ltb >= rtb

\* icem_candpair_find_rcand: the first pair of the check list with rcand.
FindRcand(r) == LET i == SelectInSeq(checkl, LAMBDA p : p[2] = r)
                IN  IF i = 0 THEN NoPair ELSE checkl[i]

\* icem_lcand_find_checklist: the local candidate of the first pair of
\* the component in the check list.
FindLcand(c) == LET i == SelectInSeq(checkl, LAMBDA p : p[1].compid = c)
                IN  IF i = 0 THEN NoPair ELSE checkl[i][1]

\* triggered_check: a Failed pair goes Waiting, and a Frozen or Waiting
\* pair is checked at once (In-Progress); In-Progress and Succeeded pairs
\* are left alone.
triggered_check(cp) ==
    IF cp \in Range(checkl) /\ pstate[cp] \in {"Failed", "Frozen", "Waiting"}
    THEN [pstate EXCEPT ![cp] = "InProgress"]
    ELSE pstate

\* handle_stun_full for a request from remote candidate r: find the local
\* candidate, run the triggered check, and set the nominated flag when
\* USE-CANDIDATE is present, we are Controlled and the pair Succeeded.
handle_stun_full(r, useCand, role) ==
    LET cp0   == FindRcand(r)
        lcand == IF cp0 # NoPair THEN cp0[1] ELSE FindLcand(r.compid)
        ps    == triggered_check(<<lcand, r>>)
    IN  /\ pstate' = IF lcand = NoPair THEN pstate ELSE ps
        /\ nominated' = IF /\ lcand # NoPair /\ cp0 # NoPair
                           /\ useCand /\ role = "Controlled"
                           /\ ps[cp0] = "Succeeded"
                        THEN nominated \cup {cp0} ELSE nominated

\* icem_stund_recv of an authenticated Binding request from remote
\* candidate r claiming role rrole: a role conflict is resolved first
\* (switch, or 487 and nothing else); then handle_stun_full, then 2xx.
icem_stund_recv(r, rrole, useCand) ==
    /\ nInbound < MaxInbound
    /\ nInbound' = nInbound + 1
    /\ LET conflict == rrole = lrole
           switch   == conflict /\ SwitchesOnConflict(Tiebrk, PeerTiebrk)
       IN  /\ lrole' = IF switch THEN ice_switch_local_role(lrole) ELSE lrole
           /\ IF conflict /\ ~switch
              THEN UNCHANGED <<pstate, nominated>>
              ELSE handle_stun_full(r, useCand, lrole')
    /\ UNCHANGED <<clState, checkl, pprio, validl, concluded, sel, nomSent,
                   formed, nConflict>>

Next ==
    \/ ConncheckStart
    \/ ScheduleCheck
    \/ \E p \in AllPairs : Respond(p)
    \/ \E r \in Range(RCands), rr \in Roles, u \in BOOLEAN : icem_stund_recv(r, rr, u)

\* The application starts the checks; the pacing timer runs the
\* scheduler; every STUN transaction ends, with a response or a timeout.
Fairness ==
    /\ WF_vars(ConncheckStart)
    /\ WF_vars(ScheduleCheck)
    /\ \A p \in AllPairs : WF_vars(Respond(p))

Spec == Init /\ [][Next]_vars /\ Fairness

-----------------------------------------------------------------------------
TypeOK ==
    /\ clState \in {"Null", "Running", "Completed", "Failed"}
    /\ checkl \in Seq(AllPairs)
    /\ pstate \in [AllPairs -> PairStates]
    /\ pprio \in [AllPairs -> Nat]
    /\ validl \subseteq AllPairs /\ nominated \subseteq AllPairs
    /\ lrole \in Roles
    /\ concluded \in [Comps -> BOOLEAN]
    /\ sel \in [Comps -> AllPairs \cup {NoPair}]
    /\ nomSent \subseteq AllPairs
    /\ formed \in Seq(AllPairs)
    /\ nInbound \in 0 .. MaxInbound /\ nConflict \in 0 .. MaxConflicts

\* Spec 4.8 step 3 and spec 8 ("pruning removes exactly the lower-priority
\* member of any duplicate group"): after icem_checklist_form, every pair
\* candpairs_form allocated has a duplicate (same component, local base
\* address, remote address) of at least its priority in the check list,
\* and no two pairs of the check list are duplicates.
PruneKeepsBest ==
    clState # "Null" =>
        /\ \A i \in 1 .. Len(formed) :
              \E j \in 1 .. Len(checkl) :
                  SamePairAddrs(formed[i], checkl[j])
                  /\ pprio[checkl[j]] >= pprio[formed[i]]
        /\ \A i, j \in 1 .. Len(checkl) :
              i # j => ~SamePairAddrs(checkl[i], checkl[j])

\* Spec 8 ("calling conclusion twice on a component is a no-op after the
\* first success"): once icem_checklist_update has selected a pair for a
\* component, later updates, after triggered checks have made other pairs
\* succeed, never select another one.
SelectedStable ==
    [][\A c \in Comps : sel[c] # NoPair => sel'[c] = sel[c]]_vars

\* Spec 4.11: ICE processing concludes.  When every STUN transaction ends
\* and the scheduler keeps running, the check list reaches Completed or
\* Failed, whatever the peer answers.
Concludes ==
    <>(clState \in {"Completed", "Failed"})

\* Spec 4.11: "If any component has no pair in the valid list, state =
\* Failed.  Otherwise, for each component ... pick ... and nominate": a
\* check list that failed has concluded (selected and nominated) no
\* component.
FailedConcludesNothing ==
    clState = "Failed" => \A c \in Comps : ~concluded[c]

\* Spec 4.7 and 4.11: the selected pair is the highest-priority Succeeded
\* pair of the component, priorities being those of the current role
\* ("recomputed when the local role flips").
SelectedBest ==
    [][\A c \in Comps :
         sel'[c] # sel[c] =>
            \A q \in validl' :
               q[1].compid = c /\ pstate'[q] = "Succeeded" =>
                  PairPrio(q, lrole') <= PairPrio(sel'[c], lrole')]_vars
=============================================================================
