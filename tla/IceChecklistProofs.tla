-------------------------- MODULE IceChecklistProofs --------------------------
(***************************************************************************)
(* Proofs about IceChecklist for any candidate lists, roles and bounds:   *)
(* icem_checklist_update never replaces the pair it selected for a        *)
(* component (SelectedStable).  It rests on a component having a selected *)
(* pair only once it has concluded, which concluding_ice checks before it *)
(* selects, whatever the response handler left in the pair states (the    *)
(* selected pair itself is checked again and may fail).                  *)
(***************************************************************************)
EXTENDS IceChecklist, TLAPS

\* A component with a selected pair (comp->cp_sel) has concluded.
SelConcluded ==
    /\ concluded \in [Comps -> BOOLEAN]
    /\ \A c \in Comps : sel[c] # NoPair => concluded[c] = TRUE

\* The step of a selected pair: it stays.
SelKept == \A c \in Comps : sel[c] # NoPair => sel'[c] = sel[c]

LEMMA InitSel == Init => SelConcluded
BY DEF Init, SelConcluded

\* icem_checklist_update, over whatever state the response handler left,
\* keeps SelConcluded and every selected pair.
LEMMA UpdateSel ==
    ASSUME SelConcluded, NEW ps, NEW vl, NEW role,
           icem_checklist_update(ps, vl, role)
    PROVE  SelConcluded' /\ SelKept
<1>1. CASE ~iscompleted(ps)
  BY <1>1 DEF icem_checklist_update, SelConcluded, SelKept
<1>2. CASE iscompleted(ps)
  <2> DEFINE new == {c \in Visited(vl).comps : concluding_ice(c, vl, ps)}
             pick(c) == CHOOSE q \in BestValid(vl, ps, c) : TRUE
  <2>1. /\ sel' = [c \in Comps |-> IF c \in new THEN pick(c) ELSE sel[c]]
        /\ concluded' = [c \in Comps |-> concluded[c] \/ c \in new]
    BY <1>2 DEF icem_checklist_update
  <2>2. \A c \in new : concluded[c] = FALSE
    BY DEF concluding_ice, SelConcluded
  <2>3. SelConcluded'
    BY <2>1 DEF SelConcluded
  <2>4. SelKept
    BY <2>1, <2>2 DEF SelConcluded, SelKept
  <2>5. QED
    BY <2>3, <2>4
<1>3. QED
  BY <1>1, <1>2

\* Every outcome of the response handler ends with icem_checklist_update.
LEMMA RespondSel ==
    ASSUME SelConcluded, NEW p, Respond(p)
    PROVE  SelConcluded' /\ SelKept
<1>1. \E ps, vl, role : icem_checklist_update(ps, vl, role)
  BY DEF Respond
<1>2. QED
  BY <1>1, UpdateSel

\* Every step keeps SelConcluded and every selected pair.
LEMMA NextSel ==
    ASSUME SelConcluded, [Next]_vars
    PROVE  SelConcluded' /\ SelKept
<1>1. CASE ConncheckStart
  BY <1>1 DEF ConncheckStart, SelConcluded, SelKept
<1>2. CASE ScheduleCheck
  BY <1>2 DEF ScheduleCheck, SelConcluded, SelKept
<1>3. CASE \E p \in AllPairs : Respond(p)
  BY <1>3, RespondSel
<1>4. CASE \E r \in Range(RCands), rr \in Roles, u \in BOOLEAN :
              icem_stund_recv(r, rr, u)
  BY <1>4 DEF icem_stund_recv, SelConcluded, SelKept
<1>5. CASE UNCHANGED vars
  BY <1>5 DEF vars, SelConcluded, SelKept
<1>6. QED
  BY <1>1, <1>2, <1>3, <1>4, <1>5 DEF Next

-----------------------------------------------------------------------------
\* Spec 8, conclusion is a no-op after the first success: for any candidate
\* lists, once icem_checklist_update has selected a pair for a component,
\* no later response, triggered check or role switch makes it select
\* another, because concluding_ice skips a concluded component.
THEOREM SelectionFinal == Spec => SelectedStable
<1>1. Init => SelConcluded
  BY InitSel
<1>2. SelConcluded /\ [Next]_vars => SelConcluded' /\ SelKept
  BY NextSel
<1>3. QED
  BY <1>1, <1>2, PTL DEF Spec, SelectedStable, SelKept
=============================================================================
