-------------------------- MODULE SrtpReplayProofs --------------------------
(***************************************************************************)
(* Lemmas about the replay list of srtp_replay_check (SrtpReplay), shared *)
(* by the proofs about SRTP and SRTCP: what the list accepts after an     *)
(* update stays in range, and the window invariant Marked that makes the  *)
(* list refuse every index it has accepted.                                *)
(***************************************************************************)
EXTENDS SrtpReplay, TLAPS

USE ReplayWinAssumption

\* An index the replay list accepts leaves the window in range.
LEMMA ReplayShiftType ==
    ASSUME NEW l \in Nat, NEW b \in SUBSET Slots, NEW i \in Nat,
           ReplayAccepts(l, b, i)
    PROVE  /\ ReplayShift(l, b, i).lix \in Nat
           /\ ReplayShift(l, b, i).bits \in SUBSET Slots
BY DEF ReplayAccepts, ReplayShift, Slots

\* The window invariant of the replay list: every index of S is at most
\* lix and, when it lies inside the window, its slot is marked.
Marked(S, l, b) ==
    \A x \in S : x <= l /\ (l - x < ReplayWin => l - x \in b)

\* The replay list refuses every index of a set it marks, and after
\* accepting a new index still marks the set and the new index.
LEMMA ReplayFresh ==
    ASSUME NEW l \in Nat, NEW b \in SUBSET Slots, NEW i \in Nat,
           NEW S \in SUBSET Nat,
           Marked(S, l, b), ReplayAccepts(l, b, i)
    PROVE  /\ i \notin S
           /\ Marked(S \cup {i}, ReplayShift(l, b, i).lix, ReplayShift(l, b, i).bits)
<1>1. i \notin S
  BY DEF Marked, ReplayAccepts
<1>2. CASE i > l
  <2>1. ReplayShift(l, b, i) =
          [lix |-> i,
           bits |-> {0} \cup {s + (i - l) : s \in {s \in b : s + (i - l) < ReplayWin}}]
    BY <1>2 DEF ReplayShift
  <2>2. ASSUME NEW x \in S, i - x < ReplayWin
        PROVE  i - x \in {s + (i - l) : s \in {s \in b : s + (i - l) < ReplayWin}}
    <3>1. l - x \in b /\ (l - x) + (i - l) < ReplayWin
      BY <1>2, <2>2 DEF Marked
    <3>2. i - x = (l - x) + (i - l)
      BY DEF Slots
    <3>3. QED
      BY <3>1, <3>2
  <2>3. QED
    BY <1>1, <1>2, <2>1, <2>2 DEF Marked
<1>3. CASE ~(i > l)
  <2>1. ReplayShift(l, b, i) = [lix |-> l, bits |-> b \cup {l - i}]
    BY <1>3 DEF ReplayShift
  <2>2. QED
    BY <1>1, <1>3, <2>1 DEF Marked, ReplayAccepts
<1>4. QED
  BY <1>1, <1>2, <1>3
=============================================================================
