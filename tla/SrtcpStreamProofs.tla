------------------------- MODULE SrtcpStreamProofs --------------------------
(***************************************************************************)
(* Proofs about SrtcpStream for every value of the constants: the type    *)
(* invariant in every mode, and, for the AES-CM + HMAC suites, that       *)
(* srtcp_decrypt accepts only the sender's packets and each at most once  *)
(* (OnlyAuthentic, NoReplay), whatever the index space, the window, the   *)
(* network and the attacker.                                              *)
(***************************************************************************)
EXTENDS SrtcpStream, SrtpReplayProofs, SequenceTheorems, TLAPS

USE ModeAssumption, SrtcpBoundsAssumption, ReplayWinAssumption

-----------------------------------------------------------------------------
(* srtcp_decrypt unfolded.                                                 *)

\* The result srtcp_decrypt returns for packet p.
Res(p) ==
    IF HasHmac /\ ~TagVerified(p) THEN "EAUTH"
    ELSE IF HasHmac /\ ~ReplayAccepts(lix, bits, p.ix) THEN "EALREADY"
    ELSE IF GcmBranch(p) /\ ~p.genuine THEN "EAUTH"
    ELSE "ok"

\* srtcp_decrypt: the result, the replay list update and the log.
LEMMA DecryptCases ==
    ASSUME NEW p, srtcp_decrypt(p)
    PROVE  /\ rHas' = TRUE
           /\ rLast' = [pkt |-> p, res |-> Res(p)]
           /\ HasHmac /\ Res(p) = "ok" =>
                 /\ lix' = ReplayShift(lix, bits, p.ix).lix
                 /\ bits' = ReplayShift(lix, bits, p.ix).bits
           /\ ~(HasHmac /\ Res(p) = "ok") => UNCHANGED <<lix, bits>>
           /\ accepted' = IF Res(p) = "ok" THEN Append(accepted, p) ELSE accepted
BY DEF srtcp_decrypt, Res, ReplayProtected

-----------------------------------------------------------------------------
(* Type correctness.                                                       *)

\* The receiver's state stays in range whatever srtcp_decrypt is given.
LEMMA DecryptType ==
    ASSUME TypeOK, NEW p \in Packet, srtcp_decrypt(p)
    PROVE  /\ rHas' \in BOOLEAN /\ lix' \in Nat /\ bits' \subseteq Slots
           /\ accepted' \in Seq(Packet)
           /\ rLast' \in {<<>>} \cup [pkt : Packet, res : Results]
<1> USE DEF TypeOK
<1>1. rLast' \in [pkt : Packet, res : Results]
  <2>1. Res(p) \in Results
    BY DEF Res, Results
  <2>2. rLast' = [pkt |-> p, res |-> Res(p)]
    BY DecryptCases
  <2>3. QED
    BY <2>1, <2>2
<1>2. lix' \in Nat /\ bits' \subseteq Slots
  <2>1. CASE HasHmac /\ Res(p) = "ok"
    <3>1. ReplayAccepts(lix, bits, p.ix) /\ p.ix \in Nat
      BY <2>1 DEF Res, Packet, Indices
    <3>2. ReplayShift(lix, bits, p.ix).lix \in Nat
          /\ ReplayShift(lix, bits, p.ix).bits \in SUBSET Slots
      BY <3>1, ReplayShiftType
    <3>3. QED
      BY <2>1, <3>2, DecryptCases
  <2>2. CASE ~(HasHmac /\ Res(p) = "ok")
    BY <2>2, DecryptCases
  <2>3. QED
    BY <2>1, <2>2
<1>3. accepted' \in Seq(Packet)
  <2>1. Append(accepted, p) \in Seq(Packet)
    BY AppendProperties
  <2>2. QED
    BY <2>1, DecryptCases
<1>4. QED
  BY <1>1, <1>2, <1>3, DecryptCases

\* The initial state is in range.
LEMMA InitType ==
    Init => TypeOK
<1> SUFFICES ASSUME Init PROVE TypeOK
  OBVIOUS
<1>1. accepted \in Seq(Packet)
  BY EmptySeq DEF Init
<1>2. 0 \in Indices /\ 0 \in 0 .. MaxSend /\ 0 \in 0 .. MaxForge
  BY DEF Indices
<1>3. QED
  BY <1>1, <1>2 DEF Init, TypeOK

\* The packet srtcp_encrypt puts on the wire.
NewPacket == [n |-> nSent, ix |-> NextIndex(rtcpIndex),
              e |-> IF HasAes THEN 1 ELSE 0, genuine |-> TRUE]

\* srtcp_encrypt unfolded.
LEMMA EncryptCases ==
    ASSUME srtcp_encrypt
    PROVE  /\ nSent < MaxSend /\ nSent' = nSent + 1
           /\ rtcpIndex' = NextIndex(rtcpIndex)
           /\ sent' = sent \cup {NewPacket}
           /\ sHas' = TRUE
           /\ UNCHANGED <<rcvVars, nForged>>
BY DEF srtcp_encrypt, NewPacket

\* srtcp_encrypt keeps the sender's state in range.
LEMMA EncryptType ==
    ASSUME TypeOK, srtcp_encrypt
    PROVE  TypeOK'
<1> USE DEF TypeOK
<1>1. NextIndex(rtcpIndex) \in Indices
  BY DEF NextIndex, Indices
<1>2. NewPacket \in Packet
  BY <1>1 DEF NewPacket, Packet
<1>3. QED
  BY <1>1, <1>2, EncryptCases DEF rcvVars

\* The network's delivery keeps the state in range.
LEMMA DeliverType ==
    ASSUME TypeOK, Deliver
    PROVE  TypeOK'
<1>1. PICK p \in sent : srtcp_decrypt(p)
  BY DEF Deliver
<1>2. p \in Packet
  BY DEF TypeOK
<1>3. QED
  BY <1>1, <1>2, DecryptType DEF Deliver, sndVars, TypeOK

\* The packet an attacker injects.
Forged(i, e) == [n |-> MaxSend + nForged, ix |-> i, e |-> e, genuine |-> FALSE]

\* An injected packet keeps the state in range.
LEMMA InjectType ==
    ASSUME TypeOK, Inject
    PROVE  TypeOK'
<1>1. PICK i \in Indices, e \in {0, 1} : srtcp_decrypt(Forged(i, e))
  BY DEF Inject, Forged
<1>2. Forged(i, e) \in Packet
  BY DEF Forged, Packet, TypeOK
<1>3. QED
  BY <1>1, <1>2, DecryptType DEF Inject, sndVars, TypeOK

\* Type correctness of the SRTCP stream in every mode: the sender's index,
\* the replay list and the log of accepted packets stay in range through
\* every srtcp_encrypt, srtcp_decrypt and injected packet.
THEOREM TypeCorrect == Spec => []TypeOK
<1>1. Init => TypeOK
  BY InitType
<1>2. TypeOK /\ [Next]_vars => TypeOK'
  <2> SUFFICES ASSUME TypeOK, [Next]_vars PROVE TypeOK'
    OBVIOUS
  <2>1. CASE srtcp_encrypt
    BY <2>1, EncryptType
  <2>2. CASE Deliver
    BY <2>2, DeliverType
  <2>3. CASE Inject
    BY <2>3, InjectType
  <2>4. CASE UNCHANGED vars
    BY <2>4 DEF vars, sndVars, rcvVars, TypeOK
  <2>5. QED
    BY <2>1, <2>2, <2>3, <2>4 DEF Next
<1>3. QED
  BY <1>1, <1>2, PTL DEF Spec
-----------------------------------------------------------------------------
(* Authenticity and replay protection with HMAC.                           *)

\* The indices of the packets accepted so far.
AcceptedIx == {accepted[i].ix : i \in 1 .. Len(accepted)}

\* Every packet on the wire is genuine and numbered below nSent, so no two
\* carry the same number.
SentInv ==
    /\ \A p \in sent : p.genuine /\ p.n < nSent
    /\ \A p, q \in sent : p.n = q.n => p = q

\* The inductive invariant: every accepted packet was sent, no packet was
\* accepted twice, and the replay list marks the index of every accepted
\* packet.
IInv ==
    /\ TypeOK /\ SentInv
    /\ \A i \in 1 .. Len(accepted) : accepted[i] \in sent
    /\ NoReplay
    /\ Marked(AcceptedIx, lix, bits)

\* With HMAC, srtcp_decrypt of a genuine packet from the wire, or of any
\* forged one, keeps the invariant (the sender's state is left alone).
LEMMA DecryptSafe ==
    ASSUME IInv, HasHmac, NEW p \in Packet, p.genuine => p \in sent,
           srtcp_decrypt(p), UNCHANGED <<sent, nSent>>
    PROVE  SentInv' /\ (\A i \in 1 .. Len(accepted') : accepted'[i] \in sent')
           /\ NoReplay' /\ Marked(AcceptedIx, lix, bits)'
<1> USE DEF IInv
<1>1. SentInv'
  BY DEF SentInv
<1>0. Len(accepted) \in Nat /\ \A i \in 1 .. Len(accepted) : accepted[i] \in Packet
  BY ElementOfSeq, LenProperties DEF TypeOK
<1>2. CASE Res(p) = "ok"
  <2>1. p.genuine /\ ReplayAccepts(lix, bits, p.ix)
    BY <1>2 DEF Res, TagVerified
  <2>2. p \in sent /\ p.ix \in Nat
    BY <2>1 DEF Packet, Indices
  <2>3. AcceptedIx \in SUBSET Nat
    BY <1>0 DEF AcceptedIx, Packet, Indices
  <2>4. p.ix \notin AcceptedIx
        /\ Marked(AcceptedIx \cup {p.ix}, ReplayShift(lix, bits, p.ix).lix,
                  ReplayShift(lix, bits, p.ix).bits)
    BY <2>1, <2>2, <2>3, ReplayFresh DEF TypeOK
  <2>5. /\ accepted' = Append(accepted, p)
        /\ lix' = ReplayShift(lix, bits, p.ix).lix
        /\ bits' = ReplayShift(lix, bits, p.ix).bits
    BY <1>2, DecryptCases
  <2>6. /\ Len(accepted') = Len(accepted) + 1
        /\ \A i \in 1 .. Len(accepted) : accepted'[i] = accepted[i]
        /\ accepted'[Len(accepted) + 1] = p
    BY <2>5, AppendProperties DEF TypeOK
  <2>7. 1 .. Len(accepted') = (1 .. Len(accepted)) \cup {Len(accepted) + 1}
    BY <1>0, <2>6
  <2>8. AcceptedIx' = AcceptedIx \cup {p.ix}
    BY <2>6, <2>7 DEF AcceptedIx
  <2>9. \A i \in 1 .. Len(accepted') : accepted'[i] \in sent'
    BY <2>2, <2>6, <2>7
  <2>10. NoReplay'
    <3> SUFFICES ASSUME NEW i \in 1 .. Len(accepted'), NEW j \in 1 .. Len(accepted'),
                        accepted'[i].n = accepted'[j].n
                 PROVE  i = j
      BY DEF NoReplay
    <3>1. \A k \in 1 .. Len(accepted) : accepted[k].n # p.n
      <4> SUFFICES ASSUME NEW k \in 1 .. Len(accepted), accepted[k].n = p.n
                   PROVE  FALSE
        OBVIOUS
      <4>1. accepted[k] = p
        BY <2>2 DEF SentInv
      <4>2. p.ix \in AcceptedIx
        BY <4>1 DEF AcceptedIx
      <4>3. QED
        BY <2>4, <4>2
    <3>2. QED
      BY <2>6, <2>7, <3>1 DEF NoReplay
  <2>11. QED
    BY <1>1, <2>4, <2>5, <2>8, <2>9, <2>10
<1>3. CASE Res(p) # "ok"
  <2>1. UNCHANGED <<lix, bits, accepted>>
    BY <1>3, DecryptCases
  <2>2. QED
    BY <1>1, <2>1 DEF NoReplay, Marked, AcceptedIx
<1>4. QED
  BY <1>2, <1>3

\* srtcp_encrypt adds a genuine packet numbered above every other.
LEMMA EncryptSafe ==
    ASSUME IInv, srtcp_encrypt
    PROVE  IInv'
<1>1. TypeOK'
  BY EncryptType DEF IInv
<1>2. /\ sent' = sent \cup {NewPacket} /\ nSent' = nSent + 1
      /\ UNCHANGED <<lix, bits, accepted>>
  BY EncryptCases DEF rcvVars
<1>3. nSent \in Nat /\ NewPacket.n = nSent /\ NewPacket.genuine
  BY DEF IInv, TypeOK, NewPacket
<1>4. \A q \in sent : q.genuine /\ q.n < nSent
  BY DEF IInv, SentInv
<1>5. SentInv'
  <2>1. \A q \in sent' : q.genuine /\ q.n < nSent'
    BY <1>2, <1>3, <1>4, SMT DEF IInv, TypeOK, Packet
  <2>2. \A q, r \in sent' : q.n = r.n => q = r
    BY <1>2, <1>3, <1>4 DEF IInv, SentInv
  <2>3. QED
    BY <2>1, <2>2 DEF SentInv
<1>6. QED
  BY <1>1, <1>2, <1>5 DEF IInv, NoReplay, Marked, AcceptedIx

\* With HMAC the invariant is inductive.
LEMMA IInvInductive ==
    ASSUME IInv, HasHmac, [Next]_vars
    PROVE  IInv'
<1>1. CASE srtcp_encrypt
  BY <1>1, EncryptSafe
<1>2. CASE Deliver
  <2>1. PICK p \in sent : srtcp_decrypt(p)
    BY <1>2 DEF Deliver
  <2>2. p \in Packet /\ UNCHANGED <<sent, nSent>>
    BY <1>2 DEF IInv, TypeOK, Deliver, sndVars
  <2>3. QED
    BY <1>2, <2>1, <2>2, DecryptSafe, DeliverType DEF IInv
<1>3. CASE Inject
  <2>1. PICK i \in Indices, e \in {0, 1} : srtcp_decrypt(Forged(i, e))
    BY <1>3 DEF Inject, Forged
  <2>2. Forged(i, e) \in Packet /\ ~Forged(i, e).genuine /\ UNCHANGED <<sent, nSent>>
    BY <1>3 DEF IInv, TypeOK, Forged, Packet, Inject, sndVars
  <2>3. QED
    BY <1>3, <2>1, <2>2, DecryptSafe, InjectType DEF IInv
<1>4. CASE UNCHANGED vars
  BY <1>4 DEF vars, sndVars, rcvVars, IInv, TypeOK, SentInv, NoReplay,
              Marked, AcceptedIx
<1>5. QED
  BY <1>1, <1>2, <1>3, <1>4 DEF Next

\* Authenticity and replay protection of srtcp_decrypt for the AES-CM +
\* HMAC suites (the RTCP component has an HMAC exactly in CTR mode), for
\* every index space, window, network and attacker: the receiver accepts
\* only packets the sender produced, and each of them at most once, even
\* when the 31-bit SRTCP index wraps.
THEOREM AuthenticOnce ==
    ASSUME Mode = "CTR"
    PROVE  Spec => [](OnlyAuthentic /\ NoReplay)
<1>0. HasHmac
  BY DEF HasHmac
<1>1. Init => IInv
  <2> SUFFICES ASSUME Init PROVE IInv
    OBVIOUS
  <2>1. TypeOK
    BY InitType
  <2>2. accepted = <<>> /\ sent = {}
    BY DEF Init
  <2>3. QED
    BY <2>1, <2>2 DEF IInv, SentInv, NoReplay, Marked, AcceptedIx
<1>2. IInv /\ [Next]_vars => IInv'
  BY <1>0, IInvInductive
<1>3. IInv => OnlyAuthentic /\ NoReplay
  BY DEF IInv, SentInv, OnlyAuthentic
<1>4. QED
  BY <1>1, <1>2, <1>3, PTL DEF Spec

-----------------------------------------------------------------------------
(* Packets delivered in order are accepted, as long as the index does not *)
(* wrap.                                                                   *)

\* With fewer packets than indices the sender's index is the number of
\* srtcp_encrypt calls, and the packet numbered n carries index n + 1.
IxInv ==
    /\ rtcpIndex = nSent
    /\ \A p \in sent : p.ix = p.n + 1

\* The highest index of the replay list is 0 or the index of an accepted
\* packet.
LixInv ==
    lix = 0 \/ \E i \in 1 .. Len(accepted) : lix = accepted[i].ix

\* The invariant InOrderAccepted rests on, in both modes.
OrderInv == TypeOK /\ IxInv /\ (HasHmac => IInv /\ LixInv)

LEMMA IxStep ==
    ASSUME MaxSend < IndexSpace, TypeOK, IxInv, [Next]_vars
    PROVE  IxInv'
<1>1. CASE srtcp_encrypt
  <2>1. /\ nSent < MaxSend /\ nSent' = nSent + 1
        /\ rtcpIndex' = NextIndex(rtcpIndex)
        /\ sent' = sent \cup {NewPacket}
    BY <1>1, EncryptCases
  <2>2. nSent \in Nat /\ NextIndex(rtcpIndex) = nSent + 1
    BY <2>1 DEF TypeOK, IxInv, NextIndex
  <2>3. NewPacket.ix = NewPacket.n + 1
    BY <2>2 DEF NewPacket
  <2>4. QED
    BY <2>1, <2>2, <2>3 DEF IxInv
<1>2. CASE Deliver \/ Inject \/ UNCHANGED vars
  <2>1. UNCHANGED sndVars
    BY <1>2 DEF Deliver, Inject, vars
  <2>2. QED
    BY <2>1 DEF sndVars, IxInv
<1>3. QED
  BY <1>1, <1>2 DEF Next

\* With HMAC, srtcp_decrypt moves the highest index only to the index of
\* the packet it accepts.
LEMMA LixDecrypt ==
    ASSUME TypeOK, LixInv, HasHmac, NEW p, srtcp_decrypt(p)
    PROVE  LixInv'
<1>1. Len(accepted) \in Nat
  BY LenProperties DEF TypeOK
<1>2. CASE Res(p) = "ok"
  <2>1. /\ accepted' = Append(accepted, p)
        /\ lix' = ReplayShift(lix, bits, p.ix).lix
    BY <1>2, DecryptCases
  <2>2. lix' = p.ix \/ lix' = lix
    BY <2>1 DEF ReplayShift
  <2>3. /\ Len(accepted') = Len(accepted) + 1
        /\ \A i \in 1 .. Len(accepted) : accepted'[i] = accepted[i]
        /\ accepted'[Len(accepted) + 1] = p
    BY <2>1, AppendProperties DEF TypeOK
  <2>4. QED
    BY <1>1, <2>2, <2>3 DEF LixInv
<1>3. CASE Res(p) # "ok"
  BY <1>3, DecryptCases DEF LixInv
<1>4. QED
  BY <1>2, <1>3

LEMMA OrderInvStep ==
    ASSUME MaxSend < IndexSpace, OrderInv, [Next]_vars
    PROVE  OrderInv'
<1>1. TypeOK'
  <2>1. CASE srtcp_encrypt
    BY <2>1, EncryptType DEF OrderInv
  <2>2. CASE Deliver
    BY <2>2, DeliverType DEF OrderInv
  <2>3. CASE Inject
    BY <2>3, InjectType DEF OrderInv
  <2>4. CASE UNCHANGED vars
    BY <2>4 DEF vars, sndVars, rcvVars, TypeOK, OrderInv
  <2>5. QED
    BY <2>1, <2>2, <2>3, <2>4 DEF Next
<1>2. IxInv'
  BY IxStep DEF OrderInv
<1>3. ASSUME HasHmac PROVE IInv' /\ LixInv'
  <2>1. IInv'
    BY <1>3, IInvInductive DEF OrderInv
  <2>2. LixInv'
    <3>1. CASE srtcp_encrypt
      BY <1>3, <3>1, EncryptCases DEF rcvVars, LixInv, OrderInv
    <3>2. CASE Deliver
      BY <1>3, <3>2, LixDecrypt DEF Deliver, OrderInv
    <3>3. CASE Inject
      BY <1>3, <3>3, LixDecrypt DEF Inject, OrderInv
    <3>4. CASE UNCHANGED vars
      BY <1>3, <3>4 DEF vars, rcvVars, LixInv, OrderInv
    <3>5. QED
      BY <3>1, <3>2, <3>3, <3>4 DEF Next
  <2>3. QED
    BY <2>1, <2>2
<1>4. QED
  BY <1>1, <1>2, <1>3 DEF OrderInv

\* A genuine packet numbered above every accepted one passes the tag check
\* and the replay check: its index is above the highest index of the list.
LEMMA InOrderStep ==
    ASSUME MaxSend < IndexSpace, OrderInv, Deliver, rLast'.pkt.genuine,
           \A i \in 1 .. Len(accepted) : accepted[i].n < rLast'.pkt.n
    PROVE  rLast'.res = "ok"
<1>1. PICK p \in sent : srtcp_decrypt(p)
  BY DEF Deliver
<1>2. rLast' = [pkt |-> p, res |-> Res(p)]
  BY <1>1, DecryptCases
<1>3. p.genuine /\ p \in Packet /\ p.ix = p.n + 1 /\ p.n \in Nat
  BY <1>2 DEF OrderInv, TypeOK, IxInv, Packet
<1>4. CASE ~HasHmac
  BY <1>2, <1>3, <1>4 DEF Res
<1>5. CASE HasHmac
  <2>1. IInv /\ LixInv
    BY <1>5 DEF OrderInv
  <2>2. \A i \in 1 .. Len(accepted) : accepted[i] \in sent
    BY <2>1 DEF IInv
  <2>3. p.ix > lix
    <3>1. CASE lix = 0
      BY <1>3, <3>1
    <3>2. CASE \E i \in 1 .. Len(accepted) : lix = accepted[i].ix
      <4>1. PICK i \in 1 .. Len(accepted) : lix = accepted[i].ix
        BY <3>2
      <4>2. accepted[i] \in Packet /\ accepted[i].ix = accepted[i].n + 1
        BY <2>2 DEF OrderInv, TypeOK, IxInv
      <4>3. accepted[i].n < p.n
        BY <1>2
      <4>4. QED
        BY <1>3, <4>1, <4>2, <4>3 DEF Packet
    <3>3. QED
      BY <2>1, <3>1, <3>2 DEF LixInv
  <2>4. ReplayAccepts(lix, bits, p.ix)
    BY <2>3 DEF ReplayAccepts
  <2>5. QED
    BY <1>2, <1>3, <2>4 DEF Res, TagVerified
<1>6. QED
  BY <1>4, <1>5

\* Spec 8: as long as the 31-bit SRTCP index does not wrap, srtcp_decrypt
\* accepts every genuine packet sent after all the packets it accepted so
\* far, in both modes: the strictly increasing index of srtcp_encrypt is
\* always above the highest index of the RTCP replay list.
THEOREM InOrderDelivery ==
    ASSUME MaxSend < IndexSpace
    PROVE  Spec => InOrderAccepted
<1>1. Init => OrderInv
  <2> SUFFICES ASSUME Init PROVE OrderInv
    OBVIOUS
  <2>1. TypeOK
    BY InitType
  <2>2. accepted = <<>> /\ sent = {} /\ lix = 0 /\ rtcpIndex = 0 /\ nSent = 0
    BY DEF Init
  <2>3. QED
    BY <2>1, <2>2 DEF OrderInv, IxInv, LixInv, IInv, SentInv, NoReplay,
                      Marked, AcceptedIx
<1>2. OrderInv /\ [Next]_vars => OrderInv'
  BY OrderInvStep
<1>3. OrderInv /\ [Next]_vars =>
        [Deliver /\ rLast'.pkt.genuine
         /\ (\A i \in 1 .. Len(accepted) : accepted[i].n < rLast'.pkt.n)
         => rLast'.res = "ok"]_vars
  BY InOrderStep
<1>4. QED
  BY <1>1, <1>2, <1>3, PTL DEF Spec, InOrderAccepted

=============================================================================
