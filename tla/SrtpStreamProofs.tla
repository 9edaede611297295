-------------------------- MODULE SrtpStreamProofs --------------------------
(***************************************************************************)
(* Proofs about SrtpStream for every value of the constants: the type     *)
(* invariant, and that the receiver accepts each sender packet at most    *)
(* once and under the sender's index (NoReplay, IndexAgreement), and that *)
(* the stream implements the protected channel of ProtectedChannel.       *)
(***************************************************************************)
EXTENDS SrtpStream, SrtpReplayProofs, SequenceTheorems, TLAPS

USE SeqSpaceAssumption, RocSpaceAssumption, ReplayWinAssumption, BoundsAssumption

-----------------------------------------------------------------------------
(* Lemmas about the helpers.                                               *)

\* Half is half the sequence space.
LEMMA HalfFacts ==
    Half \in Nat /\ Half >= 1 /\ SeqSpace = 2 * Half
BY DEF Half

\* An index roc * 65536 + seq of a period and a sequence number is a natural.
LEMMA IndexNat ==
    ASSUME NEW r \in Rocs, NEW q \in Seqs
    PROVE  r * SeqSpace + q \in Nat
<1>1. r \in Nat /\ q \in Nat /\ SeqSpace \in Nat
  BY DEF Rocs, Seqs
<1>2. r * SeqSpace \in Nat
  BY <1>1
<1>3. QED
  BY <1>1, <1>2

\* The ROC block keeps roc and s_l in range.
LEMMA RocUpdateType ==
    ASSUME NEW roc \in Rocs, NEW sl \in Seqs, NEW seq \in Seqs
    PROVE  /\ RocUpdate(roc, sl, seq).roc \in Rocs
           /\ RocUpdate(roc, sl, seq).s_l \in Seqs
BY HalfFacts DEF RocUpdate, seq_diff, Rocs, Seqs

\* srtp_get_index keeps the period it is given for a sequence number
\* less than half the space from s_l.
LEMMA GetIndexSamePeriod ==
    ASSUME NEW r \in Nat, NEW sl \in Seqs, NEW seq \in Seqs,
           seq - sl <= Half, sl - Half <= seq
    PROVE  srtp_get_index(r, sl, seq) = r * SeqSpace + seq
BY HalfFacts DEF srtp_get_index, Seqs

\* A sequence number accepted by the "too far ahead" check gets the index
\* of the roll-over period the ROC block settles on: srtp_get_index never
\* moves it to the period before or after.
LEMMA IndexEstimate ==
    ASSUME NEW roc \in Rocs, NEW sl \in Seqs, NEW seq \in Seqs,
           ~TooFarAhead(seq_diff(sl, seq))
    PROVE  srtp_get_index(RocUpdate(roc, sl, seq).roc, RocUpdate(roc, sl, seq).s_l, seq)
             = RocUpdate(roc, sl, seq).roc * SeqSpace + seq
<1> USE HalfFacts
<1>1. CASE seq_diff(sl, seq) <= -Half
  <2>1. RocUpdate(roc, sl, seq) = [roc |-> (roc + 1) % RocSpace, s_l |-> 0]
    BY <1>1 DEF RocUpdate
  <2>2. seq - 0 <= Half /\ 0 - Half <= seq /\ 0 \in Seqs
    BY <1>1 DEF seq_diff, Seqs
  <2>3. (roc + 1) % RocSpace \in Nat
    BY DEF Rocs
  <2>4. QED
    BY <2>1, <2>2, <2>3, GetIndexSamePeriod
<1>2. CASE ~(seq_diff(sl, seq) <= -Half)
  <2>1. RocUpdate(roc, sl, seq) = [roc |-> roc, s_l |-> sl]
    BY <1>2 DEF RocUpdate
  <2>2. seq - sl <= Half /\ sl - Half <= seq
    BY <1>2 DEF seq_diff, TooFarAhead, Seqs
  <2>3. QED
    BY <2>1, <2>2, GetIndexSamePeriod DEF Rocs
<1>3. QED
  BY <1>1, <1>2

-----------------------------------------------------------------------------
(* Type correctness.                                                       *)

\* The parts of srtp_decrypt, named as in the module.
Sl0(p) == IF rHas THEN rSl ELSE p.seq
St(p) == RocUpdate(rRoc, Sl0(p), p.seq)
Ix(p) == srtp_get_index(St(p).roc, St(p).s_l, p.seq)
Res(p) ==
    IF TooFarAhead(seq_diff(Sl0(p), p.seq)) THEN "ETIMEDOUT"
    ELSE IF ~(p.genuine /\ p.roc = St(p).roc) THEN "EAUTH"
    ELSE IF ~ReplayAccepts(lix, bits, Ix(p)) THEN "EALREADY"
    ELSE "ok"

\* srtp_decrypt unfolded into the three outcomes it can have.
LEMMA DecryptCases ==
    ASSUME NEW p, srtp_decrypt(p)
    PROVE  /\ rHas' = TRUE
           /\ rLast' = [pkt |-> p, res |-> Res(p)]
           /\ Res(p) = "ETIMEDOUT" =>
                 /\ rSl' = Sl0(p)
                 /\ UNCHANGED <<rRoc, lix, bits, accepted>>
           /\ Res(p) = "ok" =>
                 /\ rRoc' = St(p).roc
                 /\ lix' = ReplayShift(lix, bits, Ix(p)).lix
                 /\ bits' = ReplayShift(lix, bits, Ix(p)).bits
                 /\ rSl' = IF p.seq > St(p).s_l THEN p.seq ELSE St(p).s_l
                 /\ accepted' = Append(accepted, [six |-> Six(p), rix |-> Ix(p)])
           /\ Res(p) \in {"EAUTH", "EALREADY"} =>
                 /\ rRoc' = St(p).roc
                 /\ rSl' = St(p).s_l
                 /\ UNCHANGED <<lix, bits, accepted>>
BY DEF srtp_decrypt, Sl0, St, Ix, Res, ReplayProtected

\* The receiver's state stays in range whatever srtp_decrypt is given.
LEMMA DecryptType ==
    ASSUME TypeOK, NEW p \in Packet, srtp_decrypt(p)
    PROVE  /\ rHas' \in BOOLEAN /\ rRoc' \in Rocs /\ rSl' \in Seqs
           /\ lix' \in Nat /\ bits' \in SUBSET Slots
           /\ accepted' \in Seq([six : Nat, rix : Nat])
           /\ rLast' \in {<<>>} \cup [pkt : Packet, res : Results]
<1> USE DEF TypeOK
<1>1. Sl0(p) \in Seqs /\ St(p).roc \in Rocs /\ St(p).s_l \in Seqs
  BY RocUpdateType DEF Sl0, St, Packet
<1>2. Res(p) \in Results
  BY DEF Res, Results
<1>3. rLast' \in {<<>>} \cup [pkt : Packet, res : Results]
  <2>1. rLast' = [pkt |-> p, res |-> Res(p)]
    BY DecryptCases
  <2>2. rLast' \in [pkt : Packet, res : Results]
    BY <1>2, <2>1
  <2>3. QED
    BY <2>2
<1>4. CASE Res(p) = "ETIMEDOUT"
  BY <1>1, <1>3, <1>4, DecryptCases
<1>5. CASE Res(p) = "ok"
  <2>1. ~TooFarAhead(seq_diff(Sl0(p), p.seq)) /\ ReplayAccepts(lix, bits, Ix(p))
    BY <1>5 DEF Res
  <2>2. p.seq \in Seqs /\ p.roc \in Rocs
    BY DEF Packet
  <2>3. Ix(p) = St(p).roc * SeqSpace + p.seq
    BY <1>1, <2>1, <2>2, IndexEstimate DEF Ix, St
  <2>4. Ix(p) \in Nat
    BY <1>1, <2>2, <2>3, IndexNat
  <2>5. lix' \in Nat /\ bits' \in SUBSET Slots
    <3>1. ReplayShift(lix, bits, Ix(p)).lix \in Nat
          /\ ReplayShift(lix, bits, Ix(p)).bits \in SUBSET Slots
      BY <2>1, <2>4, ReplayShiftType
    <3>2. QED
      BY <1>5, <3>1, DecryptCases
  <2>6. Six(p) \in Nat
    BY <2>2, IndexNat DEF Six
  <2>7. [six |-> Six(p), rix |-> Ix(p)] \in [six : Nat, rix : Nat]
    BY <2>4, <2>6
  <2>8. accepted' \in Seq([six : Nat, rix : Nat])
    <3>1. Append(accepted, [six |-> Six(p), rix |-> Ix(p)]) \in Seq([six : Nat, rix : Nat])
      BY <2>7, AppendProperties
    <3>2. QED
      BY <1>5, <3>1, DecryptCases
  <2>9. rSl' \in Seqs
    BY <1>1, <1>5, <2>2, DecryptCases DEF Seqs
  <2>10. QED
    BY <1>1, <1>3, <1>5, <2>5, <2>8, <2>9, DecryptCases
<1>6. CASE Res(p) \in {"EAUTH", "EALREADY"}
  BY <1>1, <1>3, <1>6, DecryptCases
<1>7. QED
  BY <1>2, <1>4, <1>5, <1>6 DEF Results

\* The initial state is in range.
LEMMA InitType ==
    Init => TypeOK
<1> SUFFICES ASSUME Init PROVE TypeOK
  OBVIOUS
<1>1. accepted \in Seq([six : Nat, rix : Nat])
  BY EmptySeq DEF Init
<1>2. 0 \in Rocs /\ 0 \in Seqs /\ 0 \in 0 .. MaxSend /\ 0 \in 0 .. MaxForge
  BY DEF Rocs, Seqs
<1>3. QED
  BY <1>1, <1>2 DEF Init, TypeOK

\* srtp_encrypt keeps the sender's state in range.
LEMMA EncryptType ==
    ASSUME TypeOK, srtp_encrypt
    PROVE  TypeOK'
<1> USE DEF TypeOK
<1> DEFINE sl0 == IF sHas THEN sSl ELSE appSeq
           st  == RocUpdate(sRoc, sl0, appSeq)
<1>1. sl0 \in Seqs /\ st.roc \in Rocs /\ st.s_l \in Seqs
  BY RocUpdateType
<1>2. /\ sent' = sent \cup {[seq |-> appSeq, roc |-> st.roc, genuine |-> TRUE]}
      /\ sRoc' = st.roc
      /\ sSl' = IF appSeq > st.s_l THEN appSeq ELSE st.s_l
      /\ sHas' = TRUE /\ appSeq' = (appSeq + 1) % SeqSpace /\ nSent' = nSent + 1
      /\ nSent < MaxSend
      /\ UNCHANGED <<rcvVars, nForged>>
  BY DEF srtp_encrypt
<1>3. sent' \subseteq Packet
  <2>1. [seq |-> appSeq, roc |-> st.roc, genuine |-> TRUE] \in Packet
    BY <1>1 DEF Packet
  <2>2. QED
    BY <1>2, <2>1
<1>4. appSeq' \in Seqs /\ sSl' \in Seqs /\ nSent' \in 0 .. MaxSend
  BY <1>1, <1>2 DEF Seqs
<1>5. QED
  BY <1>1, <1>2, <1>3, <1>4 DEF rcvVars

\* The network's delivery keeps the state in range.
LEMMA DeliverType ==
    ASSUME TypeOK, Deliver
    PROVE  TypeOK'
<1>1. PICK p \in sent : srtp_decrypt(p)
  BY DEF Deliver
<1>2. p \in Packet
  BY DEF TypeOK
<1>3. QED
  BY <1>1, <1>2, DecryptType DEF Deliver, sndVars, TypeOK

\* An injected packet keeps the state in range.
LEMMA InjectType ==
    ASSUME TypeOK, Inject
    PROVE  TypeOK'
<1>1. PICK s \in Seqs : srtp_decrypt([seq |-> s, roc |-> 0, genuine |-> FALSE])
  BY DEF Inject
<1>2. [seq |-> s, roc |-> 0, genuine |-> FALSE] \in Packet
  BY DEF Packet, Rocs
<1>3. QED
  BY <1>1, <1>2, DecryptType DEF Inject, sndVars, TypeOK

\* Type correctness of the SRTP stream: sender and receiver state, the
\* window of the replay list and the log of accepted packets stay in range
\* through every srtp_encrypt, srtp_decrypt and injected packet.
THEOREM TypeCorrect == Spec => []TypeOK
<1>1. Init => TypeOK
  BY InitType
<1>2. TypeOK /\ [Next]_vars => TypeOK'
  <2> SUFFICES ASSUME TypeOK, [Next]_vars PROVE TypeOK'
    OBVIOUS
  <2>1. CASE srtp_encrypt
    BY <2>1, EncryptType
  <2>2. CASE Deliver
    BY <2>2, DeliverType
  <2>3. CASE Inject
    BY <2>3, InjectType
  <2>4. CASE UNCHANGED vars
    BY <2>4 DEF vars, sndVars, rcvVars, TypeOK
  <2>5. QED
    BY <2>1, <2>2, <2>3, <2>4 DEF Next
<1>3. QED
  BY <1>1, <1>2, PTL DEF Spec
-----------------------------------------------------------------------------
(* Replay protection and index agreement.                                 *)

\* The receiver's indices of the packets accepted so far.
AcceptedRix == {accepted[i].rix : i \in 1 .. Len(accepted)}

\* The inductive invariant: besides the two properties, the replay list
\* marks every index accepted so far (none lies above lix, and the window
\* slot of each one inside the window is set).
IInv == TypeOK /\ IndexAgreement /\ NoReplay /\ Marked(AcceptedRix, lix, bits)

\* A packet srtp_decrypt accepts is genuine, carries the roc the receiver
\* settled on, and is decrypted under its sender's index.
LEMMA AcceptedIndex ==
    ASSUME TypeOK, NEW p \in Packet, Res(p) = "ok"
    PROVE  /\ ReplayAccepts(lix, bits, Ix(p))
           /\ Ix(p) = Six(p)
           /\ Ix(p) \in Nat
<1>1. ~TooFarAhead(seq_diff(Sl0(p), p.seq)) /\ p.genuine /\ p.roc = St(p).roc
      /\ ReplayAccepts(lix, bits, Ix(p))
  BY DEF Res
<1>2. Sl0(p) \in Seqs /\ p.seq \in Seqs /\ p.roc \in Rocs
  BY DEF Sl0, Packet, TypeOK
<1>3. Ix(p) = St(p).roc * SeqSpace + p.seq
  BY <1>1, <1>2, IndexEstimate DEF Ix, St, TypeOK
<1>4. Ix(p) = Six(p)
  BY <1>1, <1>3 DEF Six
<1>5. QED
  BY <1>1, <1>2, <1>4, IndexNat DEF Six

\* srtp_decrypt of any packet keeps the invariant.
LEMMA DecryptSafe ==
    ASSUME IInv, NEW p \in Packet, srtp_decrypt(p)
    PROVE  IndexAgreement' /\ NoReplay' /\ Marked(AcceptedRix, lix, bits)'
<1> USE DEF IInv
<1>1. CASE Res(p) = "ok"
  <2> DEFINE rec == [six |-> Six(p), rix |-> Ix(p)]
  <2>1. ReplayAccepts(lix, bits, Ix(p)) /\ Ix(p) = Six(p) /\ Ix(p) \in Nat
    BY <1>1, AcceptedIndex
  <2>0. Len(accepted) \in Nat
        /\ \A i \in 1 .. Len(accepted) : accepted[i] \in [six : Nat, rix : Nat]
    BY ElementOfSeq, LenProperties DEF TypeOK
  <2>2. AcceptedRix \in SUBSET Nat
    BY <2>0 DEF AcceptedRix
  <2>3. Ix(p) \notin AcceptedRix
        /\ Marked(AcceptedRix \cup {Ix(p)}, ReplayShift(lix, bits, Ix(p)).lix,
                  ReplayShift(lix, bits, Ix(p)).bits)
    BY <2>1, <2>2, ReplayFresh DEF TypeOK
  <2>4. /\ accepted' = Append(accepted, rec)
        /\ lix' = ReplayShift(lix, bits, Ix(p)).lix
        /\ bits' = ReplayShift(lix, bits, Ix(p)).bits
    BY <1>1, DecryptCases
  <2>5. /\ Len(accepted') = Len(accepted) + 1
        /\ \A i \in 1 .. Len(accepted) : accepted'[i] = accepted[i]
        /\ accepted'[Len(accepted) + 1] = rec
    BY <2>4, AppendProperties DEF TypeOK
  <2>10. 1 .. Len(accepted') = (1 .. Len(accepted)) \cup {Len(accepted) + 1}
    BY <2>0, <2>5
  <2>6. AcceptedRix' = AcceptedRix \cup {Ix(p)}
    BY <2>5, <2>10 DEF AcceptedRix
  <2>7. IndexAgreement'
    BY <2>1, <2>5, <2>10 DEF IndexAgreement
  <2>8. NoReplay'
    <3> SUFFICES ASSUME NEW i \in 1 .. Len(accepted'), NEW j \in 1 .. Len(accepted'),
                        accepted'[i].six = accepted'[j].six
                 PROVE  i = j
      BY DEF NoReplay
    <3>1. \A k \in 1 .. Len(accepted) : accepted[k].six # Six(p)
      BY <2>1, <2>3 DEF AcceptedRix, IndexAgreement
    <3>2. QED
      BY <2>5, <2>10, <3>1 DEF NoReplay
  <2>9. QED
    BY <2>3, <2>4, <2>6, <2>7, <2>8
<1>2. CASE Res(p) # "ok"
  <2>1. UNCHANGED <<lix, bits, accepted>>
    BY <1>2, DecryptCases DEF Res
  <2>2. QED
    BY <2>1 DEF IndexAgreement, NoReplay, Marked, AcceptedRix
<1>3. QED
  BY <1>1, <1>2

\* The sender never changes the receiver's state.
LEMMA EncryptSafe ==
    ASSUME IInv, srtp_encrypt
    PROVE  IInv'
<1>1. TypeOK'
  BY EncryptType DEF IInv
<1>2. UNCHANGED <<lix, bits, accepted>>
  BY DEF srtp_encrypt, rcvVars
<1>3. QED
  BY <1>1, <1>2 DEF IInv, IndexAgreement, NoReplay, Marked, AcceptedRix

\* The invariant is inductive.
LEMMA IInvInductive ==
    ASSUME IInv, [Next]_vars
    PROVE  IInv'
<1>1. CASE srtp_encrypt
  BY <1>1, EncryptSafe
<1>2. CASE Deliver
  <2>1. PICK p \in sent : srtp_decrypt(p)
    BY <1>2 DEF Deliver
  <2>2. p \in Packet
    BY DEF IInv, TypeOK
  <2>3. QED
    BY <1>2, <2>1, <2>2, DecryptSafe, DeliverType DEF IInv
<1>3. CASE Inject
  <2>1. PICK s \in Seqs : srtp_decrypt([seq |-> s, roc |-> 0, genuine |-> FALSE])
    BY <1>3 DEF Inject
  <2>2. [seq |-> s, roc |-> 0, genuine |-> FALSE] \in Packet
    BY DEF Packet, Rocs
  <2>3. QED
    BY <1>3, <2>1, <2>2, DecryptSafe, InjectType DEF IInv
<1>4. CASE UNCHANGED vars
  BY <1>4 DEF vars, sndVars, rcvVars, IInv, TypeOK, IndexAgreement, NoReplay,
              Marked, AcceptedRix
<1>5. QED
  BY <1>1, <1>2, <1>3, <1>4 DEF Next

\* Replay protection of srtp_decrypt for every sequence space, window,
\* network delay and number of injected packets: the receiver hands every
\* packet of the sender to the application at most once, and decrypts it
\* under the index the sender encrypted it with.
THEOREM ReplaySafe == Spec => [](NoReplay /\ IndexAgreement)
<1>1. Init => IInv
  <2> SUFFICES ASSUME Init PROVE IInv
    OBVIOUS
  <2>1. TypeOK
    BY InitType
  <2>2. accepted = <<>>
    BY DEF Init
  <2>3. QED
    BY <2>1, <2>2 DEF IInv, IndexAgreement, NoReplay, Marked, AcceptedRix
<1>2. IInv /\ [Next]_vars => IInv'
  BY IInvInductive
<1>3. IInv => NoReplay /\ IndexAgreement
  BY DEF IInv
<1>4. QED
  BY <1>1, <1>2, <1>3, PTL DEF Spec

\* srtp_decrypt decrypts every packet it accepts under the sender's index
\* (the AES-CM IV is right), for every sequence space, window, delay and
\* attacker: the index estimate of srtp_get_index never picks the wrong
\* roll-over period for a packet that then passes the tag check.
THEOREM IndexAgreed == Spec => []IndexAgreement
BY ReplaySafe, PTL

-----------------------------------------------------------------------------
(* The stream implements the protected channel of ProtectedChannel.       *)

\* The refinement mapping: the sender's indices, and the receiver's
\* indices of the packets accepted so far, in order.
SentSix == {Six(q) : q \in sent}
Deliv == [i \in 1 .. Len(accepted) |-> accepted[i].rix]

\* Every accepted packet is one the sender put on the wire.
AccSent == \A i \in 1 .. Len(accepted) : accepted[i].six \in SentSix

\* An injected packet is never accepted: its tag is not the sender's.
LEMMA ForgedRefused ==
    ASSUME NEW s \in Seqs
    PROVE  Res([seq |-> s, roc |-> 0, genuine |-> FALSE]) # "ok"
BY DEF Res

\* srtp_decrypt either appends the packet it accepts with its sender's
\* index, or leaves the log of accepted packets alone.
LEMMA DecryptLog ==
    ASSUME TypeOK, NEW p \in Packet, srtp_decrypt(p)
    PROVE  \/ /\ Res(p) = "ok"
              /\ accepted' = Append(accepted, [six |-> Six(p), rix |-> Six(p)])
           \/ /\ Res(p) # "ok"
              /\ accepted' = accepted
<1>1. CASE Res(p) = "ok"
  BY <1>1, DecryptCases, AcceptedIndex
<1>2. CASE Res(p) # "ok"
  <2>1. Res(p) \in {"ETIMEDOUT", "EAUTH", "EALREADY"}
    BY <1>2 DEF Res
  <2>2. QED
    BY <1>2, <2>1, DecryptCases
<1>3. QED
  BY <1>1, <1>2

\* Two intervals 1 .. a and 1 .. b are equal only if a = b.
LEMMA IntervalEq ==
    ASSUME NEW a \in Nat, NEW b \in Nat, 1 .. a = 1 .. b
    PROVE  a = b
<1>1. a # 0 => a \in 1 .. b
  OBVIOUS
<1>2. b # 0 => b \in 1 .. a
  OBVIOUS
<1>3. QED
  BY <1>1, <1>2

\* Appending a record to the log appends its receiver index to Deliv.
LEMMA DelivAppend ==
    ASSUME TypeOK, NEW r \in [six : Nat, rix : Nat],
           accepted' = Append(accepted, r)
    PROVE  Deliv' = Append(Deliv, r.rix)
<1> DEFINE R == [six : Nat, rix : Nat]
<1>1. accepted \in Seq(R)
  BY DEF TypeOK
<1>2. PICK n \in Nat : n = Len(accepted)
  BY <1>1, LenProperties
<1>3. /\ Len(accepted') = n + 1
      /\ \A i \in 1 .. n : accepted'[i] = accepted[i]
      /\ accepted'[n + 1] = r
  BY <1>1, <1>2, AppendProperties
<1>4. \A i \in 1 .. n : accepted[i] \in R
  BY <1>1, <1>2, ElementOfSeq
<1>5. Deliv = [i \in 1 .. n |-> accepted[i].rix]
  BY <1>2 DEF Deliv
<1>6. Deliv' = [i \in 1 .. n + 1 |-> accepted'[i].rix]
  BY <1>3 DEF Deliv
<1>7. Deliv \in Seq(Nat)
  BY <1>4, <1>5, IsASeq
<1>8. Len(Deliv) = n
  <2>1. DOMAIN Deliv = 1 .. Len(Deliv) /\ Len(Deliv) \in Nat
    BY <1>7, LenProperties
  <2>2. DOMAIN Deliv = 1 .. n
    BY <1>5
  <2>3. QED
    BY <2>1, <2>2, IntervalEq
<1>9. /\ Append(Deliv, r.rix) \in Seq(Nat)
      /\ Len(Append(Deliv, r.rix)) = n + 1
      /\ \A i \in 1 .. n : Append(Deliv, r.rix)[i] = Deliv[i]
      /\ Append(Deliv, r.rix)[n + 1] = r.rix
  BY <1>7, <1>8, AppendProperties
<1>10. Append(Deliv, r.rix) \in [1 .. n + 1 -> Nat]
  BY <1>9, LenProperties
<1>11. \A i \in 1 .. n + 1 : Append(Deliv, r.rix)[i] = Deliv'[i]
  BY <1>3, <1>5, <1>6, <1>9
<1>12. QED
  BY <1>6, <1>9, <1>10, <1>11


\* After an accepted packet is appended, no earlier entry of Deliv carries
\* its index: NoReplay of the longer log and IndexAgreement of the shorter.
LEMMA DelivFresh ==
    ASSUME TypeOK, IndexAgreement, NoReplay',
           NEW r \in [six : Nat, rix : Nat], accepted' = Append(accepted, r)
    PROVE  \A k \in 1 .. Len(Deliv) : Deliv[k] # r.six
<1>1. accepted \in Seq([six : Nat, rix : Nat])
  BY DEF TypeOK
<1>2. PICK n \in Nat : n = Len(accepted)
  BY <1>1, LenProperties
<1>3. /\ Len(accepted') = n + 1
      /\ \A i \in 1 .. n : accepted'[i] = accepted[i]
      /\ accepted'[n + 1] = r
  BY <1>1, <1>2, AppendProperties
<1>4. \A k \in 1 .. n : accepted[k].six # r.six
  BY <1>3 DEF NoReplay
<1>5. Len(Deliv) = n /\ \A k \in 1 .. n : Deliv[k] = accepted[k].six
  <2>1. Deliv = [i \in 1 .. n |-> accepted[i].rix]
    BY <1>2 DEF Deliv
  <2>2. Deliv \in Seq(Nat)
    <3>1. \A i \in 1 .. n : accepted[i] \in [six : Nat, rix : Nat]
      BY <1>1, <1>2, ElementOfSeq
    <3>2. QED
      BY <2>1, <3>1, IsASeq
  <2>3. DOMAIN Deliv = 1 .. Len(Deliv) /\ Len(Deliv) \in Nat
    BY <2>2, LenProperties
  <2>4. Len(Deliv) = n
    BY <2>1, <2>3, IntervalEq
  <2>5. QED
    BY <1>2, <2>1, <2>4 DEF IndexAgreement
<1>6. QED
  BY <1>4, <1>5

\* The invariant of the refinement: IInv, and every accepted packet is
\* one the sender put on the wire.
RInv == IInv /\ AccSent

LEMMA RInvInit ==
    Init => RInv
<1> SUFFICES ASSUME Init PROVE RInv
  OBVIOUS
<1>1. TypeOK
  BY InitType
<1>2. accepted = <<>>
  BY DEF Init
<1>3. QED
  BY <1>1, <1>2 DEF RInv, AccSent, IInv, IndexAgreement, NoReplay, Marked,
                    AcceptedRix

\* Every step keeps RInv and is a step of the protected channel (or
\* leaves its variables alone).
LEMMA RefineStep ==
    ASSUME RInv, [Next]_vars
    PROVE  RInv' /\ [Chan!Next]_Chan!vars
<1>1. IInv'
  BY IInvInductive DEF RInv
<1>2. CASE srtp_encrypt
  <2>1. PICK np \in Packet : sent' = sent \cup {np}
    BY <1>2, EncryptType DEF srtp_encrypt, IInv, RInv, TypeOK
  <2>2. SentSix' = SentSix \cup {Six(np)} /\ accepted' = accepted
    BY <1>2, <2>1 DEF SentSix, srtp_encrypt, rcvVars
  <2>3. AccSent'
    BY <2>2 DEF RInv, AccSent
  <2>4. Chan!Send
    BY <2>2 DEF Chan!Send, SentSix, Deliv
  <2>5. QED
    BY <1>1, <2>3, <2>4 DEF RInv, Chan!Next
<1>3. CASE Deliver
  <2>1. PICK p \in sent : srtp_decrypt(p)
    BY <1>3 DEF Deliver
  <2>2. p \in Packet /\ sent' = sent /\ Six(p) \in SentSix
    BY <1>3 DEF Deliver, sndVars, RInv, IInv, TypeOK, SentSix
  <2>3. CASE Res(p) = "ok"
    <3> DEFINE r == [six |-> Six(p), rix |-> Six(p)]
    <3>1. accepted' = Append(accepted, r)
      BY <2>1, <2>2, <2>3, DecryptLog DEF RInv, IInv
    <3>2. r \in [six : Nat, rix : Nat]
      BY <2>2, IndexNat DEF Packet, Six
    <3>3. Deliv' = Append(Deliv, Six(p))
      BY <3>1, <3>2, DelivAppend DEF RInv, IInv
    <3>4. \A k \in 1 .. Len(Deliv) : Deliv[k] # Six(p)
      BY <1>1, <3>1, <3>2, DelivFresh DEF RInv, IInv
    <3>5. AccSent'
      <4>1. accepted \in Seq([six : Nat, rix : Nat])
        BY DEF RInv, IInv, TypeOK
      <4>2. PICK n \in Nat : n = Len(accepted)
        BY <4>1, LenProperties
      <4>3. /\ Len(accepted') = n + 1
            /\ \A i \in 1 .. n : accepted'[i] = accepted[i]
            /\ accepted'[n + 1] = r
        BY <3>1, <3>2, <4>1, <4>2, AppendProperties
      <4>4. QED
        BY <2>2, <4>2, <4>3 DEF RInv, AccSent, SentSix
    <3>6. Chan!Receive(Six(p))
      BY <2>2, <3>3, <3>4 DEF Chan!Receive, SentSix, Deliv
    <3>7. QED
      BY <1>1, <2>2, <3>5, <3>6 DEF RInv, Chan!Next, SentSix
  <2>4. CASE Res(p) # "ok"
    <3>1. accepted' = accepted
      BY <2>1, <2>2, <2>4, DecryptLog DEF RInv, IInv
    <3>2. QED
      BY <1>1, <2>2, <3>1 DEF RInv, AccSent, SentSix, Deliv, Chan!vars
  <2>5. QED
    BY <2>3, <2>4
<1>4. CASE Inject
  <2>1. PICK s \in Seqs : srtp_decrypt([seq |-> s, roc |-> 0, genuine |-> FALSE])
    BY <1>4 DEF Inject
  <2>2. [seq |-> s, roc |-> 0, genuine |-> FALSE] \in Packet
    BY DEF Packet, Rocs
  <2>3. accepted' = accepted /\ sent' = sent
    BY <1>4, <2>1, <2>2, ForgedRefused, DecryptLog DEF Inject, sndVars, RInv, IInv
  <2>4. QED
    BY <1>1, <2>3 DEF RInv, AccSent, SentSix, Deliv, Chan!vars
<1>5. CASE UNCHANGED vars
  BY <1>1, <1>5 DEF vars, sndVars, rcvVars, RInv, AccSent, SentSix, Deliv,
                    Chan!vars
<1>6. QED
  BY <1>2, <1>3, <1>4, <1>5 DEF Next


\* RFC 3711 3.3/3.4, for every sequence space, window, delay and attacker:
\* srtp_encrypt and srtp_decrypt together implement a protected channel.
\* Every packet srtp_decrypt hands over is one srtp_encrypt protected,
\* under the index the sender gave it, and none twice; loss, reordering,
\* refused and injected packets are stutters of the channel.
THEOREM ChannelRefinement == Spec => ChannelRefined
<1>1. Init => RInv
  BY RInvInit
<1>2. Init => Chan!Init
  <2> SUFFICES ASSUME Init PROVE Chan!Init
    OBVIOUS
  <2>1. sent = {} /\ accepted = <<>>
    BY DEF Init
  <2>2. Deliv = <<>>
    BY <2>1 DEF Deliv
  <2>3. QED
    BY <2>1, <2>2 DEF Chan!Init, Deliv
<1>3. RInv /\ [Next]_vars => RInv' /\ [Chan!Next]_Chan!vars
  BY RefineStep
<1>4. QED
  BY <1>1, <1>2, <1>3, PTL DEF Spec, ChannelRefined, Chan!Spec

=============================================================================
