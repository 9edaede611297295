----------------------------- MODULE SrtpStream -----------------------------
(***************************************************************************)
(* One SRTP stream (one SSRC) between a sending and a receiving context,  *)
(* src/srtp/srtp.c, AES-CM + HMAC-SHA1 suites.                             *)
(*                                                                         *)
(* The sender is srtp_encrypt: it keeps the stream's roll-over counter    *)
(* (roc) and highest sequence number (s_l) and puts on the wire a packet  *)
(* whose HMAC covers the header and its roc.  The receiver is             *)
(* srtp_decrypt: it keeps its own roc and s_l, estimates the 48-bit       *)
(* packet index, verifies the tag over the header and ITS roc, and runs   *)
(* the replay check of the stream's RTP replay list.                      *)
(*                                                                         *)
(* Cipher and HMAC are black boxes: a packet carries the roc the sender   *)
(* authenticated and whether its tag is the sender's (genuine) or was     *)
(* made or altered by someone without the key (forged).  A tag verifies   *)
(* exactly when the packet is genuine and the receiver's roc is the one   *)
(* the sender used.  The network loses, duplicates and reorders packets;  *)
(* it delivers a packet at most MaxReorder packets after it was sent.     *)
(*                                                                         *)
(* The 16-bit sequence space and the 64-slot replay window are            *)
(* parameters (SeqSpace, ReplayWin) so that roll-over is reached by TLC;  *)
(* every constant of the code is expressed through them (32768 is         *)
(* SeqSpace \div 2).                                                       *)
(***************************************************************************)
EXTENDS Integers, Sequences, SrtpReplay

CONSTANTS
    SeqSpace,    \* 2^16: the RTP sequence number space
    RocSpace,    \* 2^32: roc is a uint32_t
    MaxReorder,  \* the network's largest delay, in packets sent since
    MaxSend,     \* bound on srtp_encrypt calls
    MaxForge     \* bound on packets injected by an attacker

ASSUME SeqSpaceAssumption == SeqSpace \in Nat /\ SeqSpace >= 2 /\ SeqSpace % 2 = 0
ASSUME RocSpaceAssumption == RocSpace \in Nat \ {0}
ASSUME BoundsAssumption ==
    /\ MaxReorder \in Nat /\ MaxReorder < SeqSpace \div 2
    /\ MaxSend \in Nat /\ MaxForge \in Nat

Half == SeqSpace \div 2          \* 32768
Seqs == 0 .. SeqSpace - 1
Rocs == 0 .. RocSpace - 1

\* A packet on the wire: sequence number, the roc its HMAC covers, and
\* whether the tag was produced with the session key.
Packet == [seq : Seqs, roc : Rocs, genuine : BOOLEAN]
Results == {"ok", "ETIMEDOUT", "EAUTH", "EALREADY"}

\* The sender's 48-bit index of a packet, ix = 65536 * roc + seq.
Six(p) == p.roc * SeqSpace + p.seq

VARIABLES
    appSeq,    \* RTP sequence number the application puts in its next packet
    sHas,      \* sender context has a stream for the SSRC
    sRoc,      \* sender strm->roc
    sSl,       \* sender strm->s_l
    sent,      \* genuine packets ever put on the wire
    nSent,     \* number of srtp_encrypt calls
    rHas,      \* receiver context has a stream for the SSRC
    rRoc,      \* receiver strm->roc
    rSl,       \* receiver strm->s_l
    lix,       \* receiver strm->replay_rtp: highest index accepted
    bits,      \* receiver strm->replay_rtp: offsets below lix already seen
    accepted,  \* packets srtp_decrypt returned 0 for: sender and receiver index
    rLast,     \* the last packet handed to srtp_decrypt and its result
    nForged    \* number of injected packets

sndVars == <<appSeq, sHas, sRoc, sSl, sent, nSent>>
rcvVars == <<rHas, rRoc, rSl, lix, bits, accepted, rLast>>
vars == <<sndVars, rcvVars, nForged>>

-----------------------------------------------------------------------------
(* Helpers of srtp.c and of the replay list.                              *)

seq_diff(x, y) == y - x

\* Mutant: a roll-over on any step backwards.
RocUpdateOnAnyStepBack(roc, sl, seq) ==
    IF seq_diff(sl, seq) < 0
    THEN [roc |-> (roc + 1) % RocSpace, s_l |-> 0]
    ELSE [roc |-> roc, s_l |-> sl]

\* The ROC block of srtp_encrypt and srtp_decrypt: a sequence number
\* half the space or more behind s_l starts a new roll-over period.
RocUpdate(roc, sl, seq) ==
    IF seq_diff(sl, seq) <= -Half
    THEN [roc |-> (roc + 1) % RocSpace, s_l |-> 0]
    ELSE [roc |-> roc, s_l |-> sl]

\* Mutant: the "too far ahead" check of srtp_decrypt dropped.
TooFarAheadDropped(diff) == FALSE

\* srtp_decrypt refuses a sequence number more than half the space ahead.
TooFarAhead(diff) == diff > Half

\* Mutant: the replay check of srtp_decrypt left out.
ReplayCheckOmitted(l, b, i) == TRUE

\* Replay protection (3.3.2) after the tag check: srtp_replay_check on the
\* stream's RTP replay list.
ReplayProtected(l, b, i) == ReplayAccepts(l, b, i)

\* srtp_get_index: the index estimate of RFC 3711 Appendix A.
srtp_get_index(roc, sl, seq) ==
    LET v == IF sl < Half
             THEN IF seq - sl > Half THEN (roc + RocSpace - 1) % RocSpace ELSE roc
             ELSE IF sl - Half > seq THEN (roc + 1) % RocSpace ELSE roc
    IN  v * SeqSpace + seq

\* The highest index the sender has used so far.
SenderIndex == sRoc * SeqSpace + sSl

-----------------------------------------------------------------------------
Init ==
    /\ appSeq \in Seqs
    /\ sHas = FALSE /\ sRoc = 0 /\ sSl = 0
    /\ sent = {} /\ nSent = 0
    /\ rHas = FALSE /\ rRoc = 0 /\ rSl = 0
    /\ lix = 0 /\ bits = {}
    /\ accepted = <<>>
    /\ rLast = <<>>
    /\ nForged = 0

\* srtp_encrypt on the next packet of the application.  stream_get_seq
\* sets s_l to the first sequence number; the packet carries the roc the
\* HMAC covered; s_l advances to the highest sequence number.
srtp_encrypt ==
    /\ nSent < MaxSend
    /\ LET sl0 == IF sHas THEN sSl ELSE appSeq
           st  == RocUpdate(sRoc, sl0, appSeq)
       IN  /\ sent' = sent \cup {[seq |-> appSeq, roc |-> st.roc, genuine |-> TRUE]}
           /\ sRoc' = st.roc
           /\ sSl' = IF appSeq > st.s_l THEN appSeq ELSE st.s_l
    /\ sHas' = TRUE
    /\ appSeq' = (appSeq + 1) % SeqSpace
    /\ nSent' = nSent + 1
    /\ UNCHANGED <<rcvVars, nForged>>

\* srtp_decrypt of packet p.  The stream is created (s_l := seq) on first
\* sight whatever the outcome.  A packet too far ahead is refused before
\* the roc block; after it the new roc and s_l stay even when the tag or
\* the replay check then fails.  Only success advances s_l and the window.
srtp_decrypt(p) ==
    LET sl0  == IF rHas THEN rSl ELSE p.seq
        diff == seq_diff(sl0, p.seq)
        st   == RocUpdate(rRoc, sl0, p.seq)
        ix   == srtp_get_index(st.roc, st.s_l, p.seq)
        tagOk == p.genuine /\ p.roc = st.roc
        res  == IF TooFarAhead(diff) THEN "ETIMEDOUT"
                ELSE IF ~tagOk THEN "EAUTH"
                ELSE IF ~ReplayProtected(lix, bits, ix) THEN "EALREADY"
                ELSE "ok"
    IN  /\ rHas' = TRUE
        /\ rLast' = [pkt |-> p, res |-> res]
        /\ IF res = "ETIMEDOUT"
           THEN /\ rSl' = sl0
                /\ UNCHANGED <<rRoc, lix, bits, accepted>>
           ELSE /\ rRoc' = st.roc
                /\ IF res = "ok"
                   THEN LET w == ReplayShift(lix, bits, ix)
                        IN  /\ lix' = w.lix
                            /\ bits' = w.bits
                            /\ rSl' = IF p.seq > st.s_l THEN p.seq ELSE st.s_l
                            /\ accepted' = Append(accepted, [six |-> Six(p), rix |-> ix])
                   ELSE /\ rSl' = st.s_l
                        /\ UNCHANGED <<lix, bits, accepted>>

\* The network delivers a packet the sender put on the wire, any number
\* of times, at most MaxReorder packets late.
Deliver ==
    /\ \E p \in sent :
          /\ SenderIndex - Six(p) <= MaxReorder
          /\ srtp_decrypt(p)
    /\ UNCHANGED <<sndVars, nForged>>

\* An attacker without the key injects a packet (or alters one in flight).
Inject ==
    /\ nForged < MaxForge
    /\ \E s \in Seqs : srtp_decrypt([seq |-> s, roc |-> 0, genuine |-> FALSE])
    /\ nForged' = nForged + 1
    /\ UNCHANGED sndVars

Next == srtp_encrypt \/ Deliver \/ Inject

Spec == Init /\ [][Next]_vars

-----------------------------------------------------------------------------
TypeOK ==
    /\ appSeq \in Seqs
    /\ sHas \in BOOLEAN /\ sRoc \in Rocs /\ sSl \in Seqs
    /\ sent \subseteq Packet
    /\ nSent \in 0 .. MaxSend
    /\ rHas \in BOOLEAN /\ rRoc \in Rocs /\ rSl \in Seqs
    /\ lix \in Nat /\ bits \subseteq Slots
    /\ accepted \in Seq([six : Nat, rix : Nat])
    /\ rLast \in {<<>>} \cup [pkt : Packet, res : Results]
    /\ nForged \in 0 .. MaxForge

\* Replay protection (RFC 3711 3.3.2, the comment at srtp_decrypt): the
\* receiver hands every packet the sender sent to the application at most
\* once, however the network duplicates and reorders it and whatever an
\* attacker injects.
NoReplay ==
    \A i, j \in 1 .. Len(accepted) :
        accepted[i].six = accepted[j].six => i = j

\* srtp_decrypt decrypts every packet it accepts under the index the
\* sender encrypted it with (the AES-CM IV is derived from it): its
\* estimate of the index from roc and s_l never picks the wrong period.
IndexAgreement ==
    \A i \in 1 .. Len(accepted) : accepted[i].rix = accepted[i].six

\* The receiver's roll-over counter never runs ahead of the sender's:
\* once ahead, every genuine packet of the sender's period fails the tag
\* check in srtp_decrypt, since the HMAC covers the receiver's roc.
RocNeverAhead ==
    rHas /\ sHas => rRoc <= sRoc

AcceptedSix == {accepted[i].six : i \in 1 .. Len(accepted)}

\* Spec 4.2: a replay list refuses an index only when it has seen it or it
\* is too old.  srtp_decrypt never answers EALREADY to a packet that was
\* never accepted and lies inside the window (scenarios 1 and 3 of the
\* spec decrypt a first packet with sequence number 0).
NoFalseReplay ==
    rLast # <<>> /\ rLast.res = "EALREADY" => Six(rLast.pkt) \in AcceptedSix

\* Spec 5: "decrypt tolerates reordering up to the 64-slot replay window":
\* once the stream is running, a genuine packet that was not accepted yet
\* and is less than a window away from the highest accepted index is
\* accepted when it arrives, whatever the order of arrival.
\* The packet handed to srtp_decrypt is genuine, new, and less than a
\* window away from every index accepted so far.
InWindowOfAccepted(p) ==
    /\ p.genuine
    /\ accepted # <<>>
    /\ Six(p) \notin AcceptedSix
    /\ \A a \in AcceptedSix : Six(p) - a < ReplayWin /\ a - Six(p) < ReplayWin

ReorderTolerance ==
    [][Deliver /\ InWindowOfAccepted(rLast'.pkt) => rLast'.res = "ok"]_vars

\* RFC 3711 3.3 and 3.3.2, as one specification: srtp_decrypt behaves as a
\* protected channel (ProtectedChannel).  Every packet it returns 0 for is
\* decrypted under an index the sender used for a packet it protected,
\* and no index is handed to the application twice; srtp_encrypt only
\* adds indices.  The receiver's index is its estimate from roc and s_l.
Chan == INSTANCE ProtectedChannel
            WITH sentIx <- {Six(p) : p \in sent},
                 delivered <- [i \in 1 .. Len(accepted) |-> accepted[i].rix]

ChannelRefined == Chan!Spec
=============================================================================
