----------------------------- MODULE SrtcpStream ----------------------------
(***************************************************************************)
(* One SRTCP stream (one sender SSRC) between two contexts,               *)
(* src/srtp/srtcp.c, for the suite and flags srtp_alloc was given.        *)
(*                                                                         *)
(* srtp_alloc (srtp.c) sets up the RTCP component: an AES instance unless *)
(* SRTP_UNENCRYPTED_SRTCP is set, an HMAC instance for the AES-CM suites  *)
(* only.  srtcp_encrypt advances the stream's 31-bit SRTCP index, sets    *)
(* the E bit when it encrypted, and appends E|index and, with HMAC, the   *)
(* tag over everything before it.  With GCM the header and E|index are    *)
(* associated data of the GCM tag.  srtcp_decrypt reads E and the index   *)
(* from the trailer, checks the HMAC and the RTCP replay list when there  *)
(* is an HMAC, and decrypts or authenticates the payload with GCM when    *)
(* the E bit says the payload was encrypted.                               *)
(*                                                                         *)
(* Cipher and MAC are black boxes: a packet carries its index, its E bit  *)
(* and whether its tags were made with the session keys.  n is the order  *)
(* in which the sender produced it (not on the wire).                     *)
(***************************************************************************)
EXTENDS Integers, Sequences, SrtpReplay

CONSTANTS
    Mode,         \* "CTR" (AES-CM + HMAC-SHA1 suites) or "GCM"
    Unencrypted,  \* the SRTP_UNENCRYPTED_SRTCP flag of srtp_alloc
    IndexSpace,   \* 2^31: the SRTCP index is masked with 0x7fffffff
    MaxSend,      \* bound on srtcp_encrypt calls
    MaxForge      \* bound on packets injected by an attacker

ASSUME ModeAssumption == Mode \in {"CTR", "GCM"} /\ Unencrypted \in BOOLEAN
ASSUME SrtcpBoundsAssumption ==
    IndexSpace \in Nat \ {0} /\ MaxSend \in Nat /\ MaxForge \in Nat

\* srtp_alloc / comp_init for the RTCP component.
HasAes == ~Unencrypted
HasHmac == Mode = "CTR"

Indices == 0 .. IndexSpace - 1
Packet == [n : Nat, ix : Indices, e : {0, 1}, genuine : BOOLEAN]
Results == {"ok", "EAUTH", "EALREADY"}

VARIABLES
    sHas,      \* sender context has a stream for the SSRC
    rtcpIndex, \* sender strm->rtcp_index
    sent,      \* genuine packets put on the wire
    nSent,     \* number of srtcp_encrypt calls
    rHas,      \* receiver context has a stream for the SSRC
    lix,       \* receiver strm->replay_rtcp: highest index accepted
    bits,      \* receiver strm->replay_rtcp: offsets below lix seen
    accepted,  \* packets srtcp_decrypt returned 0 for
    rLast,     \* the last packet handed to srtcp_decrypt and its result
    nForged    \* number of injected packets

sndVars == <<sHas, rtcpIndex, sent, nSent>>
rcvVars == <<rHas, lix, bits, accepted, rLast>>
vars == <<sndVars, rcvVars, nForged>>

-----------------------------------------------------------------------------
Init ==
    /\ sHas = FALSE /\ rtcpIndex = 0
    /\ sent = {} /\ nSent = 0
    /\ rHas = FALSE /\ lix = 0 /\ bits = {}
    /\ accepted = <<>> /\ rLast = <<>>
    /\ nForged = 0

\* Mutant: the increment of the index is lost.
NextIndexStuck(i) == i

\* strm->rtcp_index = (strm->rtcp_index+1) & 0x7fffffff
NextIndex(i) == (i + 1) % IndexSpace

\* srtcp_encrypt: the index is advanced on every call; E is set exactly
\* when the payload was encrypted (CTR or GCM branch taken).
srtcp_encrypt ==
    /\ nSent < MaxSend
    /\ LET ix == NextIndex(rtcpIndex)
       IN  /\ rtcpIndex' = ix
           /\ sent' = sent \cup {[n |-> nSent, ix |-> ix,
                                  e |-> IF HasAes THEN 1 ELSE 0, genuine |-> TRUE]}
    /\ sHas' = TRUE
    /\ nSent' = nSent + 1
    /\ UNCHANGED <<rcvVars, nForged>>

\* memcmp(tag, tag_pkt, rtcp->tag_len) == 0: the HMAC over header,
\* payload and E|index matches only the sender's.
TagVerified(p) == p.genuine

\* Mutant: the SRTCP replay check left out.
ReplayCheckOmitted(l, b, i) == TRUE

\* SRTCP replay protection: srtp_replay_check on the RTCP replay list.
ReplayProtected(l, b, i) == ReplayAccepts(l, b, i)

\* The GCM branch of srtcp_decrypt: rtcp->aes && ep && mode == GCM.
GcmBranch(p) == HasAes /\ p.e = 1 /\ Mode = "GCM"

\* srtcp_decrypt of packet p: with HMAC the tag is checked, then the replay
\* list; the GCM branch authenticates only when E is set.
srtcp_decrypt(p) ==
    LET res == IF HasHmac /\ ~TagVerified(p) THEN "EAUTH"
               ELSE IF HasHmac /\ ~ReplayProtected(lix, bits, p.ix) THEN "EALREADY"
               ELSE IF GcmBranch(p) /\ ~p.genuine THEN "EAUTH"
               ELSE "ok"
    IN  /\ rHas' = TRUE
        /\ rLast' = [pkt |-> p, res |-> res]
        /\ IF HasHmac /\ res = "ok"
           THEN LET w == ReplayShift(lix, bits, p.ix)
                IN  lix' = w.lix /\ bits' = w.bits
           ELSE UNCHANGED <<lix, bits>>
        /\ accepted' = IF res = "ok" THEN Append(accepted, p) ELSE accepted

\* The network delivers any packet that was sent, in any order, any number
\* of times, or never.
Deliver ==
    /\ \E p \in sent : srtcp_decrypt(p)
    /\ UNCHANGED <<sndVars, nForged>>

\* An attacker without the keys injects a packet with any E bit and index.
Inject ==
    /\ nForged < MaxForge
    /\ \E i \in Indices, e \in {0, 1} :
          srtcp_decrypt([n |-> MaxSend + nForged, ix |-> i, e |-> e, genuine |-> FALSE])
    /\ nForged' = nForged + 1
    /\ UNCHANGED sndVars

Next == srtcp_encrypt \/ Deliver \/ Inject

Spec == Init /\ [][Next]_vars

-----------------------------------------------------------------------------
TypeOK ==
    /\ sHas \in BOOLEAN /\ rtcpIndex \in Indices
    /\ sent \subseteq Packet /\ nSent \in 0 .. MaxSend
    /\ rHas \in BOOLEAN /\ lix \in Nat /\ bits \subseteq Slots
    /\ accepted \in Seq(Packet)
    /\ rLast \in {<<>>} \cup [pkt : Packet, res : Results]
    /\ nForged \in 0 .. MaxForge

\* Spec 4.6 and RFC 3711: srtcp_decrypt returns success only for packets
\* the sender produced; an injected or altered packet is refused.
OnlyAuthentic ==
    \A i \in 1 .. Len(accepted) : accepted[i].genuine

\* Spec 4.6: "SRTCP replay check on index": srtcp_decrypt hands each RTCP
\* packet of the sender to the application at most once.
NoReplay ==
    \A i, j \in 1 .. Len(accepted) :
        accepted[i].n = accepted[j].n => i = j

\* Spec 8: "SRTCP index is strictly monotone across encrypts", so that a
\* packet delivered in order is never taken for a replay: a genuine packet
\* sent after every packet accepted so far is accepted.
InOrderAccepted ==
    [][Deliver /\ rLast'.pkt.genuine
       /\ (\A i \in 1 .. Len(accepted) : accepted[i].n < rLast'.pkt.n)
       => rLast'.res = "ok"]_vars

=============================================================================
