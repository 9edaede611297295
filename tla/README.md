# Formal models of re_cpm

TLA+ models of the stateful parts of `src/`, TLC configurations that check
them on small instances, and TLAPS proofs of their main invariants for every
value of the constants.  `PROJECT.json` lists every component, run, mutant,
mapped definition, finding, hazard and theorem; this file explains them.

## The system

`src/` is a subset of a real-time communications library:

| part | source | what it keeps |
|---|---|---|
| SRTP | `src/srtp/srtp.c` | per SSRC: roll-over counter `roc`, highest sequence number `s_l`, RTP replay list |
| SRTCP | `src/srtp/srtcp.c` | per SSRC: 31-bit `rtcp_index`, RTCP replay list |
| SRTP context | `srtp_alloc`, `comp_init` in `srtp.c` | per RTP/RTCP component: AES instance, HMAC instance, mode |
| ICE checklist | `src/ice/chklist.c` | candidate pairs and their states, valid list, selected pair per component |
| ICE STUN server | `src/ice/stunsrv.c` | answers Binding requests, resolves role conflicts, runs triggered checks |
| ICE utilities | `src/ice/util.c` | priorities, role switch, duplicate removal |
| message queue | `src/mqueue/mqueue.c` | a non-blocking pipe between threads and the reactor |
| SIP sessions | `src/sipsess/listen.c`, `request.c` | offer/answer state of a session |
| helpers | `tcp/`, `net/`, `sip/`, `main/`, `base64/`, `aes/stub.c` | wrappers, parsers and tables without state of their own |

All of it runs on one reactor thread (spec 5): every handler runs to
completion.  The concurrency that matters is between the two ends of a
session and the network between them, and it is what the models interleave.
The SRTP helpers `stream_get_seq`, `srtp_get_index` and `srtp_replay_check`
are not in this repository; they are modelled from spec 4.2/4.3 and RFC 3711
Appendix A and marked `spec_modelled` in the map.

## Modules

### `SrtpReplay` — the replay list (spec 4.2)

`ReplayAccepts(l, b, i)` and `ReplayShift(l, b, i)` are the check and the
update of a replay list with highest index `l` and the set `b` of offsets
below it already seen (the 64-bit bitmap as a set of offsets).  The window
size is the constant `ReplayWin`.

### `SrtpStream` — one SRTP stream between a sender and a receiver

State: the sender's `appSeq` (next RTP sequence number), `sRoc`, `sSl`; the
receiver's `rRoc`, `rSl`, replay list `lix`/`bits`; the set `sent` of packets
on the wire; ghost variables `accepted` (the packets `srtp_decrypt` returned 0
for, with the sender's index `six` and the receiver's estimate `rix`) and
`rLast` (the last packet decrypted and its result).

| action | code |
|---|---|
| `srtp_encrypt` | `srtp_encrypt`, srtp.c 181-283: stream creation, ROC block, index, tag over the sender's roc, `s_l` update |
| `Deliver` | the network hands a sent packet (again, late, or never) to `srtp_decrypt`, srtp.c 286-430 |
| `Inject` | an attacker without the key hands a forged packet to `srtp_decrypt` |

Cipher and HMAC are black boxes: a packet carries the roc the sender's HMAC
covered and whether its tag was made with the key.  The receiver's tag check
succeeds exactly when the packet is genuine and the receiver's roc (after the
ROC block, line 342) is the one the sender used.  Every early return of
`srtp_decrypt` keeps what the code changed before it: the stream is created
on first sight, the ROC block has run before the tag check.

The 16-bit sequence space and the 64-slot window are the constants
`SeqSpace` and `ReplayWin`; the code's 32768 is `SeqSpace \div 2`.  The
network delivers a packet at most `MaxReorder` indices behind the sender's
highest, and `MaxReorder < SeqSpace \div 2` is assumed (a delay of half the
sequence space is a loss burst; see the hazards).

### `SrtcpStream` — one SRTCP stream

State: the sender's `rtcpIndex`, the packets on the wire, the receiver's
RTCP replay list, the ghost `accepted` and `rLast`.  `Mode` (CTR or GCM)
and `Unencrypted` (the `SRTP_UNENCRYPTED_SRTCP` flag) decide, as
`srtp_alloc` does, whether the RTCP component has an AES and an HMAC
(`HasAes`, `HasHmac`).  `srtcp_encrypt` advances the index (masked to
`IndexSpace`), sets the E bit when it encrypted; `srtcp_decrypt` checks the
HMAC and the replay list when there is an HMAC and authenticates with GCM
only when the packet's E bit is set, as srtcp.c 170-253 do.

### `ProtectedChannel` — what the receiving side of a stream promises

An abstract specification, not a model of code: `sentIx` is the set of
indices the sender has protected, and `delivered` is the sequence of indices
the receiver has handed to the application.  `Send` adds an index.  An index
may repeat once the index space wraps.  `Receive(i)` appends an index that
was sent and has not been delivered yet.  Loss, reordering and refused
packets are stutters.  This is RFC 3711 3.3/3.4 and spec 4.2/4.6: only the
sender's packets are delivered, and none twice.

`SrtpStream` is shown to implement it (`ChannelRefined == Chan!Spec`).
It maps `sentIx` to the sender's indices `Six(p)` of the packets on the
wire, and `delivered` to the receiver's index estimates (`rix`) of the
accepted packets.  Refinement therefore also requires the estimate to be
the index of a packet that was sent.

### `IceRole` — role conflict between two agents (stunsrv.c, util.c)

Two agents, each with a fixed tiebreaker, send `MaxChecks` connectivity
checks each.  A check is one STUN transaction: a request carrying the
sender's role and tiebreaker, answered 2xx or 487.  `icem_stund_recv`
resolves a request in its own role with the code's comparison
(`SwitchesOnConflict`: switch when the local tiebreaker is larger or equal,
else 487), whatever the local role.  The client side (`Recv487`, `Recv2xx`)
is in conncheck.c, not in this repository.  It is modelled from spec 4.9
and RFC 5245 7.1.3.1: on a 487 the agent takes the role opposite to the one
its request carried and sends the check again.  Messages of different
checks are delivered in any order.

`LargerTiebreakerControls` states RFC 5245 7.2.1.1.  A Controlling agent
whose tiebreaker is at least the request's answers 487 and stays
Controlling, and a Controlling agent whose tiebreaker is smaller switches.
A Controlled agent whose tiebreaker is at least the request's switches to
Controlling, and a Controlled agent whose tiebreaker is smaller answers 487.
Either way, of two agents in the same role the one with the larger
tiebreaker ends up Controlling.  The code's rule is right for two
Controlled agents and wrong for two Controlling ones.

### `IceChecklist` — the check list of one agent (chklist.c, stunsrv.c)

State: the check-list state, `checkl` (a sequence of `<<lcand, rcand>>`
pairs), each pair's state and stored priority `pprio`, the valid list, the
nominated flags, the local role, `concluded` and the selected pair `sel` of
each component; ghosts `formed` (the pairs before pruning) and `nomSent`.

| action | code |
|---|---|
| `ConncheckStart` | `icem_checklist_form` (`candpairs_form`, sort by `pprio`, `candpair_prune` = `ice_list_unique` with `unique_handler`), then `ice_candpair_set_states` |
| `ScheduleCheck` | the pacing timer: first Waiting pair, else first Frozen (spec 4.9) |
| `Respond(p)` | for a pair In-Progress: the peer's 2xx (Succeeded, valid), 487 (`ice_switch_local_role`, sent again) or failure (Failed), then `icem_checklist_update` with `concluding_ice`, which selects the best pair and sends a check on it (`icem_conncheck_send`, chklist.c:234) in both roles, with USE-CANDIDATE when Controlling |
| `icem_stund_recv` | role conflict, then `handle_stun_full`: find the pair, `triggered_check`, nominated flag |

`ice_list_unique` is a recursive function `scan` over (list, le1, le2)
that removes elements while scanning, exactly as the two `le` pointers do.
It is a recursive function, not a RECURSIVE operator, so that the module
stays within the provers' reach.
The pair priority `2^32*min + 2*max + (G>D)` keeps its shape with
`PrioBase` in place of 2^32 (candidate priorities are below
`PrioBase / 2`, so the three terms do not overlap, as in the code).
Candidate lists are constants: server-reflexive candidates exist before
the checks and peer-reflexive discovery is left out.

### `MQueue` and `MQueueFifo` — the thread message queue (mqueue.c, sockopt.c)

`MQueueFifo` is what the queue promises: a FIFO with `Alloc`, `Push(m)`
(0 and enqueued, or an error and nothing enqueued), `Deliver` (the oldest
message to the handler, as long as the queue lives) and `Free` (drops
what is left).  `MQueue` is the code.  The pipe is a sequence of words
(`Word`); a `struct msg {data, magic, id}` is `MsgSize` = 3 of them
(`Frame`), and the pipe holds at most `PipeCap`.  `pushing[t]` is the
message thread `t` is pushing; `Main` is the thread running re_main.

| action | code |
|---|---|
| `mqueue_alloc(ok)` | `mqueue_alloc`: pipe, both ends non-blocking (`net_sockopt_blocking_set`), `fd_listen`; on an error the destructor runs and `*mqp` is not set |
| `PushEnter(t, m)` | a thread calls `mqueue_push` and fills in the struct msg |
| `mqueue_push(t)` | `EINVAL` for a NULL queue, else `pipe_write` of the whole struct (atomic: sizeof(msg) <= PIPE_BUF) or -1/`EAGAIN` on a full non-blocking pipe; a blocking end waits for room; `EPIPE` on a short write |
| `event_handler` | `pipe_read` of sizeof(msg) words; a short read or a bad magic drops them, otherwise `mq->h(id, data)`; runs only while `Main` is not inside a push |
| `destructor` | `mem_deref` by the owner once no push is running: closes both ends, dropping what the pipe holds |

`Fifo == INSTANCE MQueueFifo WITH state <- mq, queue <- Blocks(pipe)`:
the abstract queue is the list of messages whose struct msg the pipe
holds, one per `MsgSize` words.

## Runs

| run | cfg | bounds | shows |
|---|---|---|---|
| srtp_stream | `MCSrtpStream.cfg` | SeqSpace 8, RocSpace 4, window 2, delay 3, 10 packets, 1 forged | NoReplay, IndexAgreement and ChannelRefined hold with loss, duplication, reordering and injection across two roll-overs |
| srtp_first_zero | `MCSrtpStreamFirstZero.cfg` | as srtp_stream | violation of NoFalseReplay: first packet with index 0 refused |
| srtp_rollover_reorder | `MCSrtpStreamRollover.cfg` | as srtp_stream | violation of ReorderTolerance across a roll-over |
| srtp_tamper_roc | `MCSrtpStreamTamper.cfg` | in-order network, 1 forged packet | violation of RocNeverAhead |
| srtcp_ctr | `MCSrtcpStream.cfg` | CTR, index space 8, 4 packets, 2 forged | NoReplay, InOrderAccepted |
| srtcp_gcm_forge | `MCSrtcpStreamGcmForge.cfg` | GCM, 1 forged | violation of OnlyAuthentic |
| ice_role | `MCIceRole.cfg` | 2 agents, tiebreakers 1 and 2, 2 checks each, any initial roles | RolesSettle, ChecksComplete (under fairness) |
| ice_role_winner | `MCIceRoleWinner.cfg` | as ice_role | violation of LargerTiebreakerControls: two Controlling agents, the larger tiebreaker switches |
| ice_checklist | `MCIceChecklist.cfg` | 3 local (host, srflx with host base, host of component 2), 4 remote, 2 inbound requests, 1 487 | PruneKeepsBest, SelectedStable, Concludes (under fairness) |
| ice_checklist_partial_conclusion | `MCIceChecklistFailed.cfg` | as ice_checklist | violation of FailedConcludesNothing |
| ice_checklist_stale_priority | `MCIceChecklistStale.cfg` | priorities {5,3} on both sides, one component | violation of SelectedBest |
| mqueue | `MCMQueue.cfg` | 2 threads (one is re_main), 3 messages, pipe of 7 words | FifoRefined (MQueue implements MQueueFifo, its fairness included), PushCompletes |

Why the bounds are enough: 10 packets over a sequence space of 8 take the
sender through a roll-over and the receiver through the ROC block from both
sides; a delay of 3 is more than the window (2), so packets arrive both
inside and behind the window; the ROC space of 4 wraps the receiver's roc in
the forged-packet runs.  One injected packet is enough: it reaches every
branch of `srtp_decrypt` an attacker can reach (stream creation, the ROC
block, the tag failure), and a single one already moves the receiver's ROC
ahead (`srtp_tamper_roc`).  A second packet doubles the state space
without opening a new branch.  The SRTCP index space of 8 with 4 packets does not
wrap: no run sends past the index space, so the refusal of every packet
after a wrap of the 31-bit index (srtcp.c:54) is not checked, and
`InOrderDelivery` is proved only under `MaxSend < IndexSpace`.

The ICE role runs use tiebreakers 1 and 2 only; equal tiebreakers (both
agents switch at stunsrv.c:232) are not in any run.

The ICE candidate lists of `ice_checklist` form five pairs of which
pruning must remove two (the server-reflexive pairs whose base is the host),
and give a foundation shared by the two components, so both branches of the
state computation run.  Two inbound requests are enough for a triggered
check to reopen a Failed pair after the check list concluded; with the
check `concluding_ice` sends on the selected pair, the check list can
complete a second time (what SelectedStable is about); one 487 is enough to switch the role between the
checks.  The remote candidate of another address family exercises the
request from a source with no pair.

The pipe of `mqueue` has room for two struct msg and one word more, so a
third push finds it full (EAGAIN) while the words that are left over never
make a whole message; three messages and two threads let both threads push
at once, and the re_main thread push while the pipe is full.

Fairness.  The SRTP and SRTCP runs assume none: their properties are
safety and action properties.  The ICE runs assume weak fairness of the
steps the code guarantees to happen: the reactor handles every datagram
that arrives, STUN retransmits a request until a response comes or its
transaction times out (so every check in progress ends, `Respond`), and
the pacing timer keeps calling the scheduler (`ScheduleCheck`).  The peer's
own requests and its 487 answers are not fair (and are bounded): the peer
may stop sending.  The `mqueue` run assumes weak fairness of the return
of every `mqueue_push` that can return (the kernel completes a write that
fits or fails a non-blocking one) and strong fairness of `event_handler`:
re_main polls again after every callback and handles a readable pipe,
but it may itself keep entering pushes, which disable the handler
meanwhile.  These runs, and `mqueue`, set CHECK_DEADLOCK FALSE because the system
really stops: once every check has ended, or once the queue is freed,
nothing is enabled.

## Findings

See `findings` in `PROJECT.json`: the first packet with index 0 is taken for
a replay; reordering across a roll-over loses packets; one forged packet
as the first packet of a stream sets the receiver's s_l, and the genuine
packet that follows then moves the receiver's ROC ahead of the sender's
before its authentication fails; under GCM, SRTCP accepts forged packets
with E = 0, replays of a genuine packet among them; on a role conflict between two Controlling
agents the one with the larger tiebreaker becomes Controlled
(stunsrv.c:232 applies the Controlled agent's rule of RFC 5245 7.2.1.1 in
both roles); a check list that fails has already selected and nominated
pairs for the components before the failing one; and after a role switch
the selected pair is chosen by the old role's priorities.

## Proofs

`SrtpStreamProofs` proves, for every value of the constants allowed by the
module's assumptions:

* `TypeCorrect`: `Spec => []TypeOK`.
* `ReplaySafe`: `Spec => [](NoReplay /\ IndexAgreement)`.

`NoReplay` is not inductive: a step could accept an index the replay list
has forgotten.  The inductive invariant `IInv` adds that the replay list
marks every index accepted so far (`Marked`: each is at most `lix`, and its
slot is set when it is inside the window).  The argument:

1. `IndexEstimate`: when the too-far-ahead check passes, `srtp_get_index`
   returns the index in the period the ROC block settled on.  With the tag
   check (the packet's roc equals the receiver's), the receiver's index of an
   accepted packet is the sender's (`AcceptedIndex`).
2. `ReplayFresh`: an index the replay list accepts is not among the marked
   ones, and after the update the list marks them and the new one.
3. Every other outcome of `srtp_decrypt` leaves the list and the log alone,
   and `srtp_encrypt` does not touch the receiver.

The window lemmas (`ReplayShiftType`, `Marked`, `ReplayFresh`) are shared
by both streams and live in `SrtpReplayProofs`.

`SrtcpStreamProofs` proves, for every value of the constants:

* `TypeCorrect`: `Spec => []TypeOK`, in both modes and with or without
  SRTP_UNENCRYPTED_SRTCP.
* `AuthenticOnce`: under `Mode = "CTR"`, `Spec => [](OnlyAuthentic /\ NoReplay)`:
  only the sender's packets are accepted, and each at most once.
  The RTCP component has an HMAC exactly in this mode (`HasHmac`).  No
  bound relates `MaxSend` to `IndexSpace`, so the theorem covers a wrapped
  31-bit index.  The GCM mode is left out because there the property fails
  (run `srtcp_gcm_forge`).

Its inductive invariant adds three facts:

* every packet on the wire is genuine and numbered below `nSent`, so the
  packet determines its number (`SentInv`);
* every accepted packet was on the wire;
* the replay list marks the index of every accepted packet.

A replay of an accepted packet carries an index that is already marked, so
`ReplayFresh` makes `srtcp_decrypt` refuse it.  A forged packet fails the
HMAC check (`TagVerified`).

`MQueueProofs` proves, for every set of threads and messages and every
pipe capacity:

* `TypeCorrect`: `Spec => []TypeOK` (the pipe never holds more than
  `PipeCap` words).
* `Refinement`: `Spec => Fifo!SafetySpec`, the safety part of the
  refinement `FifoRefined` that the run checks with its fairness.

Its inductive invariant `IInv` adds two facts to `TypeOK`.  First, the pipe
holds whole frames (`FramedSeq`).  Second, a thread inside `mqueue_push`
pushes a message not yet pushed with success, on a queue not yet freed, and
no other thread pushes the same message (`PushSafe`).  The lemmas on frames
carry the argument.  `BlocksAppend`: writing a struct msg appends its
message to `Blocks(pipe)`.  `BlocksRead`: reading one from framed words
gives the first message whole, with its magic word in place, and leaves
frames of the rest.  Each operation then maps to one step of the FIFO or to
a stutter (`AllocStep`, `PushEnterStep`, `PushStep`, `EventStep`,
`DestructorStep`).

`SrtpStreamProofs` also proves that the SRTP stream implements
`ProtectedChannel`, for every value of the constants:

* `ChannelRefinement`: `Spec => ChannelRefined`.

The proof has three steps.  First, `Init` maps to the channel's `Init`: no
packets have been sent and the log is empty.  Second, every step is a step
of the channel, or a stutter of it, under an invariant (`RefineStep`).
Third, PTL combines the two.

* `srtp_encrypt` is `Send`, with the new packet's index as witness.
* A `Deliver` that `srtp_decrypt` accepts is `Receive` of the packet's index.
  * The index was sent: it is the packet's own (`AcceptedIndex`).
  * It was not delivered before: `NoReplay` holds of the longer log (from
    the inductive invariant of the next state), and `IndexAgreement` holds
    of the shorter one (`DelivFresh`).
  * `Deliv` grows by that index (`DelivAppend`).
* A refused `Deliver` and every `Inject` leave `sent` and the log alone
  (`DecryptLog`, `ForgedRefused`), so they are stutters of the channel.

The invariant is `RInv == IInv /\ AccSent`, where `AccSent` says that every
accepted packet's sender index is in `sent`.

`SrtpStreamProofs` also states `IndexAgreed` (`Spec => []IndexAgreement`),
the invariant the run checks on its own, as a corollary of `ReplaySafe`.

`SrtcpStreamProofs` proves the action property of run `srtcp_ctr`:

* `InOrderDelivery`: under `MaxSend < IndexSpace`, `Spec => InOrderAccepted`,
  in both modes.

The hypothesis is needed, not a convenience: once the index wraps to 0
(the hazard at srtcp.c:54) the replay list's highest index is above every
new index, and a genuine in-order packet is refused.  The invariant `OrderInv` holds in both
modes.  Without a wrap, the sender's index is the number of encrypts and
the packet numbered n carries index n + 1 (`IxInv`).  In CTR mode
`OrderInv` adds `IInv` and that the highest index of the replay list is 0
or the index of an accepted packet (`LixInv`).  A genuine packet sent after
every accepted one then has an index above the list's highest index, so
the replay check passes.  Under GCM the RTCP component has no HMAC and
`srtcp_decrypt` makes no replay check, so a genuine packet is always
accepted and `IxInv` alone carries the step.

`IceRoleProofs` proves, for every pair of tiebreakers and every bound on
the checks:

* `TypeCorrect`: `Spec => []TypeOK`.

`TypeOK` is inductive as it stands: every message a handler puts on the
network is built from a message in flight or by `Request` from a check
number in range, and `ice_switch_local_role` always yields a role (also
when `Recv487` applies it to the role of the request rather than the
current one).  One lemma per action (`SendCheckType`, `StundRecvType`,
`Recv487Type`, `Recv2xxType`) shows this.

Out of the provers' reach, and left to TLC: liveness
(RolesSettle, ChecksComplete, Concludes, PushCompletes and the
fairness half of FifoRefined: TLAPS does not reason about
ENABLED and fairness here), and any property of the violation runs.  What
the recursive `ice_list_unique` computes for every input (PruneKeepsBest)
is induction over data, which the installed provers cannot do (the
induction theorems take an operator parameter).  For the same reason
`IceChecklist`'s `TypeOK` is not proved: that the check list holds only
pairs of the candidate lists rests on what the pruning walk returns.

`IceChecklistProofs` proves, for any candidate lists, roles and bounds:

* `SelectionFinal`: `Spec => SelectedStable`.

Its invariant `SelConcluded` says that a component with a selected pair
has concluded.  `icem_checklist_update` selects a pair only for a
component that `concluding_ice` accepts, and `concluding_ice` refuses a
concluded one; the same update marks the component concluded.  No other
action writes `sel` or `concluded`.  The argument does not depend on what
the pruning walk returns, so no fact about the check list's contents is
needed.

The selected pair does not stay Succeeded: `concluding_ice` sends a check
on it (chklist.c:234), which the model, like `triggered_check`, treats as
the pair going In-Progress, and that check may fail.  The proof needs no
fact about pair states: `UpdateSel` holds for any states the response
handler leaves.

## Not modelled

The SRTP GCM path, key derivation, header parsing and the cipher itself;
STUN message parsing, integrity and fingerprint checks (they choose an
error reply and change no state); peer-reflexive candidates; the
WIN32 socket-pair pipe of the message queue (a short write is possible
there, see the hazard at mqueue.c:170), a push racing `mem_deref` of the
queue (a use after free the callers must rule out), the setsockopt
wrappers of sockopt.c; SIP sessions; the helpers without state (see `components`).
