------------------------------- MODULE MQueue -------------------------------
(***************************************************************************)
(* The thread-safe message queue, src/mqueue/mqueue.c.  mqueue_alloc      *)
(* opens a pipe, makes both ends non-blocking (net_sockopt_blocking_set,  *)
(* src/net/sockopt.c) and listens on the read end in the re_main loop.    *)
(* mqueue_push, from any thread, writes one struct msg {data, magic, id}  *)
(* to the write end; event_handler, on the re_main thread, reads one      *)
(* struct msg per FD_READ event, checks its size and magic and calls the  *)
(* handler.  The destructor closes both ends.                              *)
(*                                                                         *)
(* The pipe is a byte stream: a struct msg is MsgSize words (data, magic, *)
(* id), and the pipe holds at most PipeCap of them.  A write of           *)
(* sizeof(struct msg) <= PIPE_BUF bytes is atomic (POSIX): it writes      *)
(* everything, or on a non-blocking pipe without room fails with EAGAIN,  *)
(* or on a blocking one waits for room.  A push is two steps, entering    *)
(* mqueue_push and the return of pipe_write, so that a thread can wait   *)
(* inside it.  Main is the thread that runs re_main: while it waits in a  *)
(* push, event_handler cannot run.                                        *)
(***************************************************************************)
EXTENDS Integers, Sequences

CONSTANTS
    Threads,   \* threads calling mqueue_push
    Main,      \* the thread running re_main, which calls event_handler
    Msgs,      \* the messages pushed (strings: their data and id)
    PipeCap    \* capacity of the pipe in words

MsgSize == 3   \* struct msg: data, magic, id

ASSUME MQueueAssumption ==
    /\ Main \in Threads
    /\ PipeCap \in Nat /\ PipeCap >= MsgSize
    /\ "idle" \notin Msgs

Results == {"none", "ok", "EINVAL", "EAGAIN", "EPIPE"}

\* Word k of the struct msg of message m: 1 data, 2 magic, 3 id.
Word == [m : Msgs, k : 1 .. MsgSize]
Frame(m) == [k \in 1 .. MsgSize |-> [m |-> m, k |-> k]]

VARIABLES
    mq,          \* "none" (no queue, mq == NULL), "open", "freed"
    wrFlags,     \* the file status flags of pfd[1]
    pipe,        \* the words in the pipe
    pushing,     \* the message each thread is pushing, or "idle"
    result,      \* what the last mqueue_push of each message returned
    delivered    \* the (data, id) pairs mq->h was called with

vars == <<mq, wrFlags, pipe, pushing, result, delivered>>

Room == PipeCap - Len(pipe)

Init ==
    /\ mq = "none" /\ wrFlags = {}
    /\ pipe = <<>>
    /\ pushing = [t \in Threads |-> "idle"]
    /\ result = [m \in Msgs |-> "none"]
    /\ delivered = <<>>

-----------------------------------------------------------------------------
\* net_sockopt_blocking_set (POSIX branch): F_GETFL, clear or set
\* O_NONBLOCK, F_SETFL.
net_sockopt_blocking_set(flags, blocking) ==
    IF blocking THEN flags \ {"O_NONBLOCK"} ELSE flags \cup {"O_NONBLOCK"}

\* Mutant: the write end is left blocking (line 126 missing).
mqueue_alloc_blocking_write(ok) ==
    /\ mq = "none"
    /\ mq' = IF ok THEN "open" ELSE "none"
    /\ UNCHANGED wrFlags
    /\ UNCHANGED <<pipe, pushing, result, delivered>>

\* mqueue_alloc: pipe(), net_sockopt_blocking_set on both ends and
\* fd_listen; ok is whether all of them succeed.  On an error mem_deref
\* runs the destructor, which closes what was opened, and *mqp is not set.
mqueue_alloc(ok) ==
    /\ mq = "none"
    /\ mq' = IF ok THEN "open" ELSE "none"
    /\ wrFlags' = IF ok THEN net_sockopt_blocking_set(wrFlags, FALSE) ELSE wrFlags
    /\ UNCHANGED <<pipe, pushing, result, delivered>>

\* A thread enters mqueue_push(mq, id, data) for a message it has not yet
\* pushed with success.  The owner stops pushing before it frees the queue.
PushEnter(t, m) ==
    /\ pushing[t] = "idle" /\ mq # "freed"
    /\ result[m] # "ok"
    /\ \A u \in Threads : pushing[u] # m
    /\ pushing' = [pushing EXCEPT ![t] = m]
    /\ UNCHANGED <<mq, wrFlags, pipe, result, delivered>>

\* pipe_write of sizeof(msg) words: all of them when they fit, -1 (EAGAIN)
\* otherwise; a blocking write end does not return until they fit.
pipe_write_len == IF Room >= MsgSize THEN MsgSize ELSE -1

\* Mutant: the result of pipe_write is not looked at.
PushResultUnchecked(n) == "ok"

\* if (n < 0) return errno; return (n != sizeof(msg)) ? EPIPE : 0;
PushResult(n) ==
    IF n < 0 THEN "EAGAIN" ELSE IF n # MsgSize THEN "EPIPE" ELSE "ok"

\* mqueue_push returns: EINVAL for a NULL queue, else the result of the
\* write of the struct msg.
mqueue_push(t) ==
    /\ pushing[t] # "idle"
    /\ mq = "none" \/ Room >= MsgSize \/ "O_NONBLOCK" \in wrFlags
    /\ LET m == pushing[t]
           n == pipe_write_len
       IN  /\ pipe' = IF mq = "open" /\ n > 0 THEN pipe \o SubSeq(Frame(m), 1, n) ELSE pipe
           /\ result' = [result EXCEPT ![m] =
                           IF mq = "none" THEN "EINVAL" ELSE PushResult(n)]
    /\ pushing' = [pushing EXCEPT ![t] = "idle"]
    /\ UNCHANGED <<mq, wrFlags, delivered>>

\* event_handler on FD_READ, run by re_main while Main is not inside a
\* push: pipe_read of sizeof(msg) words; a short read or a bad magic word
\* drops what was read, otherwise mq->h(msg.id, msg.data).
event_handler ==
    /\ mq = "open" /\ pipe # <<>> /\ pushing[Main] = "idle"
    /\ LET n   == IF Len(pipe) < MsgSize THEN Len(pipe) ELSE MsgSize
           msg == SubSeq(pipe, 1, n)
       IN  /\ pipe' = SubSeq(pipe, n + 1, Len(pipe))
           /\ delivered' = IF n = MsgSize /\ msg[2].k = 2
                           THEN Append(delivered, [data |-> msg[1].m, id |-> msg[3].m])
                           ELSE delivered
    /\ UNCHANGED <<mq, wrFlags, pushing, result>>

\* mem_deref of the queue by its owner once no thread is pushing: the
\* destructor closes both ends, dropping the words still in the pipe.
destructor ==
    /\ mq = "open"
    /\ \A t \in Threads : pushing[t] = "idle"
    /\ mq' = "freed" /\ pipe' = <<>>
    /\ UNCHANGED <<wrFlags, pushing, result, delivered>>

Next ==
    \/ \E ok \in BOOLEAN : mqueue_alloc(ok)
    \/ destructor
    \/ event_handler
    \/ \E t \in Threads :
          \/ \E m \in Msgs : PushEnter(t, m)
          \/ mqueue_push(t)

\* The kernel returns from a write that can return, and re_main, which
\* goes back to polling after every callback, runs event_handler whenever
\* the read end is readable and it is not itself inside a push (strong
\* fairness: Main may enter pushes again and again).
Fairness ==
    /\ \A t \in Threads : WF_vars(mqueue_push(t))
    /\ SF_vars(event_handler)

Spec == Init /\ [][Next]_vars /\ Fairness

-----------------------------------------------------------------------------
TypeOK ==
    /\ mq \in {"none", "open", "freed"} /\ wrFlags \subseteq {"O_NONBLOCK"}
    /\ pipe \in Seq(Word) /\ Len(pipe) <= PipeCap
    /\ pushing \in [Threads -> Msgs \cup {"idle"}]
    /\ result \in [Msgs -> Results]
    /\ delivered \in Seq([data : Msgs, id : Msgs])

\* The messages whose struct msg the pipe holds, one per MsgSize words.
Blocks(p) == [i \in 1 .. Len(p) \div MsgSize |-> p[(i - 1) * MsgSize + 1].m]

Fifo == INSTANCE MQueueFifo WITH state <- mq, queue <- Blocks(pipe)

\* The pipe, the two-step push and event_handler implement the FIFO of
\* MQueueFifo: mqueue_push returns 0 exactly when it enqueued the whole
\* message, the handler gets the messages in push order, each once and
\* with its own id and data, and every one the queue holds is handled
\* unless the queue is freed.
FifoRefined == Fifo!Spec

\* A thread that calls mqueue_push returns from it, the re_main thread
\* included: a push to a full queue never waits for a reader that cannot
\* run.
PushCompletes ==
    \A t \in Threads : pushing[t] # "idle" ~> pushing[t] = "idle"
=============================================================================
