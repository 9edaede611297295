---------------------------- MODULE MQueueProofs ----------------------------
(***************************************************************************)
(* Proofs about MQueue for every set of threads and messages and every    *)
(* pipe capacity: the type invariant, and that the queue implements the   *)
(* safety part of the FIFO of MQueueFifo (every step of mqueue_alloc,     *)
(* mqueue_push, event_handler and the destructor is a step of the FIFO or *)
(* leaves it alone).                                                       *)
(***************************************************************************)
EXTENDS MQueue, SequenceTheorems, TLAPS

USE MQueueAssumption

\* p is the concatenation of whole struct msg: its length is a multiple of
\* MsgSize and the words of each struct are its words 1 .. MsgSize.
FramedSeq(p) ==
    /\ Len(p) % MsgSize = 0
    /\ \A j \in 0 .. Len(p) \div MsgSize - 1, k \in 1 .. MsgSize :
          p[j * MsgSize + k] = [m |-> p[j * MsgSize + 1].m, k |-> k]

\* A thread inside mqueue_push pushes a message not yet pushed with
\* success, on a queue not yet freed, and no other thread pushes it.
PushSafe ==
    \A t \in Threads : pushing[t] # "idle" =>
        /\ result[pushing[t]] # "ok" /\ mq # "freed"
        /\ \A u \in Threads \ {t} : pushing[u] # pushing[t]

\* The invariant the refinement rests on.
IInv == TypeOK /\ FramedSeq(pipe) /\ PushSafe

-----------------------------------------------------------------------------
(* Lemmas about whole frames in the pipe.                                  *)

\* The words of one struct msg.
LEMMA FrameType ==
    ASSUME NEW m \in Msgs
    PROVE  /\ Frame(m) \in Seq(Word) /\ Len(Frame(m)) = MsgSize
           /\ \A k \in 1 .. MsgSize : Frame(m)[k] = [m |-> m, k |-> k]
BY DEF Frame, Word, MsgSize

\* The messages of a framed pipe form a sequence with one message per
\* MsgSize words.
LEMMA BlocksType ==
    ASSUME NEW p \in Seq(Word), FramedSeq(p)
    PROVE  /\ Blocks(p) \in Seq(Msgs)
           /\ Len(Blocks(p)) = Len(p) \div MsgSize
           /\ Len(p) = Len(Blocks(p)) * MsgSize
<1>1. Len(p) \in Nat /\ Len(p) % MsgSize = 0
  BY LenProperties DEF FramedSeq
<1>2. Len(p) \div MsgSize \in Nat /\ Len(p) = (Len(p) \div MsgSize) * MsgSize
  BY <1>1 DEF MsgSize
<1>3. \A i \in 1 .. Len(p) \div MsgSize : (i - 1) * MsgSize + 1 \in 1 .. Len(p)
  BY <1>2 DEF MsgSize
<1>4. \A i \in 1 .. Len(p) : p[i] \in Word
  BY ElementOfSeq
<1>5. \A i \in 1 .. Len(p) \div MsgSize : p[(i - 1) * MsgSize + 1].m \in Msgs
  BY <1>3, <1>4 DEF Word
<1>6. QED
  BY <1>2, <1>5 DEF Blocks

\* A sequence that extends whole frames by the words of one struct msg is
\* framed and holds one more message.
LEMMA FramedExtend ==
    ASSUME NEW p \in Seq(Word), FramedSeq(p), NEW x \in Msgs,
           NEW q \in Seq(Word), Len(q) = Len(p) + MsgSize,
           \A i \in 1 .. Len(p) : q[i] = p[i],
           \A k \in 1 .. MsgSize : q[Len(p) + k] = [m |-> x, k |-> k]
    PROVE  FramedSeq(q) /\ Blocks(q) = Append(Blocks(p), x)
<1> DEFINE N == Len(Blocks(p))
<1>2. Blocks(p) \in Seq(Msgs) /\ N \in Nat /\ Len(p) = N * MsgSize
  BY BlocksType
<1>4. Len(q) = (N + 1) * MsgSize /\ Len(q) % MsgSize = 0 /\ Len(q) \div MsgSize = N + 1
  BY <1>2 DEF MsgSize
<1>5. FramedSeq(q)
  <2> SUFFICES ASSUME NEW j \in 0 .. N, NEW k \in 1 .. MsgSize
               PROVE  q[j * MsgSize + k] = [m |-> q[j * MsgSize + 1].m, k |-> k]
    BY <1>4 DEF FramedSeq
  <2>1. CASE j < N
    <3>1. j \in 0 .. Len(p) \div MsgSize - 1
      BY <1>2, <2>1 DEF MsgSize
    <3>2. j * MsgSize + k \in 1 .. Len(p) /\ j * MsgSize + 1 \in 1 .. Len(p)
      BY <1>2, <2>1 DEF MsgSize
    <3>3. p[j * MsgSize + k] = [m |-> p[j * MsgSize + 1].m, k |-> k]
      BY <3>1 DEF FramedSeq
    <3>4. QED
      BY <3>2, <3>3
  <2>2. CASE j = N
    <3>1. j * MsgSize + k = Len(p) + k /\ j * MsgSize + 1 = Len(p) + 1
      BY <1>2, <2>2 DEF MsgSize
    <3>2. q[j * MsgSize + k] = [m |-> x, k |-> k]
      BY <3>1
    <3>3. q[j * MsgSize + 1] = [m |-> x, k |-> 1]
      BY <3>1 DEF MsgSize
    <3>4. QED
      BY <3>2, <3>3
  <2>3. QED
    BY <1>2, <2>1, <2>2
<1>6. Blocks(q) = Append(Blocks(p), x)
  <2>1. Blocks(q) \in Seq(Msgs) /\ Len(Blocks(q)) = N + 1
    BY <1>4, <1>5, BlocksType
  <2>2. Append(Blocks(p), x) \in Seq(Msgs) /\ Len(Append(Blocks(p), x)) = N + 1
        /\ \A i \in 1 .. N : Append(Blocks(p), x)[i] = Blocks(p)[i]
        /\ Append(Blocks(p), x)[N + 1] = x
    BY <1>2, AppendProperties
  <2>3. ASSUME NEW i \in 1 .. N + 1
        PROVE  Blocks(q)[i] = Append(Blocks(p), x)[i]
    <3>1. Blocks(q)[i] = q[(i - 1) * MsgSize + 1].m
      BY <1>4 DEF Blocks
    <3>2. CASE i <= N
      <4>1. (i - 1) * MsgSize + 1 \in 1 .. Len(p)
        BY <1>2, <3>2 DEF MsgSize
      <4>2. Blocks(p)[i] = p[(i - 1) * MsgSize + 1].m
        BY <1>2, <3>2 DEF Blocks, MsgSize
      <4>3. QED
        BY <2>2, <3>1, <3>2, <4>1, <4>2
    <3>3. CASE i = N + 1
      <4>1. (i - 1) * MsgSize + 1 = Len(p) + 1
        BY <1>2, <3>3
      <4>2. q[(i - 1) * MsgSize + 1] = [m |-> x, k |-> 1]
        BY <4>1 DEF MsgSize
      <4>3. QED
        BY <2>2, <3>1, <3>3, <4>2
    <3>4. QED
      BY <1>2, <3>2, <3>3
  <2>4. QED
    BY <2>1, <2>2, <2>3, SeqEqual
<1>7. QED
  BY <1>5, <1>6

\* Writing one struct msg after whole frames appends its message.
LEMMA BlocksAppend ==
    ASSUME NEW p \in Seq(Word), FramedSeq(p), NEW x \in Msgs
    PROVE  /\ p \o Frame(x) \in Seq(Word)
           /\ Len(p \o Frame(x)) = Len(p) + MsgSize
           /\ FramedSeq(p \o Frame(x))
           /\ Blocks(p \o Frame(x)) = Append(Blocks(p), x)
<1>1. Frame(x) \in Seq(Word) /\ Len(Frame(x)) = MsgSize
      /\ \A k \in 1 .. MsgSize : Frame(x)[k] = [m |-> x, k |-> k]
  BY FrameType
<1>2. /\ p \o Frame(x) \in Seq(Word) /\ Len(p \o Frame(x)) = Len(p) + MsgSize
      /\ \A i \in 1 .. Len(p) + MsgSize :
            (p \o Frame(x))[i] = IF i <= Len(p) THEN p[i] ELSE Frame(x)[i - Len(p)]
  BY <1>1, ConcatProperties
<1>3. \A i \in 1 .. Len(p) : (p \o Frame(x))[i] = p[i]
  BY <1>2 DEF MsgSize
<1>4. \A k \in 1 .. MsgSize : (p \o Frame(x))[Len(p) + k] = [m |-> x, k |-> k]
  BY <1>1, <1>2 DEF MsgSize
<1>5. QED
  BY <1>2, <1>3, <1>4, FramedExtend

\* The words after the first struct msg of whole frames are whole frames
\* holding the remaining messages.
LEMMA FramedDrop ==
    ASSUME NEW p \in Seq(Word), FramedSeq(p), p # << >>,
           NEW r \in Seq(Word), Len(r) = Len(p) - MsgSize,
           \A i \in 1 .. Len(r) : r[i] = p[i + MsgSize]
    PROVE  FramedSeq(r) /\ Blocks(r) = Tail(Blocks(p))
<1> DEFINE N == Len(Blocks(p))
<1>1. Blocks(p) \in Seq(Msgs) /\ N \in Nat /\ Len(p) = N * MsgSize
  BY BlocksType
<1>2. N >= 1 /\ Len(r) = (N - 1) * MsgSize /\ Len(r) % MsgSize = 0
      /\ Len(r) \div MsgSize = N - 1
  BY <1>1, EmptySeq DEF MsgSize
<1>3. FramedSeq(r)
  <2> SUFFICES ASSUME NEW j \in 0 .. N - 2, NEW k \in 1 .. MsgSize
               PROVE  r[j * MsgSize + k] = [m |-> r[j * MsgSize + 1].m, k |-> k]
    BY <1>2 DEF FramedSeq
  <2>1. j + 1 \in 0 .. Len(p) \div MsgSize - 1
    BY <1>1 DEF MsgSize
  <2>2. p[(j + 1) * MsgSize + k] = [m |-> p[(j + 1) * MsgSize + 1].m, k |-> k]
    BY <2>1 DEF FramedSeq
  <2>3. j * MsgSize + k \in 1 .. Len(r) /\ j * MsgSize + 1 \in 1 .. Len(r)
    BY <1>1, <1>2 DEF MsgSize
  <2>4. r[j * MsgSize + k] = p[(j + 1) * MsgSize + k]
        /\ r[j * MsgSize + 1] = p[(j + 1) * MsgSize + 1]
    BY <2>3 DEF MsgSize
  <2>5. QED
    BY <2>2, <2>4
<1>4. Blocks(r) = Tail(Blocks(p))
  <2>1. Blocks(r) \in Seq(Msgs) /\ Len(Blocks(r)) = N - 1
    BY <1>2, <1>3, BlocksType
  <2>2. Blocks(p) # << >>
    BY <1>1, <1>2
  <2>3. Tail(Blocks(p)) \in Seq(Msgs) /\ Len(Tail(Blocks(p))) = N - 1
        /\ \A i \in 1 .. N - 1 : Tail(Blocks(p))[i] = Blocks(p)[i + 1]
    BY <1>1, <2>2, HeadTailProperties
  <2>4. ASSUME NEW i \in 1 .. N - 1
        PROVE  Blocks(r)[i] = Tail(Blocks(p))[i]
    <3>1. Blocks(r)[i] = r[(i - 1) * MsgSize + 1].m
      BY <1>2 DEF Blocks
    <3>2. (i - 1) * MsgSize + 1 \in 1 .. Len(r)
      BY <1>1, <1>2 DEF MsgSize
    <3>3. r[(i - 1) * MsgSize + 1] = p[i * MsgSize + 1]
      BY <3>2 DEF MsgSize
    <3>4. Blocks(p)[i + 1] = p[((i + 1) - 1) * MsgSize + 1].m
      <4>1. i + 1 \in 1 .. Len(p) \div MsgSize
        BY <1>1, <1>2 DEF MsgSize
      <4>2. QED
        BY <4>1 DEF Blocks
    <3>5. QED
      <4>1. ((i + 1) - 1) * MsgSize + 1 = i * MsgSize + 1
        BY DEF MsgSize
      <4>2. QED
        BY <2>3, <3>1, <3>3, <3>4, <4>1
  <2>5. QED
    BY <2>1, <2>3, <2>4, SeqEqual
<1>5. QED
  BY <1>3, <1>4

\* The length SubSeq gives the words after the first struct msg.
LEMMA DropLength ==
    ASSUME NEW n \in Int, n >= MsgSize, NEW l,
           l = IF MsgSize + 1 <= n THEN n - (MsgSize + 1) + 1 ELSE 0
    PROVE  l = n - MsgSize
BY DEF MsgSize

\* A read of sizeof(msg) words from a pipe holding as many reads them all.
LEMMA WholeRead ==
    ASSUME NEW l \in Int, l >= MsgSize
    PROVE  (IF l < MsgSize THEN l ELSE MsgSize) = MsgSize
BY DEF MsgSize

\* event_handler on whole frames: it reads the first struct msg whole,
\* with its magic word in place and the data and id of the first message,
\* and leaves whole frames holding the others.
LEMMA BlocksRead ==
    ASSUME NEW p \in Seq(Word), FramedSeq(p), p # << >>
    PROVE  /\ Len(p) >= MsgSize
           /\ SubSeq(p, 1, MsgSize)[2].k = 2
           /\ SubSeq(p, 1, MsgSize)[1].m = Head(Blocks(p))
           /\ SubSeq(p, 1, MsgSize)[3].m = Head(Blocks(p))
           /\ SubSeq(p, MsgSize + 1, Len(p)) \in Seq(Word)
           /\ FramedSeq(SubSeq(p, MsgSize + 1, Len(p)))
           /\ Blocks(SubSeq(p, MsgSize + 1, Len(p))) = Tail(Blocks(p))
<1>1. Blocks(p) \in Seq(Msgs) /\ Len(p) = Len(Blocks(p)) * MsgSize
  BY BlocksType
<1>2. Len(p) >= MsgSize /\ Len(Blocks(p)) >= 1
  BY <1>1, EmptySeq DEF MsgSize
<1>3. \A k \in 1 .. MsgSize : p[k] = [m |-> p[1].m, k |-> k]
  <2>1. 0 \in 0 .. Len(p) \div MsgSize - 1
    BY <1>1, <1>2 DEF MsgSize
  <2>2. \A k \in 1 .. MsgSize : p[0 * MsgSize + k] = [m |-> p[0 * MsgSize + 1].m, k |-> k]
    BY <2>1 DEF FramedSeq
  <2>3. QED
    BY <2>2 DEF MsgSize
<1>4. \A k \in 1 .. MsgSize : SubSeq(p, 1, MsgSize)[k] = p[k]
  BY <1>2 DEF MsgSize
<1>5. Head(Blocks(p)) = p[1].m
  BY <1>2 DEF Blocks, MsgSize
<1>6. /\ SubSeq(p, MsgSize + 1, Len(p)) \in Seq(Word)
      /\ Len(SubSeq(p, MsgSize + 1, Len(p))) = Len(p) - MsgSize
      /\ \A i \in 1 .. Len(SubSeq(p, MsgSize + 1, Len(p))) : SubSeq(p, MsgSize + 1, Len(p))[i] = p[i + MsgSize]
  <2>1. \A i \in MsgSize + 1 .. Len(p) : p[i] \in Word
    BY ElementOfSeq DEF MsgSize
  <2>2. /\ SubSeq(p, MsgSize + 1, Len(p)) \in Seq(Word)
        /\ Len(SubSeq(p, MsgSize + 1, Len(p)))
           = IF MsgSize + 1 <= Len(p) THEN Len(p) - (MsgSize + 1) + 1 ELSE 0
        /\ \A i \in 1 .. Len(p) - (MsgSize + 1) + 1 :
              SubSeq(p, MsgSize + 1, Len(p))[i] = p[(MsgSize + 1) + i - 1]
    BY <2>1, SubSeqProperties DEF MsgSize
  <2>3. Len(p) \in Nat
    BY LenProperties
  <2>4. Len(SubSeq(p, MsgSize + 1, Len(p))) = Len(p) - MsgSize
    BY <1>2, <2>2, <2>3, DropLength
  <2>5. \A i \in 1 .. Len(SubSeq(p, MsgSize + 1, Len(p))) :
          SubSeq(p, MsgSize + 1, Len(p))[i] = p[i + MsgSize]
    BY <2>2, <2>3, <2>4 DEF MsgSize
  <2>6. QED
    BY <2>2, <2>4, <2>5
<1>7. /\ FramedSeq(SubSeq(p, MsgSize + 1, Len(p)))
      /\ Blocks(SubSeq(p, MsgSize + 1, Len(p))) = Tail(Blocks(p))
  BY <1>6, FramedDrop
<1>8. QED
  BY <1>2, <1>3, <1>4, <1>5, <1>6, <1>7 DEF MsgSize

\* An empty pipe holds whole frames and no message.
LEMMA BlocksEmpty ==
    FramedSeq(<< >>) /\ Blocks(<< >>) = << >>
<1>1. FramedSeq(<< >>)
  BY DEF FramedSeq, MsgSize
<1>2. Blocks(<< >>) = << >>
  <2>1. Len(<< >>) \div MsgSize = 0
    BY DEF MsgSize
  <2>2. QED
    BY <2>1 DEF Blocks
<1>3. QED
  BY <1>1, <1>2

-----------------------------------------------------------------------------
(* One lemma per operation: from a state of IInv, the step keeps IInv and  *)
(* is a step of the FIFO or leaves the FIFO's variables alone.             *)

LEMMA InitStep ==
    Init => IInv /\ Fifo!Init
<1> SUFFICES ASSUME Init PROVE IInv /\ Fifo!Init
  OBVIOUS
<1>1. TypeOK
  BY EmptySeq DEF Init, TypeOK, Results
<1>2. FramedSeq(pipe) /\ Blocks(pipe) = << >>
  BY BlocksEmpty DEF Init
<1>3. PushSafe
  BY DEF Init, PushSafe
<1>4. QED
  BY <1>1, <1>2, <1>3 DEF IInv, Init, Fifo!Init

LEMMA AllocStep ==
    ASSUME IInv, NEW ok \in BOOLEAN, mqueue_alloc(ok)
    PROVE  IInv' /\ [Fifo!Next]_Fifo!vars
<1>1. TypeOK'
  BY DEF IInv, TypeOK, mqueue_alloc, net_sockopt_blocking_set
<1>2. FramedSeq(pipe)' /\ PushSafe'
  BY DEF IInv, PushSafe, mqueue_alloc, FramedSeq
<1>3. [Fifo!Next]_Fifo!vars
  <2>1. CASE ok
    BY <2>1 DEF mqueue_alloc, Fifo!Next, Fifo!Alloc
  <2>2. CASE ~ok
    BY <2>2 DEF mqueue_alloc, Fifo!vars
  <2>3. QED
    BY <2>1, <2>2
<1>4. QED
  BY <1>1, <1>2, <1>3 DEF IInv

LEMMA PushEnterStep ==
    ASSUME IInv, NEW t \in Threads, NEW x \in Msgs, PushEnter(t, x)
    PROVE  IInv' /\ [Fifo!Next]_Fifo!vars
<1>1. TypeOK'
  BY DEF IInv, TypeOK, PushEnter
<1>2. FramedSeq(pipe)'
  BY DEF IInv, PushEnter, FramedSeq
<1>3. PushSafe'
  BY DEF IInv, TypeOK, PushSafe, PushEnter
<1>4. UNCHANGED Fifo!vars
  BY DEF PushEnter, Fifo!vars
<1>5. QED
  BY <1>1, <1>2, <1>3, <1>4 DEF IInv

LEMMA DestructorStep ==
    ASSUME IInv, destructor
    PROVE  IInv' /\ [Fifo!Next]_Fifo!vars
<1>1. TypeOK'
  BY EmptySeq DEF IInv, TypeOK, destructor, MsgSize
<1>2. FramedSeq(pipe)' /\ Blocks(pipe') = << >>
  BY BlocksEmpty DEF destructor
<1>3. PushSafe'
  BY DEF PushSafe, destructor
<1>4. Fifo!Free
  BY <1>2 DEF destructor, Fifo!Free
<1>5. QED
  BY <1>1, <1>2, <1>3, <1>4 DEF IInv, Fifo!Next

LEMMA PushStep ==
    ASSUME IInv, NEW t \in Threads, mqueue_push(t)
    PROVE  IInv' /\ [Fifo!Next]_Fifo!vars
<1>1. PICK x \in Msgs : x = pushing[t]
  BY DEF IInv, TypeOK, mqueue_push
<1>2. /\ result[x] # "ok" /\ mq # "freed"
      /\ \A u \in Threads \ {t} : pushing[u] # x
  BY <1>1 DEF IInv, PushSafe
<1>3. /\ pushing' = [pushing EXCEPT ![t] = "idle"]
      /\ UNCHANGED <<mq, wrFlags, delivered>>
  BY DEF mqueue_push
\* Whatever the push returns, the other pushes stay safe.
<1>4. ASSUME NEW r \in Results, result' = [result EXCEPT ![x] = r]
      PROVE  PushSafe' /\ result' \in [Msgs -> Results]
  BY <1>1, <1>2, <1>3, <1>4 DEF IInv, TypeOK, PushSafe
<1>5. pushing' \in [Threads -> Msgs \cup {"idle"}]
  BY <1>3 DEF IInv, TypeOK
<1>6. CASE mq = "none"
  <2>1. pipe' = pipe /\ result' = [result EXCEPT ![x] = "EINVAL"]
    BY <1>1, <1>6 DEF mqueue_push
  <2>2. IInv'
    BY <1>3, <1>4, <1>5, <1>6, <2>1 DEF IInv, TypeOK, Results
  <2>3. Fifo!Push(x)
    BY <1>2, <1>3, <2>1 DEF Fifo!Push, Fifo!Errors, Fifo!Results
  <2>4. QED
    BY <2>2, <2>3 DEF Fifo!Next
<1>7. CASE mq = "open" /\ Room >= MsgSize
  <2>1. pipe_write_len = MsgSize
    BY <1>7 DEF pipe_write_len
  <2>2. SubSeq(Frame(x), 1, MsgSize) = Frame(x)
    BY FrameType, SubSeqFull
  <2>3. pipe' = pipe \o Frame(x) /\ result' = [result EXCEPT ![x] = "ok"]
    <3>1. /\ pipe' = IF mq = "open" /\ pipe_write_len > 0
                     THEN pipe \o SubSeq(Frame(pushing[t]), 1, pipe_write_len)
                     ELSE pipe
          /\ result' = [result EXCEPT ![pushing[t]] =
                           IF mq = "none" THEN "EINVAL"
                           ELSE PushResult(pipe_write_len)]
      BY DEF mqueue_push
    <3>2. PushResult(MsgSize) = "ok"
      BY DEF PushResult, MsgSize
    <3>3. MsgSize > 0
      BY DEF MsgSize
    <3>4. QED
      BY <1>1, <1>7, <2>1, <2>2, <3>1, <3>2, <3>3
  <2>4. /\ pipe' \in Seq(Word) /\ Len(pipe') = Len(pipe) + MsgSize
        /\ FramedSeq(pipe') /\ Blocks(pipe') = Append(Blocks(pipe), x)
    BY <2>3, BlocksAppend DEF IInv, TypeOK
  <2>5. Len(pipe') <= PipeCap
    <3>1. PICK l \in Nat : l = Len(pipe)
      BY LenProperties DEF IInv, TypeOK
    <3>2. PICK l2 \in Nat : l2 = Len(pipe')
      BY <2>4, LenProperties
    <3>3. l2 = l + MsgSize /\ PipeCap - l >= MsgSize
      BY <1>7, <2>4, <3>1, <3>2 DEF Room
    <3>4. QED
      BY <3>1, <3>2, <3>3 DEF MsgSize
  <2>6. IInv'
    BY <1>3, <1>4, <1>5, <1>6, <2>3, <2>4, <2>5 DEF IInv, TypeOK, Results
  <2>7. Fifo!Push(x)
    BY <1>2, <1>3, <1>7, <2>3, <2>4 DEF Fifo!Push
  <2>8. QED
    BY <2>6, <2>7 DEF Fifo!Next
<1>8. CASE mq = "open" /\ ~(Room >= MsgSize)
  <2>1. pipe_write_len = -1
    BY <1>8 DEF pipe_write_len
  <2>2. pipe' = pipe /\ result' = [result EXCEPT ![x] = "EAGAIN"]
    BY <1>1, <1>8, <2>1 DEF mqueue_push, PushResult
  <2>3. IInv'
    BY <1>3, <1>4, <1>5, <2>2 DEF IInv, TypeOK, Results
  <2>4. Fifo!Push(x)
    BY <1>2, <1>3, <2>2 DEF Fifo!Push, Fifo!Errors, Fifo!Results
  <2>5. QED
    BY <2>3, <2>4 DEF Fifo!Next
<1>9. QED
  BY <1>2, <1>6, <1>7, <1>8 DEF IInv, TypeOK

LEMMA EventStep ==
    ASSUME IInv, event_handler
    PROVE  IInv' /\ [Fifo!Next]_Fifo!vars
<1>1. /\ mq = "open" /\ pipe # << >> /\ pipe \in Seq(Word)
      /\ FramedSeq(pipe) /\ Len(pipe) <= PipeCap
  BY DEF IInv, TypeOK, event_handler
<1>2. /\ Len(pipe) >= MsgSize
      /\ SubSeq(pipe, 1, MsgSize)[2].k = 2
      /\ SubSeq(pipe, 1, MsgSize)[1].m = Head(Blocks(pipe))
      /\ SubSeq(pipe, 1, MsgSize)[3].m = Head(Blocks(pipe))
      /\ SubSeq(pipe, MsgSize + 1, Len(pipe)) \in Seq(Word)
      /\ FramedSeq(SubSeq(pipe, MsgSize + 1, Len(pipe)))
      /\ Blocks(SubSeq(pipe, MsgSize + 1, Len(pipe))) = Tail(Blocks(pipe))
  BY <1>1, BlocksRead
<1>3. (IF Len(pipe) < MsgSize THEN Len(pipe) ELSE MsgSize) = MsgSize
  <2>1. Len(pipe) \in Nat /\ Len(pipe) >= MsgSize
    BY <1>1, <1>2, LenProperties
  <2>2. QED
    BY <2>1, WholeRead
<1>4. /\ pipe' = SubSeq(pipe, MsgSize + 1, Len(pipe))
      /\ delivered' = Append(delivered, [data |-> Head(Blocks(pipe)),
                                         id |-> Head(Blocks(pipe))])
      /\ UNCHANGED <<mq, wrFlags, pushing, result>>
  BY <1>2, <1>3 DEF event_handler
<1>5. Blocks(pipe) \in Seq(Msgs) /\ Blocks(pipe) # << >>
  <2>1. Blocks(pipe) \in Seq(Msgs) /\ Len(pipe) = Len(Blocks(pipe)) * MsgSize
    BY <1>1, BlocksType
  <2>2. QED
    BY <1>2, <2>1 DEF MsgSize
<1>6. Head(Blocks(pipe)) \in Msgs
  BY <1>5, HeadTailProperties
<1>7. Len(pipe') <= PipeCap
  <2>1. Len(pipe) \in Nat
    BY <1>1, LenProperties
  <2>2. Len(pipe') = Len(pipe) - MsgSize
    BY <1>1, <1>2, <1>4, <2>1, DropLength, SubSeqProperties, ElementOfSeq
  <2>3. QED
    BY <1>1, <2>1, <2>2 DEF MsgSize
<1>8. IInv'
  BY <1>2, <1>4, <1>6, <1>7 DEF IInv, TypeOK, PushSafe
<1>9. Fifo!Deliver
  BY <1>1, <1>2, <1>4, <1>5 DEF Fifo!Deliver
<1>10. QED
  BY <1>8, <1>9 DEF Fifo!Next

LEMMA NextStep ==
    ASSUME IInv, [Next]_vars
    PROVE  IInv' /\ [Fifo!Next]_Fifo!vars
<1>1. CASE \E ok \in BOOLEAN : mqueue_alloc(ok)
  BY <1>1, AllocStep
<1>2. CASE destructor
  BY <1>2, DestructorStep
<1>3. CASE event_handler
  BY <1>3, EventStep
<1>4. CASE \E t \in Threads, x \in Msgs : PushEnter(t, x)
  BY <1>4, PushEnterStep
<1>5. CASE \E t \in Threads : mqueue_push(t)
  BY <1>5, PushStep
<1>6. CASE UNCHANGED vars
  <2>1. IInv'
    BY <1>6 DEF vars, IInv, TypeOK, FramedSeq, PushSafe
  <2>2. UNCHANGED Fifo!vars
    BY <1>6 DEF vars, Fifo!vars
  <2>3. QED
    BY <2>1, <2>2
<1>7. QED
  BY <1>1, <1>2, <1>3, <1>4, <1>5, <1>6 DEF Next

-----------------------------------------------------------------------------
\* Type correctness of the queue: in every reachable state the pipe holds
\* at most PipeCap words, each thread pushes a message or is idle, and
\* every mqueue_push returned one of its return codes.  It rests on IInv:
\* a push never enters on a freed queue, so the pipe is emptied only once.
THEOREM TypeCorrect == Spec => []TypeOK
<1>1. Init => IInv
  BY InitStep
<1>2. IInv /\ [Next]_vars => IInv'
  BY NextStep
<1>3. IInv => TypeOK
  BY DEF IInv
<1>4. QED
  BY <1>1, <1>2, <1>3, PTL DEF Spec

\* The queue implements the safety part of the FIFO of MQueueFifo, for
\* every set of threads and messages and every pipe capacity: the pipe
\* always holds whole struct msg, mqueue_push returns 0 exactly when it
\* appended the whole message, it is never pushed twice with success, and
\* event_handler hands mq->h the oldest message with its own id and data.
THEOREM Refinement == Spec => Fifo!SafetySpec
<1>1. Init => Fifo!Init
  BY InitStep
<1>2. IInv /\ [Next]_vars => [Fifo!Next]_Fifo!vars
  BY NextStep
<1>3. Init => IInv
  BY InitStep
<1>4. IInv /\ [Next]_vars => IInv'
  BY NextStep
<1>5. QED
  BY <1>1, <1>2, <1>3, <1>4, PTL DEF Spec, Fifo!SafetySpec
=============================================================================
