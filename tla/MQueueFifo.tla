----------------------------- MODULE MQueueFifo -----------------------------
(***************************************************************************)
(* What the thread-safe message queue of src/mqueue/mqueue.c promises its *)
(* users: a FIFO between any pushing thread and the thread that runs the  *)
(* re_main loop.  mqueue_push either returns 0 and enqueues the message,  *)
(* or returns an error and enqueues nothing; the queue hands the messages *)
(* it holds to the handler in the order they were pushed, each once, as   *)
(* long as the queue lives; freeing the queue drops what it still holds.  *)
(***************************************************************************)
EXTENDS Sequences

CONSTANT Msgs   \* the messages the threads push (their data and id)

Results == {"none", "ok", "EINVAL", "EAGAIN", "EPIPE"}
Errors == Results \ {"none", "ok"}

VARIABLES
    state,      \* "none" before mqueue_alloc, "open", "freed" after mem_deref
    queue,      \* the messages pushed and not yet handled
    result,     \* what the last mqueue_push of each message returned
    delivered   \* the (id, data) pairs the handler was called with

vars == <<state, queue, result, delivered>>

Init ==
    /\ state = "none"
    /\ queue = <<>>
    /\ result = [m \in Msgs |-> "none"]
    /\ delivered = <<>>

Alloc ==
    /\ state = "none"
    /\ state' = "open"
    /\ UNCHANGED <<queue, result, delivered>>

\* A message not yet pushed with success is pushed: enqueued with 0, or
\* refused with an error.
Push(m) ==
    /\ result[m] # "ok" /\ state # "freed"
    /\ \/ /\ state = "open"
          /\ queue' = Append(queue, m)
          /\ result' = [result EXCEPT ![m] = "ok"]
       \/ /\ \E e \in Errors : result' = [result EXCEPT ![m] = e]
          /\ UNCHANGED queue
    /\ UNCHANGED <<state, delivered>>

Deliver ==
    /\ state = "open" /\ queue # <<>>
    /\ delivered' = Append(delivered, [data |-> Head(queue), id |-> Head(queue)])
    /\ queue' = Tail(queue)
    /\ UNCHANGED <<state, result>>

Free ==
    /\ state = "open"
    /\ state' = "freed" /\ queue' = <<>>
    /\ UNCHANGED <<result, delivered>>

Next == Alloc \/ Free \/ Deliver \/ \E m \in Msgs : Push(m)

SafetySpec == Init /\ [][Next]_vars

\* A message the queue holds is eventually handled unless the queue is
\* freed first.
Spec == SafetySpec /\ WF_vars(Deliver)
=============================================================================
