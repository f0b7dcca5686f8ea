----------------------------- MODULE FifoQueue -----------------------------
(***************************************************************************)
(* What queue.h promises its callers: a FIFO queue of pointers, shared by  *)
(* any number of threads, on which push blocks while the queue is full and *)
(* pull blocks while it is empty.  An operation is a call, one atomic      *)
(* effect and a return.  maxSize = 0 means that the queue has no bound.    *)
(***************************************************************************)
EXTENDS Naturals, Sequences

CONSTANTS Thread,   \* the threads that share the queue
          Data,     \* the pointers that are queued
          NULL,     \* "no value"
          maxSize   \* the capacity; 0 means unbounded

VARIABLES q,        \* the queued values, oldest first
          st        \* st[t]: what thread t is doing, and with which value

vars == <<q, st>>

State(op, val) == [op |-> op, val |-> val]

Idle == State("idle", NULL)

Init ==
    /\ q = <<>>
    /\ st = [t \in Thread |-> Idle]

CallPush(t, d) ==
    /\ st[t] = Idle
    /\ st' = [st EXCEPT ![t] = State("push", d)]
    /\ UNCHANGED q

DoPush(t) ==
    /\ st[t].op = "push"
    /\ maxSize > 0 => Len(q) < maxSize
    /\ q' = Append(q, st[t].val)
    /\ st' = [st EXCEPT ![t] = State("pushed", NULL)]

CallPull(t) ==
    /\ st[t] = Idle
    /\ st' = [st EXCEPT ![t] = State("pull", NULL)]
    /\ UNCHANGED q

DoPull(t) ==
    /\ st[t].op = "pull"
    /\ q # <<>>
    /\ q' = Tail(q)
    /\ st' = [st EXCEPT ![t] = State("got", Head(q))]

Return(t) ==
    /\ st[t].op \in {"pushed", "got"}
    /\ st' = [st EXCEPT ![t] = Idle]
    /\ UNCHANGED q

\* The queue is destroyed, with whatever it holds, once nobody uses it.
Discard ==
    /\ \A t \in Thread : st[t] = Idle
    /\ q' = <<>>
    /\ UNCHANGED st

Next ==
    \/ \E t \in Thread :
        \/ \E d \in Data : CallPush(t, d)
        \/ DoPush(t) \/ CallPull(t) \/ DoPull(t) \/ Return(t)
    \/ Discard

Spec == Init /\ [][Next]_vars
=============================================================================
