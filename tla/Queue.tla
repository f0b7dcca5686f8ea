------------------------------- MODULE Queue -------------------------------
(***************************************************************************)
(* queue.c: a linked list protected by the mutex m, with ONE condition     *)
(* variable cv on which blocked pushers and blocked pullers wait together. *)
(* A thread calls queue_push or queue_pull whenever it is idle.  A call is *)
(* cut at the points where other threads can run in between or where an    *)
(* invariant is broken for a while: before the lock, after the lock, after *)
(* the list is changed.                                                    *)
(*                                                                         *)
(* pthread_cond_wait releases m and adds the thread to cv in one step; a   *)
(* thread that is woken is back at the lock and tests again (the "while"). *)
(* POSIX allows a wakeup without a signal: SpuriousWakeup.                 *)
(*                                                                         *)
(* chain is a history variable: the nodes that were linked and not yet     *)
(* unlinked, in order.  No action reads it; the invariants compare the     *)
(* pointers of the code with it.                                           *)
(***************************************************************************)
EXTENDS Naturals, Sequences

CONSTANTS Thread,   \* the threads that share the queue
          Data,     \* the pointers that are queued
          Node,     \* addresses malloc can return for a queue_node_t
          NULL,
          maxSize   \* argument of queue_create; 0 means unbounded

ASSUME QueueAssumption ==
    /\ maxSize \in Nat
    /\ NULL \notin Node
    /\ NULL \notin Thread
    /\ NULL \notin Data

VARIABLES alive,               \* the queue_t exists
          head, tail, size,    \* its fields
          m,                   \* the thread that holds the mutex, or NULL
          cv,                  \* the threads that wait on the condition
          heap, next, data,    \* allocated nodes and their fields
          pc,                  \* pc[t]: where thread t is
          nd,                  \* nd[t]: the node queue_push allocated
          ret,                 \* ret[t]: what queue_pull returns
          chain                \* history: the nodes in the list, in order

listVars == <<head, tail, size, heap, next, data, chain>>
vars == <<alive, m, cv, pc, nd, ret, listVars>>

Goto(t, label) == pc' = [pc EXCEPT ![t] = label]

\* Mutant: off by one.
FullLate == maxSize > 0 /\ size > maxSize

Full == maxSize > 0 /\ size = maxSize
Empty == size = 0

\* free() of the nodes of S: what they hold is lost.
free(S) ==
    /\ heap' = heap \ S
    /\ next' = [n \in Node |-> IF n \in S THEN NULL ELSE next[n]]
    /\ data' = [n \in Node |-> IF n \in S THEN NULL ELSE data[n]]

Init ==
    /\ alive = TRUE
    /\ head = NULL /\ tail = NULL /\ size = 0
    /\ m = NULL /\ cv = {}
    /\ heap = {}
    /\ next = [n \in Node |-> NULL]
    /\ data = [n \in Node |-> NULL]
    /\ pc = [t \in Thread |-> "idle"]
    /\ nd = [t \in Thread |-> NULL]
    /\ ret = [t \in Thread |-> NULL]
    /\ chain = <<>>
-----------------------------------------------------------------------------
(* The monitor: m and cv.                                                  *)

\* pthread_mutex_lock, on entry and when pthread_cond_wait is left again.
Lock(t) ==
    /\ pc[t] \in {"pushLock", "pullLock"}
    /\ t \notin cv
    /\ m = NULL
    /\ m' = t
    /\ Goto(t, IF pc[t] = "pushLock" THEN "pushTest" ELSE "pullTest")
    /\ UNCHANGED <<alive, cv, nd, ret, listVars>>

\* pthread_cond_wait: the thread is back at the lock once it is woken.
CondWait(t, label) ==
    /\ cv' = cv \cup {t}
    /\ m' = NULL
    /\ Goto(t, label)
    /\ UNCHANGED <<alive, nd, ret, listVars>>

\* "if (wake) pthread_cond_broadcast; pthread_mutex_unlock; return".
SignalAndUnlock(t, wake) ==
    /\ cv' = IF wake THEN {} ELSE cv
    /\ m' = NULL
    /\ Goto(t, "idle")
    /\ UNCHANGED <<alive, listVars>>

SpuriousWakeup(t) ==
    /\ t \in cv
    /\ cv' = cv \ {t}
    /\ UNCHANGED <<alive, m, pc, nd, ret, listVars>>
-----------------------------------------------------------------------------
(* queue_push                                                              *)

PushMalloc(t, d) ==
    /\ alive /\ pc[t] = "idle"
    /\ \E n \in Node \ heap :
        /\ heap' = heap \cup {n}
        /\ data' = [data EXCEPT ![n] = d]
        /\ next' = [next EXCEPT ![n] = NULL]
        /\ nd' = [nd EXCEPT ![t] = n]
    /\ Goto(t, "pushLock")
    /\ UNCHANGED <<alive, head, tail, size, m, cv, ret, chain>>

PushWait(t) ==
    /\ pc[t] = "pushTest"
    /\ Full
    /\ CondWait(t, "pushLock")

\* Mutant: the node is linked at the wrong end.
PushLinkFront(t) ==
    /\ pc[t] = "pushTest"
    /\ ~Full
    /\ size' = size + 1
    /\ next' = [next EXCEPT ![nd[t]] = head]
    /\ head' = nd[t]
    /\ tail' = IF tail = NULL THEN nd[t] ELSE tail
    /\ chain' = Append(chain, nd[t])
    /\ Goto(t, "pushSignal")
    /\ UNCHANGED <<alive, m, cv, heap, data, nd, ret>>

PushLink(t) ==
    /\ pc[t] = "pushTest"
    /\ ~Full
    /\ size' = size + 1
    /\ IF tail # NULL
       THEN next' = [next EXCEPT ![tail] = nd[t]] /\ UNCHANGED head
       ELSE head' = nd[t] /\ UNCHANGED next
    /\ tail' = nd[t]
    /\ chain' = Append(chain, nd[t])
    /\ Goto(t, "pushSignal")
    /\ UNCHANGED <<alive, m, cv, heap, data, nd, ret>>

\* Mutant: nobody is woken.
PushSignalSilent(t) ==
    /\ pc[t] = "pushSignal"
    /\ SignalAndUnlock(t, FALSE)
    /\ nd' = [nd EXCEPT ![t] = NULL]
    /\ UNCHANGED ret

PushSignal(t) ==
    /\ pc[t] = "pushSignal"
    /\ SignalAndUnlock(t, size = 1)
    /\ nd' = [nd EXCEPT ![t] = NULL]
    /\ UNCHANGED ret

queue_push(t) ==
    \/ \E d \in Data : PushMalloc(t, d)
    \/ PushWait(t) \/ PushLink(t) \/ PushSignal(t)
-----------------------------------------------------------------------------
(* queue_pull                                                              *)

PullCall(t) ==
    /\ alive /\ pc[t] = "idle"
    /\ Goto(t, "pullLock")
    /\ UNCHANGED <<alive, m, cv, nd, ret, listVars>>

PullWait(t) ==
    /\ pc[t] = "pullTest"
    /\ Empty
    /\ CondWait(t, "pullLock")

\* Mutant: size is decremented twice.
PullUnlinkTwice(t) ==
    /\ pc[t] = "pullTest"
    /\ ~Empty
    /\ ret' = [ret EXCEPT ![t] = data[head]]
    /\ size' = size - 2
    /\ tail' = IF size' = 0 THEN NULL ELSE tail
    /\ head' = next[head]
    /\ free({head})
    /\ chain' = Tail(chain)
    /\ Goto(t, "pullSignal")
    /\ UNCHANGED <<alive, m, cv, nd>>

\* Mutant: tail is not reset when the queue becomes empty.
PullUnlinkKeepsTail(t) ==
    /\ pc[t] = "pullTest"
    /\ ~Empty
    /\ ret' = [ret EXCEPT ![t] = data[head]]
    /\ size' = size - 1
    /\ tail' = tail
    /\ head' = next[head]
    /\ free({head})
    /\ chain' = Tail(chain)
    /\ Goto(t, "pullSignal")
    /\ UNCHANGED <<alive, m, cv, nd>>

\* Mutant: the node is not freed.
PullUnlinkNoFree(t) ==
    /\ pc[t] = "pullTest"
    /\ ~Empty
    /\ ret' = [ret EXCEPT ![t] = data[head]]
    /\ size' = size - 1
    /\ tail' = IF size' = 0 THEN NULL ELSE tail
    /\ head' = next[head]
    /\ heap' = heap
    /\ chain' = Tail(chain)
    /\ Goto(t, "pullSignal")
    /\ UNCHANGED <<alive, m, cv, next, data, nd>>

PullUnlink(t) ==
    /\ pc[t] = "pullTest"
    /\ ~Empty
    /\ ret' = [ret EXCEPT ![t] = data[head]]
    /\ size' = size - 1
    /\ tail' = IF size' = 0 THEN NULL ELSE tail
    /\ head' = next[head]
    /\ free({head})
    /\ chain' = Tail(chain)
    /\ Goto(t, "pullSignal")
    /\ UNCHANGED <<alive, m, cv, nd>>

\* Mutant: off by one.
PullSignalLate(t) ==
    /\ pc[t] = "pullSignal"
    /\ SignalAndUnlock(t, maxSize > 0 /\ size = maxSize)
    /\ ret' = [ret EXCEPT ![t] = NULL]
    /\ UNCHANGED nd

PullSignal(t) ==
    /\ pc[t] = "pullSignal"
    /\ SignalAndUnlock(t, maxSize > 0 /\ size = maxSize - 1)
    /\ ret' = [ret EXCEPT ![t] = NULL]
    /\ UNCHANGED nd

queue_pull(t) ==
    PullCall(t) \/ PullWait(t) \/ PullUnlink(t) \/ PullSignal(t)
-----------------------------------------------------------------------------
(* queue_create and queue_destroy.                                         *)

\* The nodes that "curr = head; while (curr) curr = curr->next" visits.
Walk ==
    {n \in Node : \A S \in SUBSET Node :
        ( /\ head # NULL => head \in S
          /\ \A x \in S : next[x] # NULL => next[x] \in S ) => n \in S}

\* The callers' obligation: nobody is inside an operation (destroying a
\* mutex or a condition in use is undefined).
queue_destroy ==
    /\ alive
    /\ \A t \in Thread : pc[t] = "idle"
    /\ alive' = FALSE
    /\ free(Walk)
    /\ chain' = <<>>
    /\ UNCHANGED <<head, tail, size, m, cv, pc, nd, ret>>

queue_create ==
    /\ ~alive
    /\ alive' = TRUE
    /\ head' = NULL /\ tail' = NULL /\ size' = 0
    /\ m' = NULL /\ cv' = {}
    /\ UNCHANGED <<heap, next, data, pc, nd, ret, chain>>
-----------------------------------------------------------------------------
ThreadStep(t) == Lock(t) \/ queue_push(t) \/ queue_pull(t)

Next ==
    \/ \E t \in Thread : ThreadStep(t) \/ SpuriousWakeup(t)
    \/ queue_create
    \/ queue_destroy

Spec == Init /\ [][Next]_vars

\* A thread inside an operation keeps running, and one that asks for a mutex
\* that is released again and again gets it.  Nobody has to make a call, and
\* no spurious wakeup is promised.
Fairness ==
    \A t \in Thread :
        /\ SF_vars(Lock(t))
        /\ WF_vars(PushWait(t) \/ PushLink(t) \/ PushSignal(t))
        /\ WF_vars(PullWait(t) \/ PullUnlink(t) \/ PullSignal(t))

FairSpec == Spec /\ Fairness
-----------------------------------------------------------------------------
Label == {"idle", "pushLock", "pushTest", "pushSignal",
          "pullLock", "pullTest", "pullSignal"}

\* The variables of queue.c hold values of their C types.
TypeOK ==
    /\ alive \in BOOLEAN
    /\ head \in Node \cup {NULL} /\ tail \in Node \cup {NULL}
    /\ size \in Nat
    /\ m \in Thread \cup {NULL} /\ cv \in SUBSET Thread
    /\ heap \in SUBSET Node
    /\ next \in [Node -> Node \cup {NULL}]
    /\ data \in [Node -> Data \cup {NULL}]
    /\ pc \in [Thread -> Label]
    /\ nd \in [Thread -> Node \cup {NULL}]
    /\ ret \in [Thread -> Data \cup {NULL}]
    /\ chain \in Seq(Node)

\* The pointers form the list that was pushed: head, tail, next and size of
\* queue_push and queue_pull agree with the history, the last node ends the
\* list, no node is in it twice and none of them has been freed.
ListOK ==
    alive =>
        /\ size = Len(chain)
        /\ chain = <<>> => head = NULL /\ tail = NULL
        /\ chain # <<>> =>
            /\ head = chain[1]
            /\ tail = chain[Len(chain)]
            /\ next[tail] = NULL
        /\ \A i \in 1 .. Len(chain) - 1 : next[chain[i]] = chain[i + 1]
        /\ \A i, j \in 1 .. Len(chain) : chain[i] = chain[j] => i = j
        /\ \A i \in 1 .. Len(chain) : chain[i] \in heap

\* queue.h, "Blocks if the queue is full": the capacity is never exceeded,
\* however many pushers are woken together by one broadcast.
CapacityOK == maxSize > 0 => size <= maxSize

\* The two broadcasts of queue.c (only on the change from 0 to 1 and from
\* maxSize to maxSize - 1) suffice: nobody sleeps on the condition variable
\* while its own condition holds, except until the holder of m broadcasts.
NoLostWakeup ==
    \A t \in cv :
        /\ pc[t] = "pullLock" =>
            Empty \/ (\E u \in Thread : m = u /\ pc[u] = "pushSignal" /\ size = 1)
        /\ pc[t] = "pushLock" =>
            Full \/ (\E u \in Thread : m = u /\ pc[u] = "pullSignal" /\ size = maxSize - 1)

\* "Destroys the queue, freeing any remaining nodes in it": no node survives
\* the queue, and before that only list nodes and nodes about to be linked
\* are allocated.
NoLeak ==
    heap = {chain[i] : i \in 1 .. Len(chain)}
           \cup {nd[t] : t \in {u \in Thread : pc[u] \in {"pushLock", "pushTest"}}}
-----------------------------------------------------------------------------
(* Refinement: the linked list implements the FIFO queue of queue.h, with  *)
(* the linking and the unlinking as the points where a call takes effect.  *)

AbsQueue == [i \in 1 .. Len(chain) |-> data[chain[i]]]

AbsState == [t \in Thread |->
    CASE pc[t] = "idle" -> [op |-> "idle", val |-> NULL]
      [] pc[t] \in {"pushLock", "pushTest"} -> [op |-> "push", val |-> data[nd[t]]]
      [] pc[t] = "pushSignal" -> [op |-> "pushed", val |-> NULL]
      [] pc[t] \in {"pullLock", "pullTest"} -> [op |-> "pull", val |-> NULL]
      [] pc[t] = "pullSignal" -> [op |-> "got", val |-> ret[t]]]

Fifo == INSTANCE FifoQueue WITH q <- AbsQueue, st <- AbsState

\* Every behaviour of queue.c is one of the FIFO queue of queue.h: values
\* leave in the order in which they were linked, each exactly once.
ImplementsFifo == Fifo!Spec

\* Something is pulled whenever somebody wants to pull and there is something
\* to pull: the wakeups of queue_push always reach a puller.
PullProgress ==
    (size > 0 /\ \E t \in Thread : pc[t] \in {"pullLock", "pullTest"})
        ~> (\E t \in Thread : pc[t] = "pullSignal")

\* Something is pushed whenever somebody wants to push and there is room.
PushProgress ==
    (~Full /\ \E t \in Thread : pc[t] \in {"pushLock", "pushTest"})
        ~> (\E t \in Thread : pc[t] = "pushSignal")
=============================================================================
