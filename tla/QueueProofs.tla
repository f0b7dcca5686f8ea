---------------------------- MODULE QueueProofs ----------------------------
(***************************************************************************)
(* queue.c for any threads, values, addresses and capacity.                *)
(***************************************************************************)
EXTENDS Queue, WellFoundedInduction, TLAPS

Critical == {"pushTest", "pushSignal", "pullTest", "pullSignal"}
Unlinked == {"pushLock", "pushTest"}

\* The thread between lock and unlock is the one that holds m, and only a
\* thread that has to take m again waits on the condition.
MutexOK ==
    /\ \A t \in Thread : pc[t] \in Critical <=> m = t
    /\ \A t \in cv : pc[t] \in {"pushLock", "pullLock"}

\* A node that is not yet linked belongs to one thread, ends a list and
\* carries a value.
NodeOK ==
    /\ \A t \in Thread : pc[t] \in Unlinked =>
        /\ nd[t] \in heap
        /\ next[nd[t]] = NULL
        /\ \A i \in 1 .. Len(chain) : chain[i] # nd[t]
    /\ \A t, u \in Thread :
        pc[t] \in Unlinked /\ pc[u] \in Unlinked /\ nd[t] = nd[u] => t = u

\* A queue that does not exist is used by nobody.
DeadOK == ~alive =>
    /\ chain = <<>>
    /\ m = NULL
    /\ \A t \in Thread : pc[t] = "idle"

Inv ==
    /\ TypeOK
    /\ MutexOK
    /\ DeadOK
    /\ NodeOK
    /\ ListOK
    /\ CapacityOK
    /\ NoLostWakeup
-----------------------------------------------------------------------------
\* In C a variable has its type whatever queue_push, queue_pull,
\* queue_create and queue_destroy do.
LEMMA TypeStep ==
    ASSUME Inv, [Next]_vars
    PROVE  TypeOK'
<1> USE QueueAssumption
<1> USE DEF Inv, TypeOK, Goto, listVars, Label
<1>1. ASSUME NEW t \in Thread, Lock(t) PROVE TypeOK'
    BY <1>1 DEF Lock
<1>2. ASSUME NEW t \in Thread, SpuriousWakeup(t) PROVE TypeOK'
    BY <1>2 DEF SpuriousWakeup
<1>3. ASSUME NEW t \in Thread, NEW d \in Data, PushMalloc(t, d) PROVE TypeOK'
    BY <1>3 DEF PushMalloc
<1>4. ASSUME NEW t \in Thread, PushWait(t) PROVE TypeOK'
    BY <1>4 DEF PushWait, CondWait
<1>5. ASSUME NEW t \in Thread, PushLink(t) PROVE TypeOK'
    <2>1. nd[t] \in Node
        BY <1>5 DEF PushLink, NodeOK, Unlinked
    <2>2. QED BY <1>5, <2>1 DEF PushLink
<1>6. ASSUME NEW t \in Thread, PushSignal(t) PROVE TypeOK'
    BY <1>6 DEF PushSignal, SignalAndUnlock
<1>7. ASSUME NEW t \in Thread, PullCall(t) PROVE TypeOK'
    BY <1>7 DEF PullCall
<1>8. ASSUME NEW t \in Thread, PullWait(t) PROVE TypeOK'
    BY <1>8 DEF PullWait, CondWait
<1>9. ASSUME NEW t \in Thread, PullUnlink(t) PROVE TypeOK'
    <2>1. alive /\ chain # <<>>
        BY <1>9 DEF PullUnlink, Empty, DeadOK, ListOK
    <2>2. head \in Node
        BY <2>1 DEF ListOK
    <2>3. size - 1 \in Nat
        BY <1>9 DEF PullUnlink, Empty
    <2>4. Tail(chain) \in Seq(Node)
        BY <2>1
    <2>5. QED BY <1>9, <2>1, <2>2, <2>3, <2>4 DEF PullUnlink, free
<1>10. ASSUME NEW t \in Thread, PullSignal(t) PROVE TypeOK'
    BY <1>10 DEF PullSignal, SignalAndUnlock
<1>11. CASE queue_destroy
    <2>1. (heap \ Walk) \in SUBSET Node
        OBVIOUS
    <2>2. /\ heap' \in SUBSET Node
          /\ next' \in [Node -> Node \cup {NULL}]
          /\ data' \in [Node -> Data \cup {NULL}]
        BY <1>11, <2>1 DEF queue_destroy, free
    <2>3. chain' \in Seq(Node)
        BY <1>11 DEF queue_destroy
    <2>4. alive' \in BOOLEAN
        BY <1>11 DEF queue_destroy
    <2>5. QED BY <1>11, <2>2, <2>3, <2>4 DEF queue_destroy
<1>12. CASE queue_create
    BY <1>12 DEF queue_create
<1>13. CASE UNCHANGED vars
    BY <1>13 DEF vars
<1>14. QED
    BY <1>1, <1>2, <1>3, <1>4, <1>5, <1>6, <1>7, <1>8, <1>9, <1>10, <1>11,
       <1>12, <1>13 DEF Next, ThreadStep, queue_push, queue_pull

\* Each step of queue_push, queue_pull, queue_create and queue_destroy keeps
\* the inductive invariant.
LEMMA InvStep ==
    ASSUME Inv, [Next]_vars
    PROVE  Inv'
<1> USE QueueAssumption
<1> USE DEF Inv, TypeOK, Goto, listVars, Label, Full, Empty
<1>0. TypeOK' BY TypeStep
<1>1. ASSUME NEW t \in Thread, Lock(t) PROVE Inv'
    <2>1. MutexOK'
        BY <1>1 DEF Lock, MutexOK, Critical
    <2>2. DeadOK'
        BY <1>1 DEF Lock, DeadOK, MutexOK, Critical
    <2>3. NodeOK'
        BY <1>1 DEF Lock, NodeOK, Unlinked, MutexOK, Critical, ListOK
    <2>4. ListOK'
        BY <1>1 DEF Lock, ListOK, MutexOK, Critical, NodeOK, Unlinked, DeadOK
    <2>5. CapacityOK'
        BY <1>1 DEF Lock, CapacityOK, MutexOK, Critical
    <2>6. NoLostWakeup'
        BY <1>1 DEF Lock, NoLostWakeup, MutexOK, Critical, ListOK, CapacityOK, DeadOK
    <2>7. QED BY <1>0, <2>1, <2>2, <2>3, <2>4, <2>5, <2>6 DEF Inv
<1>2. ASSUME NEW t \in Thread, SpuriousWakeup(t) PROVE Inv'
    <2>1. MutexOK'
        BY <1>2 DEF SpuriousWakeup, MutexOK, Critical
    <2>2. DeadOK'
        BY <1>2 DEF SpuriousWakeup, DeadOK, MutexOK, Critical
    <2>3. NodeOK'
        BY <1>2 DEF SpuriousWakeup, NodeOK, Unlinked, MutexOK, Critical, ListOK
    <2>4. ListOK'
        BY <1>2 DEF SpuriousWakeup, ListOK, MutexOK, Critical, NodeOK, Unlinked, DeadOK
    <2>5. CapacityOK'
        BY <1>2 DEF SpuriousWakeup, CapacityOK, MutexOK, Critical
    <2>6. NoLostWakeup'
        BY <1>2 DEF SpuriousWakeup, NoLostWakeup, MutexOK, Critical, ListOK, CapacityOK, DeadOK
    <2>7. QED BY <1>0, <2>1, <2>2, <2>3, <2>4, <2>5, <2>6 DEF Inv
<1>3. ASSUME NEW t \in Thread, NEW d \in Data, PushMalloc(t, d) PROVE Inv'
    <2>1. MutexOK'
        BY <1>3 DEF PushMalloc, MutexOK, Critical
    <2>2. DeadOK'
        BY <1>3 DEF PushMalloc, DeadOK, MutexOK, Critical
    <2>3. NodeOK'
        BY <1>3 DEF PushMalloc, NodeOK, Unlinked, MutexOK, Critical, ListOK
    <2>4. ListOK'
        BY <1>3 DEF PushMalloc, ListOK, MutexOK, Critical, NodeOK, Unlinked, DeadOK
    <2>5. CapacityOK'
        BY <1>3 DEF PushMalloc, CapacityOK, MutexOK, Critical
    <2>6. NoLostWakeup'
        BY <1>3 DEF PushMalloc, NoLostWakeup, MutexOK, Critical, ListOK, CapacityOK, DeadOK
    <2>7. QED BY <1>0, <2>1, <2>2, <2>3, <2>4, <2>5, <2>6 DEF Inv
<1>4. ASSUME NEW t \in Thread, PushWait(t) PROVE Inv'
    <2>1. MutexOK'
        BY <1>4 DEF PushWait, CondWait, MutexOK, Critical
    <2>2. DeadOK'
        BY <1>4 DEF PushWait, CondWait, DeadOK, MutexOK, Critical
    <2>3. NodeOK'
        BY <1>4 DEF PushWait, CondWait, NodeOK, Unlinked, MutexOK, Critical, ListOK
    <2>4. ListOK'
        BY <1>4 DEF PushWait, CondWait, ListOK, MutexOK, Critical, NodeOK, Unlinked, DeadOK
    <2>5. CapacityOK'
        BY <1>4 DEF PushWait, CondWait, CapacityOK, MutexOK, Critical
    <2>6. NoLostWakeup'
        BY <1>4 DEF PushWait, CondWait, NoLostWakeup, MutexOK, Critical, ListOK, CapacityOK, DeadOK
    <2>7. QED BY <1>0, <2>1, <2>2, <2>3, <2>4, <2>5, <2>6 DEF Inv
<1>5. ASSUME NEW t \in Thread, PushLink(t) PROVE Inv'
    <2>1. MutexOK'
        BY <1>5 DEF PushLink, MutexOK, Critical
    <2>2. DeadOK'
        BY <1>5 DEF PushLink, DeadOK, MutexOK, Critical
    <2>3. NodeOK'
        <3>1. alive
            BY <1>5 DEF PushLink, DeadOK
        <3>2. \A i \in 1 .. Len(chain') : chain'[i] = nd[t] \/ \E j \in 1 .. Len(chain) : chain'[i] = chain[j]
            BY <1>5 DEF PushLink
        <3>3. tail # NULL => \E j \in 1 .. Len(chain) : tail = chain[j]
            BY <3>1 DEF ListOK
        <3>4. \A u \in Thread \ {t} : pc[u] \in Unlinked => nd[u] # nd[t] /\ nd[u] # tail
            BY <1>5, <3>3 DEF PushLink, NodeOK, Unlinked
        <3>5. QED BY <1>5, <3>2, <3>4 DEF PushLink, NodeOK, Unlinked
    <2>4. ListOK'
        BY <1>5 DEF PushLink, ListOK, MutexOK, Critical, NodeOK, Unlinked, DeadOK
    <2>5. CapacityOK'
        BY <1>5 DEF PushLink, CapacityOK, MutexOK, Critical
    <2>6. NoLostWakeup'
        BY <1>5 DEF PushLink, NoLostWakeup, MutexOK, Critical, ListOK, CapacityOK, DeadOK
    <2>7. QED BY <1>0, <2>1, <2>2, <2>3, <2>4, <2>5, <2>6 DEF Inv
<1>6. ASSUME NEW t \in Thread, PushSignal(t) PROVE Inv'
    <2>1. MutexOK'
        BY <1>6 DEF PushSignal, SignalAndUnlock, MutexOK, Critical
    <2>2. DeadOK'
        BY <1>6 DEF PushSignal, SignalAndUnlock, DeadOK, MutexOK, Critical
    <2>3. NodeOK'
        BY <1>6 DEF PushSignal, SignalAndUnlock, NodeOK, Unlinked, MutexOK, Critical, ListOK
    <2>4. ListOK'
        BY <1>6 DEF PushSignal, SignalAndUnlock, ListOK, MutexOK, Critical, NodeOK, Unlinked, DeadOK
    <2>5. CapacityOK'
        BY <1>6 DEF PushSignal, SignalAndUnlock, CapacityOK, MutexOK, Critical
    <2>6. NoLostWakeup'
        BY <1>6 DEF PushSignal, SignalAndUnlock, NoLostWakeup, MutexOK, Critical, ListOK, CapacityOK, DeadOK
    <2>7. QED BY <1>0, <2>1, <2>2, <2>3, <2>4, <2>5, <2>6 DEF Inv
<1>7. ASSUME NEW t \in Thread, PullCall(t) PROVE Inv'
    <2>1. MutexOK'
        BY <1>7 DEF PullCall, MutexOK, Critical
    <2>2. DeadOK'
        BY <1>7 DEF PullCall, DeadOK, MutexOK, Critical
    <2>3. NodeOK'
        BY <1>7 DEF PullCall, NodeOK, Unlinked, MutexOK, Critical, ListOK
    <2>4. ListOK'
        BY <1>7 DEF PullCall, ListOK, MutexOK, Critical, NodeOK, Unlinked, DeadOK
    <2>5. CapacityOK'
        BY <1>7 DEF PullCall, CapacityOK, MutexOK, Critical
    <2>6. NoLostWakeup'
        BY <1>7 DEF PullCall, NoLostWakeup, MutexOK, Critical, ListOK, CapacityOK, DeadOK
    <2>7. QED BY <1>0, <2>1, <2>2, <2>3, <2>4, <2>5, <2>6 DEF Inv
<1>8. ASSUME NEW t \in Thread, PullWait(t) PROVE Inv'
    <2>1. MutexOK'
        BY <1>8 DEF PullWait, CondWait, MutexOK, Critical
    <2>2. DeadOK'
        BY <1>8 DEF PullWait, CondWait, DeadOK, MutexOK, Critical
    <2>3. NodeOK'
        BY <1>8 DEF PullWait, CondWait, NodeOK, Unlinked, MutexOK, Critical, ListOK
    <2>4. ListOK'
        BY <1>8 DEF PullWait, CondWait, ListOK, MutexOK, Critical, NodeOK, Unlinked, DeadOK
    <2>5. CapacityOK'
        BY <1>8 DEF PullWait, CondWait, CapacityOK, MutexOK, Critical
    <2>6. NoLostWakeup'
        BY <1>8 DEF PullWait, CondWait, NoLostWakeup, MutexOK, Critical, ListOK, CapacityOK, DeadOK
    <2>7. QED BY <1>0, <2>1, <2>2, <2>3, <2>4, <2>5, <2>6 DEF Inv
<1>9. ASSUME NEW t \in Thread, PullUnlink(t) PROVE Inv'
    <2> HIDE DEF TypeOK
    <2>a. alive /\ chain # <<>> /\ chain \in Seq(Node) /\ head = chain[1]
        BY <1>9 DEF PullUnlink, DeadOK, ListOK, TypeOK
    <2>b. /\ Len(chain') = Len(chain) - 1
          /\ \A i \in 1 .. Len(chain') : chain'[i] = chain[i + 1]
        BY <1>9, <2>a DEF PullUnlink
    <2> USE DEF TypeOK
    <2>1. MutexOK'
        BY <1>9 DEF PullUnlink, MutexOK, Critical
    <2>2. DeadOK'
        BY <1>9 DEF PullUnlink, DeadOK, MutexOK, Critical
    <2>3. NodeOK'
        <3>1. \A u \in Thread : pc[u] \in Unlinked => nd[u] # head
            BY <2>a DEF NodeOK
        <3>2. \A i \in 1 .. Len(chain') : \E j \in 1 .. Len(chain) : chain'[i] = chain[j]
            BY <2>a, <2>b
        <3>3. QED BY <1>9, <3>1, <3>2 DEF PullUnlink, free, NodeOK, Unlinked
    <2>4. ListOK'
        <3>1. size' = Len(chain')
            BY <1>9, <2>a, <2>b DEF PullUnlink, ListOK
        <3>2. chain' = <<>> => head' = NULL /\ tail' = NULL
            <4>1. ASSUME chain' = <<>> PROVE Len(chain) = 1
                BY <4>1, <2>a, <2>b
            <4>2. QED BY <1>9, <2>a, <3>1, <4>1 DEF PullUnlink, ListOK
        <3>a. \A i \in 1 .. Len(chain') : chain'[i] \in Node /\ chain'[i] # head
            BY <2>a, <2>b DEF ListOK
        <3>b. \A n \in Node : n # head => next'[n] = next[n]
            BY <1>9 DEF PullUnlink, free
        <3>3. chain' # <<>> => head' = chain'[1] /\ tail' = chain'[Len(chain')] /\ next'[tail'] = NULL
            BY <1>9, <2>a, <2>b, <3>1, <3>a, <3>b DEF PullUnlink, ListOK
        <3>4. \A i \in 1 .. Len(chain') - 1 : next'[chain'[i]] = chain'[i + 1]
            <4> SUFFICES ASSUME NEW i \in 1 .. Len(chain') - 1
                         PROVE  next'[chain'[i]] = chain'[i + 1]
                OBVIOUS
            <4>1. i \in 1 .. Len(chain') /\ i + 1 \in 1 .. Len(chain')
                  /\ i + 1 \in 1 .. Len(chain) - 1
                BY <2>a, <2>b
            <4>2. next[chain[i + 1]] = chain[(i + 1) + 1]
                BY <2>a, <4>1 DEF ListOK
            <4>3. QED BY <2>b, <3>a, <3>b, <4>1, <4>2
        <3>5. \A i, j \in 1 .. Len(chain') : chain'[i] = chain'[j] => i = j
            BY <1>9, <2>a, <2>b DEF PullUnlink, ListOK
        <3>6. \A i \in 1 .. Len(chain') : chain'[i] \in heap'
            BY <1>9, <2>a, <2>b, <3>a DEF PullUnlink, free, ListOK
        <3>7. QED BY <3>1, <3>2, <3>3, <3>4, <3>5, <3>6 DEF ListOK
    <2>5. CapacityOK'
        BY <1>9 DEF PullUnlink, CapacityOK, MutexOK, Critical
    <2>6. NoLostWakeup'
        BY <1>9 DEF PullUnlink, NoLostWakeup, MutexOK, Critical, ListOK, CapacityOK, DeadOK
    <2>7. QED BY <1>0, <2>1, <2>2, <2>3, <2>4, <2>5, <2>6 DEF Inv
<1>10. ASSUME NEW t \in Thread, PullSignal(t) PROVE Inv'
    <2>1. MutexOK'
        BY <1>10 DEF PullSignal, SignalAndUnlock, MutexOK, Critical
    <2>2. DeadOK'
        BY <1>10 DEF PullSignal, SignalAndUnlock, DeadOK, MutexOK, Critical
    <2>3. NodeOK'
        BY <1>10 DEF PullSignal, SignalAndUnlock, NodeOK, Unlinked, MutexOK, Critical, ListOK
    <2>4. ListOK'
        BY <1>10 DEF PullSignal, SignalAndUnlock, ListOK, MutexOK, Critical, NodeOK, Unlinked, DeadOK
    <2>5. CapacityOK'
        BY <1>10 DEF PullSignal, SignalAndUnlock, CapacityOK, MutexOK, Critical
    <2>6. NoLostWakeup'
        BY <1>10 DEF PullSignal, SignalAndUnlock, NoLostWakeup, MutexOK, Critical, ListOK, CapacityOK, DeadOK
    <2>7. QED BY <1>0, <2>1, <2>2, <2>3, <2>4, <2>5, <2>6 DEF Inv
<1>11. CASE queue_destroy
    <2>1. MutexOK'
        BY <1>11 DEF queue_destroy, MutexOK, Critical
    <2>2. DeadOK'
        BY <1>11 DEF queue_destroy, DeadOK, MutexOK, Critical
    <2>3. NodeOK'
        BY <1>11 DEF queue_destroy, NodeOK, Unlinked, MutexOK, Critical, ListOK
    <2>4. ListOK'
        BY <1>11 DEF queue_destroy, ListOK, MutexOK, Critical, NodeOK, Unlinked, DeadOK
    <2>5. CapacityOK'
        BY <1>11 DEF queue_destroy, CapacityOK, MutexOK, Critical
    <2>6. NoLostWakeup'
        BY <1>11 DEF queue_destroy, NoLostWakeup, MutexOK, Critical, ListOK, CapacityOK, DeadOK
    <2>7. QED BY <1>0, <2>1, <2>2, <2>3, <2>4, <2>5, <2>6 DEF Inv
<1>12. CASE queue_create
    <2>1. MutexOK'
        BY <1>12 DEF queue_create, MutexOK, DeadOK, Critical
    <2>2. DeadOK'
        BY <1>12 DEF queue_create, DeadOK, MutexOK, Critical
    <2>3. NodeOK'
        BY <1>12 DEF queue_create, NodeOK, Unlinked, MutexOK, Critical, ListOK
    <2>4. ListOK'
        BY <1>12 DEF queue_create, ListOK, MutexOK, Critical, NodeOK, Unlinked, DeadOK
    <2>5. CapacityOK'
        BY <1>12 DEF queue_create, CapacityOK, MutexOK, Critical
    <2>6. NoLostWakeup'
        BY <1>12 DEF queue_create, NoLostWakeup, MutexOK, Critical, ListOK, CapacityOK, DeadOK
    <2>7. QED BY <1>0, <2>1, <2>2, <2>3, <2>4, <2>5, <2>6 DEF Inv
<1>13. CASE UNCHANGED vars
    <2>1. MutexOK'
        BY <1>13 DEF vars, MutexOK, Critical
    <2>2. DeadOK'
        BY <1>13 DEF vars, DeadOK, MutexOK, Critical
    <2>3. NodeOK'
        BY <1>13 DEF vars, NodeOK, Unlinked, MutexOK, Critical, ListOK
    <2>4. ListOK'
        BY <1>13 DEF vars, ListOK, MutexOK, Critical, NodeOK, Unlinked, DeadOK
    <2>5. CapacityOK'
        BY <1>13 DEF vars, CapacityOK, MutexOK, Critical
    <2>6. NoLostWakeup'
        BY <1>13 DEF vars, NoLostWakeup, MutexOK, Critical, ListOK, CapacityOK, DeadOK
    <2>7. QED BY <1>0, <2>1, <2>2, <2>3, <2>4, <2>5, <2>6 DEF Inv
<1>14. QED
    BY <1>1, <1>2, <1>3, <1>4, <1>5, <1>6, <1>7, <1>8, <1>9, <1>10, <1>11, <1>12, <1>13 DEF Next, ThreadStep, queue_push, queue_pull

\* The inductive invariant of queue.c holds in every reachable state.
THEOREM Invariance == Spec => []Inv
<1>1. Init => Inv
    <2> SUFFICES ASSUME Init PROVE Inv
        OBVIOUS
    <2>1. TypeOK
        BY QueueAssumption DEF Init, TypeOK, Label
    <2>2. MutexOK /\ DeadOK /\ NodeOK
        BY QueueAssumption DEF Init, MutexOK, DeadOK, NodeOK, Critical, Unlinked
    <2>3. ListOK /\ CapacityOK /\ NoLostWakeup
        BY QueueAssumption DEF Init, ListOK, CapacityOK, NoLostWakeup
    <2>4. QED BY <2>1, <2>2, <2>3 DEF Inv
<1>2. Inv /\ [Next]_vars => Inv'
    BY InvStep
<1>3. QED BY <1>1, <1>2, PTL DEF Spec

\* TypeOK of the run, for every queue.
THEOREM TypeCorrect == Spec => []TypeOK
<1>1. Inv => TypeOK BY DEF Inv
<1>2. QED BY <1>1, Invariance, PTL

\* The linked list of queue_push and queue_pull is always the list of the
\* values pushed and not yet pulled.
THEOREM ListCorrect == Spec => []ListOK
<1>1. Inv => ListOK BY DEF Inv
<1>2. QED BY <1>1, Invariance, PTL

\* queue_push never takes the queue beyond its capacity.
THEOREM CapacityCorrect == Spec => []CapacityOK
<1>1. Inv => CapacityOK BY DEF Inv
<1>2. QED BY <1>1, Invariance, PTL

\* Broadcasting only on the two boundary changes of size loses no wakeup.
THEOREM WakeupCorrect == Spec => []NoLostWakeup
<1>1. Inv => NoLostWakeup BY DEF Inv
<1>2. QED BY <1>1, Invariance, PTL
-----------------------------------------------------------------------------
(* queue_destroy frees every node.                                         *)

\* The least-number principle, for sets.
LEMMA LeastIndex ==
    ASSUME NEW T \in SUBSET Nat, T # {}
    PROVE  \E x \in T : \A y \in T : x <= y
<1> DEFINE R == {ss \in Nat \X Nat : ss[1] < ss[2]}
<1>1. IsWellFoundedOn(R, Nat)
    BY NatLessThanWellFounded, Zenon DEF OpToRel
<1> HIDE DEF R
<1>2. \E x \in T : \A y \in T : ~ (<<y, x>> \in R)
    BY <1>1, WFMin
<1>3. \A x, y \in Nat : y < x => <<y, x>> \in R
    BY DEF R
<1>4. \A x, y \in Nat : ~ (y < x) => x <= y
    OBVIOUS
<1>5. QED BY <1>2, <1>3, <1>4

\* The loop of queue_destroy visits every node of the list: otherwise the
\* first one it misses would be the head or follow one it visits.
LEMMA WalkCoversChain ==
    ASSUME TypeOK, ListOK, alive, NEW i \in 1 .. Len(chain)
    PROVE  chain[i] \in Walk
<1> SUFFICES ASSUME NEW S \in SUBSET Node,
                    head # NULL => head \in S,
                    \A x \in S : next[x] # NULL => next[x] \in S,
                    chain[i] \notin S
             PROVE  FALSE
    BY DEF Walk, TypeOK
<1> DEFINE T == {j \in 1 .. Len(chain) : chain[j] \notin S}
<1>1. T \in SUBSET Nat /\ T # {}
    BY DEF TypeOK
<1>2. PICK k \in T : \A j \in T : k <= j
    BY <1>1, LeastIndex
<1>3. CASE k = 1
    BY <1>2, <1>3, QueueAssumption DEF ListOK, TypeOK
<1>4. CASE k # 1
    <2>1. k \in 1 .. Len(chain) /\ k - 1 \in 1 .. Len(chain) - 1
        BY <1>2, <1>4 DEF TypeOK
    <2>2. chain[k - 1] \in S
        BY <1>2, <2>1 DEF TypeOK
    <2>3. next[chain[k - 1]] = chain[k]
        BY <2>1 DEF ListOK, TypeOK
    <2>4. chain[k] # NULL
        BY <2>1, QueueAssumption DEF TypeOK
    <2>5. QED BY <1>2, <2>2, <2>3, <2>4
<1>5. QED BY <1>3, <1>4

\* Every allocated node is in the list or about to be linked.
LEMMA LeakStep ==
    ASSUME Inv, NoLeak, [Next]_vars
    PROVE  NoLeak'
<1> DEFINE InChain == {chain[i] : i \in 1 .. Len(chain)}
           Owned   == {nd[t] : t \in {u \in Thread : pc[u] \in Unlinked}}
<1>0. heap = InChain \cup Owned
    BY DEF NoLeak, Unlinked
<1>u. SUFFICES heap' = InChain' \cup Owned'
    BY DEF NoLeak, Unlinked
<1> USE QueueAssumption
<1> USE DEF Inv, TypeOK, Goto, listVars, Label
<1>1. ASSUME NEW t \in Thread, Lock(t) PROVE heap' = InChain' \cup Owned'
    BY <1>1, <1>0 DEF Lock, Unlinked
<1>2. ASSUME NEW t \in Thread, SpuriousWakeup(t) PROVE heap' = InChain' \cup Owned'
    BY <1>2, <1>0 DEF SpuriousWakeup
<1>3. ASSUME NEW t \in Thread, NEW d \in Data, PushMalloc(t, d)
      PROVE  heap' = InChain' \cup Owned'
    <2>1. PICK n \in Node \ heap : heap' = heap \cup {n} /\ nd' = [nd EXCEPT ![t] = n]
        BY <1>3 DEF PushMalloc
    <2>2. Owned' = Owned \cup {n}
        BY <1>3, <2>1 DEF PushMalloc, Unlinked
    <2>3. InChain' = InChain
        BY <1>3 DEF PushMalloc
    <2>4. QED BY <1>0, <2>1, <2>2, <2>3
<1>4. ASSUME NEW t \in Thread, PushWait(t) PROVE heap' = InChain' \cup Owned'
    BY <1>4, <1>0 DEF PushWait, CondWait, Unlinked
<1>5. ASSUME NEW t \in Thread, PushLink(t) PROVE heap' = InChain' \cup Owned'
    <2>1. nd[t] \in Node
        BY <1>5 DEF PushLink, NodeOK, Unlinked
    <2>2. InChain' = InChain \cup {nd[t]}
        BY <1>5, <2>1 DEF PushLink
    <2>3. Owned \subseteq Owned' \cup {nd[t]}
        BY <1>5 DEF PushLink, Unlinked
    <2>4. Owned' \subseteq Owned /\ nd[t] \in Owned
        BY <1>5 DEF PushLink, Unlinked
    <2>5. heap' = heap
        BY <1>5 DEF PushLink
    <2>6. QED BY <1>0, <2>2, <2>3, <2>4, <2>5
<1>6. ASSUME NEW t \in Thread, PushSignal(t) PROVE heap' = InChain' \cup Owned'
    BY <1>6, <1>0 DEF PushSignal, SignalAndUnlock, Unlinked
<1>7. ASSUME NEW t \in Thread, PullCall(t) PROVE heap' = InChain' \cup Owned'
    BY <1>7, <1>0 DEF PullCall, Unlinked
<1>8. ASSUME NEW t \in Thread, PullWait(t) PROVE heap' = InChain' \cup Owned'
    BY <1>8, <1>0 DEF PullWait, CondWait, Unlinked
<1>9. ASSUME NEW t \in Thread, PullUnlink(t) PROVE heap' = InChain' \cup Owned'
    <2>1. alive /\ chain # <<>> /\ head = chain[1]
        BY <1>9 DEF PullUnlink, Empty, DeadOK, ListOK
    <2>2. /\ Len(chain') = Len(chain) - 1
          /\ \A i \in 1 .. Len(chain') : chain'[i] = chain[i + 1]
        BY <1>9, <2>1 DEF PullUnlink
    <2>3. InChain \subseteq InChain' \cup {head}
        <3>1. ASSUME NEW i \in 1 .. Len(chain), i # 1
              PROVE  i - 1 \in 1 .. Len(chain') /\ chain'[i - 1] = chain[i]
            BY <2>2, <3>1
        <3>2. QED BY <2>1, <3>1
    <2>4. InChain' \subseteq InChain \ {head}
        <3>1. ASSUME NEW i \in 1 .. Len(chain')
              PROVE  i + 1 \in 1 .. Len(chain) /\ chain'[i] = chain[i + 1] /\ chain[i + 1] # chain[1]
            BY <2>1, <2>2, <3>1 DEF ListOK
        <3>2. \A i \in 1 .. Len(chain') : chain'[i] \in InChain /\ chain'[i] # head
            BY <2>1, <3>1
        <3>3. QED BY <3>2
    <2>5. Owned' = Owned
        BY <1>9 DEF PullUnlink, Unlinked
    <2>6. head \notin Owned
        BY <2>1 DEF NodeOK, Unlinked
    <2>7. heap' = heap \ {head}
        BY <1>9 DEF PullUnlink, free
    <2>8. QED BY <1>0, <2>3, <2>4, <2>5, <2>6, <2>7
<1>10. ASSUME NEW t \in Thread, PullSignal(t) PROVE heap' = InChain' \cup Owned'
    BY <1>10, <1>0 DEF PullSignal, SignalAndUnlock, Unlinked
<1>11. CASE queue_destroy
    <2>1. Owned = {} /\ Owned' = {}
        BY <1>11 DEF queue_destroy, Unlinked
    <2>2. InChain' = {}
        BY <1>11 DEF queue_destroy
    <2>3. InChain \subseteq Walk
        BY <1>11, WalkCoversChain DEF queue_destroy
    <2>4. heap' = heap \ Walk
        BY <1>11 DEF queue_destroy, free
    <2>5. QED BY <1>0, <2>1, <2>2, <2>3, <2>4
<1>12. CASE queue_create
    BY <1>12, <1>0 DEF queue_create, Unlinked
<1>13. CASE UNCHANGED vars
    BY <1>13, <1>0 DEF vars, Unlinked
<1>14. QED
    BY <1>1, <1>2, <1>3, <1>4, <1>5, <1>6, <1>7, <1>8, <1>9, <1>10, <1>11,
       <1>12, <1>13 DEF Next, ThreadStep, queue_push, queue_pull

\* queue.c leaks no node: in particular none is left after queue_destroy.
THEOREM LeakFree == Spec => []NoLeak
<1>1. Init => NoLeak
    BY DEF Init, NoLeak
<1>2. Inv /\ NoLeak /\ [Next]_vars => NoLeak'
    BY LeakStep
<1>3. QED BY <1>1, <1>2, Invariance, PTL DEF Spec
-----------------------------------------------------------------------------
(* Refinement of the FIFO queue of queue.h.                                *)

\* A step of queue.c that touches neither the list nor the calls in progress
\* is invisible to the callers.
LEMMA Stutter ==
    ASSUME Inv, chain' = chain, data' = data, nd' = nd, ret' = ret,
           \A t \in Thread :
              \/ pc'[t] = pc[t]
              \/ pc[t] \in Unlinked /\ pc'[t] \in Unlinked
              \/ pc[t] \in {"pullLock", "pullTest"} /\ pc'[t] \in {"pullLock", "pullTest"}
    PROVE  AbsQueue' = AbsQueue /\ AbsState' = AbsState
<1>1. AbsQueue' = AbsQueue
    BY DEF AbsQueue
<1>2. ASSUME NEW t \in Thread PROVE AbsState'[t] = AbsState[t]
    <2>0. pc[t] \in Label
        BY DEF Inv, TypeOK
    <2>1. CASE pc'[t] = pc[t]
        BY <2>0, <2>1 DEF AbsState, Label
    <2>2. CASE pc[t] \in Unlinked /\ pc'[t] \in Unlinked
        BY <2>2 DEF AbsState, Unlinked
    <2>3. CASE pc[t] \in {"pullLock", "pullTest"} /\ pc'[t] \in {"pullLock", "pullTest"}
        BY <2>3 DEF AbsState
    <2>4. QED BY <2>1, <2>2, <2>3
<1>3. QED BY <1>1, <1>2 DEF AbsState

\* Every step of queue.c is a step of the FIFO queue or invisible.
LEMMA RefineStep ==
    ASSUME Inv, Inv', [Next]_vars
    PROVE  [Fifo!Next]_(Fifo!vars)
<1> USE QueueAssumption
<1> USE DEF Inv, TypeOK, Goto, listVars, Label, Unlinked
<1>1. ASSUME NEW t \in Thread, Lock(t) PROVE UNCHANGED <<AbsQueue, AbsState>>
    BY <1>1, Stutter DEF Lock
<1>2. ASSUME NEW t \in Thread, SpuriousWakeup(t) PROVE UNCHANGED <<AbsQueue, AbsState>>
    BY <1>2, Stutter DEF SpuriousWakeup
<1>3. ASSUME NEW t \in Thread, NEW d \in Data, PushMalloc(t, d)
      PROVE  Fifo!CallPush(t, d)
    <2>1. PICK n \in Node \ heap : /\ data' = [data EXCEPT ![n] = d]
                                   /\ nd' = [nd EXCEPT ![t] = n]
        BY <1>3 DEF PushMalloc
    <2>2. alive /\ chain' = chain /\ ret' = ret /\ pc' = [pc EXCEPT ![t] = "pushLock"] /\ pc[t] = "idle"
        BY <1>3 DEF PushMalloc
    <2>3. AbsQueue' = AbsQueue
        BY <2>1, <2>2 DEF AbsQueue, ListOK
    <2>4. AbsState[t] = [op |-> "idle", val |-> NULL]
        BY <2>2 DEF AbsState
    <2>5. AbsState'[t] = [op |-> "push", val |-> d]
        BY <2>1, <2>2 DEF AbsState
    <2>6. ASSUME NEW u \in Thread, u # t PROVE AbsState'[u] = AbsState[u]
        BY <2>1, <2>2, <2>6 DEF AbsState, NodeOK
    <2>7. AbsState' = [AbsState EXCEPT ![t] = [op |-> "push", val |-> d]]
        BY <2>5, <2>6 DEF AbsState
    <2>8. QED BY <2>3, <2>4, <2>7 DEF Fifo!CallPush, Fifo!State, Fifo!Idle
<1>4. ASSUME NEW t \in Thread, PushWait(t) PROVE UNCHANGED <<AbsQueue, AbsState>>
    BY <1>4, Stutter DEF PushWait, CondWait
<1>5. ASSUME NEW t \in Thread, PushLink(t) PROVE Fifo!DoPush(t)
    <2>1. alive /\ nd[t] \in Node
        BY <1>5 DEF PushLink, DeadOK, NodeOK
    <2>2. /\ chain' = Append(chain, nd[t])
          /\ data' = data /\ nd' = nd /\ ret' = ret
          /\ pc' = [pc EXCEPT ![t] = "pushSignal"] /\ pc[t] = "pushTest"
        BY <1>5 DEF PushLink
    <2>3. AbsQueue' = Append(AbsQueue, data[nd[t]])
        BY <2>1, <2>2 DEF AbsQueue
    <2>4. AbsState[t] = [op |-> "push", val |-> data[nd[t]]]
        BY <2>2 DEF AbsState
    <2>5. AbsState'[t] = [op |-> "pushed", val |-> NULL]
        BY <2>2 DEF AbsState
    <2>6. ASSUME NEW u \in Thread, u # t PROVE AbsState'[u] = AbsState[u]
        BY <2>2, <2>6 DEF AbsState
    <2>7. AbsState' = [AbsState EXCEPT ![t] = [op |-> "pushed", val |-> NULL]]
        BY <2>5, <2>6 DEF AbsState
    <2>8. maxSize > 0 => Len(AbsQueue) < maxSize
        BY <1>5, <2>1 DEF PushLink, Full, ListOK, CapacityOK, AbsQueue
    <2>9. QED BY <2>3, <2>4, <2>7, <2>8 DEF Fifo!DoPush, Fifo!State
<1>6. ASSUME NEW t \in Thread, PushSignal(t) PROVE Fifo!Return(t)
    <2>1. AbsQueue' = AbsQueue
        BY <1>6 DEF PushSignal, SignalAndUnlock, AbsQueue
    <2>2. AbsState[t].op = "pushed"
        BY <1>6 DEF PushSignal, AbsState
    <2>3. AbsState'[t] = [op |-> "idle", val |-> NULL]
        BY <1>6 DEF PushSignal, SignalAndUnlock, AbsState
    <2>4. ASSUME NEW u \in Thread, u # t PROVE AbsState'[u] = AbsState[u]
        BY <1>6, <2>4 DEF PushSignal, SignalAndUnlock, AbsState
    <2>5. AbsState' = [AbsState EXCEPT ![t] = [op |-> "idle", val |-> NULL]]
        BY <2>3, <2>4 DEF AbsState
    <2>6. QED BY <2>1, <2>2, <2>5 DEF Fifo!Return, Fifo!Idle, Fifo!State
<1>7. ASSUME NEW t \in Thread, PullCall(t) PROVE Fifo!CallPull(t)
    <2>1. AbsQueue' = AbsQueue
        BY <1>7 DEF PullCall, AbsQueue
    <2>2. AbsState[t] = [op |-> "idle", val |-> NULL]
        BY <1>7 DEF PullCall, AbsState
    <2>3. AbsState'[t] = [op |-> "pull", val |-> NULL]
        BY <1>7 DEF PullCall, AbsState
    <2>4. ASSUME NEW u \in Thread, u # t PROVE AbsState'[u] = AbsState[u]
        BY <1>7, <2>4 DEF PullCall, AbsState
    <2>5. AbsState' = [AbsState EXCEPT ![t] = [op |-> "pull", val |-> NULL]]
        BY <2>3, <2>4 DEF AbsState
    <2>6. QED BY <2>1, <2>2, <2>5 DEF Fifo!CallPull, Fifo!Idle, Fifo!State
<1>8. ASSUME NEW t \in Thread, PullWait(t) PROVE UNCHANGED <<AbsQueue, AbsState>>
    BY <1>8, Stutter DEF PullWait, CondWait
<1>9. ASSUME NEW t \in Thread, PullUnlink(t) PROVE Fifo!DoPull(t)
    <2>1. alive /\ chain # <<>> /\ head = chain[1]
        BY <1>9 DEF PullUnlink, Empty, DeadOK, ListOK
    <2>2. /\ chain' = Tail(chain)
          /\ nd' = nd /\ ret' = [ret EXCEPT ![t] = data[head]]
          /\ pc' = [pc EXCEPT ![t] = "pullSignal"] /\ pc[t] = "pullTest"
          /\ \A n \in Node : n # head => data'[n] = data[n]
        BY <1>9 DEF PullUnlink, free
    <2>a. /\ Len(chain') = Len(chain) - 1
          /\ \A i \in 1 .. Len(chain') : chain'[i] = chain[i + 1]
        BY <2>1, <2>2
    <2>b. \A i \in 1 .. Len(chain') :
            chain'[i] = chain[i + 1] /\ data'[chain'[i]] = data[chain[i + 1]]
        <3> SUFFICES ASSUME NEW i \in 1 .. Len(chain')
                     PROVE  chain'[i] = chain[i + 1] /\ data'[chain'[i]] = data[chain[i + 1]]
            OBVIOUS
        <3>1. i + 1 \in 1 .. Len(chain) /\ i + 1 # 1 /\ 1 \in 1 .. Len(chain)
            BY <2>a
        <3>2. chain[i + 1] # head /\ chain[i + 1] \in Node
            BY <2>1, <3>1 DEF ListOK
        <3>3. QED BY <2>2, <2>a, <3>2
    <2>c. \A u \in Thread : pc[u] \in {"pushLock", "pushTest"} => data'[nd[u]] = data[nd[u]]
        <3>1. \A u \in Thread : pc[u] \in {"pushLock", "pushTest"} => nd[u] \in Node /\ nd[u] # head
            BY <2>1 DEF NodeOK
        <3>2. QED BY <2>2, <3>1
    <2>3. AbsQueue # <<>> /\ Head(AbsQueue) = data[head]
        BY <2>1 DEF AbsQueue
    <2>4. AbsQueue' = Tail(AbsQueue)
        BY <2>1, <2>a, <2>b DEF AbsQueue
    <2>5. AbsState[t].op = "pull"
        BY <2>2 DEF AbsState
    <2>6. AbsState'[t] = [op |-> "got", val |-> data[head]]
        BY <2>2 DEF AbsState
    <2>7. ASSUME NEW u \in Thread, u # t PROVE AbsState'[u] = AbsState[u]
        BY <2>2, <2>7, <2>c DEF AbsState
    <2>8. AbsState' = [AbsState EXCEPT ![t] = [op |-> "got", val |-> data[head]]]
        BY <2>6, <2>7 DEF AbsState
    <2>9. QED BY <2>3, <2>4, <2>5, <2>8 DEF Fifo!DoPull, Fifo!State
<1>10. ASSUME NEW t \in Thread, PullSignal(t) PROVE Fifo!Return(t)
    <2>1. AbsQueue' = AbsQueue
        BY <1>10 DEF PullSignal, SignalAndUnlock, AbsQueue
    <2>2. AbsState[t].op = "got"
        BY <1>10 DEF PullSignal, AbsState
    <2>3. AbsState'[t] = [op |-> "idle", val |-> NULL]
        BY <1>10 DEF PullSignal, SignalAndUnlock, AbsState
    <2>4. ASSUME NEW u \in Thread, u # t PROVE AbsState'[u] = AbsState[u]
        BY <1>10, <2>4 DEF PullSignal, SignalAndUnlock, AbsState
    <2>5. AbsState' = [AbsState EXCEPT ![t] = [op |-> "idle", val |-> NULL]]
        BY <2>3, <2>4 DEF AbsState
    <2>6. QED BY <2>1, <2>2, <2>5 DEF Fifo!Return, Fifo!Idle, Fifo!State
<1>11. ASSUME queue_destroy PROVE Fifo!Discard
    <2>1. \A t \in Thread : AbsState[t] = [op |-> "idle", val |-> NULL]
        BY <1>11 DEF queue_destroy, AbsState
    <2>2. AbsState' = AbsState
        BY <1>11 DEF queue_destroy, AbsState
    <2>3. AbsQueue' = <<>>
        BY <1>11 DEF queue_destroy, AbsQueue
    <2>4. QED BY <2>1, <2>2, <2>3 DEF Fifo!Discard, Fifo!Idle, Fifo!State
<1>12. ASSUME queue_create PROVE UNCHANGED <<AbsQueue, AbsState>>
    BY <1>12, Stutter DEF queue_create
<1>13. ASSUME UNCHANGED vars PROVE UNCHANGED <<AbsQueue, AbsState>>
    BY <1>13, Stutter DEF vars
<1>14. QED
    BY <1>1, <1>2, <1>3, <1>4, <1>5, <1>6, <1>7, <1>8, <1>9, <1>10, <1>11,
       <1>12, <1>13 DEF Next, ThreadStep, queue_push, queue_pull, Fifo!Next, Fifo!vars

\* queue.c implements the FIFO queue that queue.h promises.
THEOREM Refinement == Spec => ImplementsFifo
<1>1. Init => Fifo!Init
    BY DEF Init, Fifo!Init, AbsQueue, AbsState, Fifo!Idle, Fifo!State
<1>2. Inv /\ Inv' /\ [Next]_vars => [Fifo!Next]_(Fifo!vars)
    BY RefineStep
<1>3. QED BY <1>1, <1>2, Invariance, PTL DEF Spec, ImplementsFifo, Fifo!Spec
=============================================================================
