--------------------------- MODULE ProfilerProofs ---------------------------
(***************************************************************************)
(* Type correctness of Profiler, and when the work lives and when it       *)
(* stops, for any tasks, any overlap of their calls and any buffer.        *)
(***************************************************************************)
EXTENDS Profiler, TLAPS

\* The state after mp_init has the types.
LEMMA TypeInit == Init => TypeOK
<1>1. Init => overrun \in BOOLEAN /\ stale \in BOOLEAN
  BY Zenon DEF Init
<1>2. QED
  BY <1>1, ProfilerAssumption DEF Init, TypeOK, Proc

\* Every action of mp3.c and of the work queue keeps the types.
LEMMA TypeStep == ASSUME TypeOK, [Next]_vars PROVE TypeOK'
<1> USE ProfilerAssumption DEF TypeOK, Proc, Goto, history
<1>1. ASSUME NEW t \in Task, registration(t) PROVE TypeOK'
  <2>1. CASE RegisterTest(t)
    <3>1. (list = {}) \in BOOLEAN
      BY Zenon
    <3>2. empty_flag' \in [Task -> BOOLEAN]
      BY <2>1, <3>1, Zenon DEF RegisterTest
    <3> QED
      BY <2>1, <3>2 DEF RegisterTest
  <2>2. CASE RegisterAdd(t)
    <3>1. overrun' \in BOOLEAN /\ stale' \in BOOLEAN
      BY <2>2, Zenon DEF RegisterAdd
    <3> QED
      BY <2>2, <3>1 DEF RegisterAdd, queue_delayed_work
  <2> QED
    BY <1>1, <2>1, <2>2 DEF registration
<1>2. ASSUME NEW p \in Proc, cancel_delayed_work(p) \/ FlushCall(p) PROVE TypeOK'
  <2>1. CASE cancel_delayed_work(p)
    <3>1. (work # "idle") \in BOOLEAN /\ (stale \/ list # {}) \in BOOLEAN
      BY Zenon
    <3>2. overrun' \in BOOLEAN /\ stale' \in BOOLEAN
      BY <2>1, <3>1, Zenon DEF cancel_delayed_work
    <3> QED
      BY <2>1, <3>2 DEF cancel_delayed_work
  <2>2. CASE FlushCall(p)
    BY <2>2 DEF FlushCall
  <2> QED
    BY <1>2, <2>1, <2>2
<1>3. ASSUME NEW t \in Task, unregistration(t) PROVE TypeOK'
  BY <1>2, <1>3 DEF unregistration, UnregisterRemove, UnregisterTest, UnregisterReturn
<1>4. CASE TimerExpires
  BY <1>4 DEF TimerExpires
<1>5. CASE mp_work_func
  <2>1. CASE WorkStart
    <3>1. \A p \in Proc : (IF "queued" \in await[p] THEN {"running"} ELSE await[p])
                            \in SUBSET {"queued", "running"}
      OBVIOUS
    <3> QED
      BY <2>1, <3>1 DEF WorkStart
  <2>2. CASE WorkMeasure \/ WorkWrite
    BY <2>2 DEF WorkMeasure, WorkWrite
  <2>3. CASE WorkRequeue
    BY <2>3 DEF WorkRequeue, queue_delayed_work
  <2> QED
    BY <1>5, <2>1, <2>2, <2>3 DEF mp_work_func
<1>6. CASE mp_exit
  BY <1>2, <1>6 DEF mp_exit, ExitBegin, ExitFree
<1>7. CASE UNCHANGED vars
  BY <1>7 DEF vars
<1> QED
  BY <1>1, <1>3, <1>4, <1>5, <1>6, <1>7 DEF Next, Workload

\* mp3.c and the work queue keep their types, for any tasks.
THEOREM TypeCorrect == Spec => []TypeOK
<1>1. TypeOK /\ [Next]_vars => TypeOK'
  BY TypeStep
<1> QED
  BY <1>1, TypeInit, PTL DEF Spec
-----------------------------------------------------------------------------
(* The work and the registered tasks.                                      *)

\* Every step preserves WorkAlive: who finds the list empty queues the work,
\* and who uses a test that is not true any more is recorded as stale.
LEMMA AliveStep == ASSUME TypeOK, WorkAlive, [Next]_vars PROVE WorkAlive'
<1> USE ProfilerAssumption
<1> USE DEF TypeOK, WorkAlive, Alive, Goto, Proc, history
<1>1. ASSUME NEW t \in Task, RegisterTest(t) PROVE WorkAlive'
  BY <1>1 DEF RegisterTest
<1>2. ASSUME NEW t \in Task, RegisterAdd(t) PROVE WorkAlive'
  <2>1. CASE empty_flag[t]
    BY <1>2, <2>1 DEF RegisterAdd, queue_delayed_work
  <2>2. CASE ~empty_flag[t]
    <3>1. /\ stale' <=> stale \/ list = {}
          /\ UNCHANGED <<pending, work>> /\ pc'[RMMOD] = pc[RMMOD]
      BY <1>2, <2>2, Zenon DEF RegisterAdd
    <3> QED
      BY <3>1
  <2> QED
    BY <2>1, <2>2
<1>3. ASSUME NEW p \in Proc, cancel_delayed_work(p) PROVE WorkAlive'
  <2>1. stale' <=> stale \/ list # {}
    BY <1>3, Zenon DEF cancel_delayed_work
  <2> QED
    BY <1>3, <2>1 DEF cancel_delayed_work
<1>4. ASSUME NEW t \in Task, UnregisterRemove(t) \/ UnregisterTest(t) \/ UnregisterReturn(t)
      PROVE  WorkAlive'
  BY <1>4 DEF UnregisterRemove, UnregisterTest, UnregisterReturn
<1>5. ASSUME NEW p \in Proc, FlushCall(p) PROVE WorkAlive'
  BY <1>5 DEF FlushCall
<1>6. CASE TimerExpires \/ mp_work_func
  BY <1>6 DEF TimerExpires, mp_work_func, WorkStart, WorkMeasure, WorkWrite,
              WorkRequeue, queue_delayed_work
<1>7. CASE ExitBegin \/ ExitFree
  BY <1>7 DEF ExitBegin, ExitFree
<1>8. CASE UNCHANGED vars
  BY <1>8 DEF vars
<1>9. RMMOD \in Proc /\ \A t \in Task : t \in Proc
  OBVIOUS
<1> QED
  BY <1>1, <1>2, <1>3, <1>4, <1>5, <1>6, <1>7, <1>8, <1>9
  DEF Next, Workload, registration, unregistration, mp_exit

\* However the calls of the tasks overlap, a registered task has a pending or
\* a running work unless one of the two unlocked tests of list_empty was used
\* when it was not true any more: there is no third way to lose the work.
THEOREM AliveCorrect == Spec => []WorkAlive
<1>1. Init => TypeOK /\ WorkAlive
  BY TypeInit DEF Init, WorkAlive
<1>2. TypeOK /\ WorkAlive /\ [Next]_vars => TypeOK' /\ WorkAlive'
  BY TypeStep, AliveStep
<1> QED
  BY <1>1, <1>2, PTL DEF Spec
-----------------------------------------------------------------------------
(* The end of the work.                                                    *)

\* Every step preserves WorkStops: after a cancellation that met no running
\* work nothing runs that could queue it; a registration queues it, and the
\* task is then in the list until it removes itself and tests again.
LEMMA StopsStep == ASSUME TypeOK, WorkStops, [Next]_vars PROVE WorkStops'
<1> USE ProfilerAssumption
<1> USE DEF TypeOK, WorkStops, Cancelled, Alive, Goto, Proc, history
<1>1. ASSUME NEW t \in Task, RegisterTest(t) PROVE WorkStops'
  BY <1>1 DEF RegisterTest
<1>2. ASSUME NEW t \in Task, RegisterAdd(t) PROVE WorkStops'
  <2>1. overrun' <=> overrun \/ pc[RMMOD] # "out"
    BY <1>2, Zenon DEF RegisterAdd
  <2>2. list' # {} /\ pc'[RMMOD] = pc[RMMOD]
    BY <1>2 DEF RegisterAdd
  <2> QED
    BY <2>1, <2>2
<1>3. ASSUME NEW t \in Task, UnregisterRemove(t) PROVE WorkStops'
  BY <1>3 DEF UnregisterRemove
<1>4. ASSUME NEW t \in Task, UnregisterTest(t) PROVE WorkStops'
  BY <1>4 DEF UnregisterTest
<1>5. ASSUME NEW p \in Proc, cancel_delayed_work(p) PROVE WorkStops'
  <2>1. overrun' <=> work # "idle"
    BY <1>5, Zenon DEF cancel_delayed_work
  <2> QED
    BY <1>5, <2>1 DEF cancel_delayed_work
<1>6. ASSUME NEW p \in Proc, FlushCall(p) PROVE WorkStops'
  BY <1>6 DEF FlushCall
<1>7. ASSUME NEW t \in Task, UnregisterReturn(t) PROVE WorkStops'
  BY <1>7 DEF UnregisterReturn
<1>8. CASE TimerExpires \/ mp_work_func
  BY <1>8 DEF TimerExpires, mp_work_func, WorkStart, WorkMeasure, WorkWrite,
              WorkRequeue, queue_delayed_work
<1>9. CASE ExitBegin \/ ExitFree
  BY <1>9 DEF ExitBegin, ExitFree
<1>10. CASE UNCHANGED vars
  BY <1>10 DEF vars
<1>11. RMMOD \in Proc /\ \A t \in Task : t \in Proc
  OBVIOUS
<1> QED
  BY <1>1, <1>2, <1>3, <1>4, <1>5, <1>6, <1>7, <1>8, <1>9, <1>10, <1>11
  DEF Next, Workload, registration, unregistration, mp_exit

\* However the calls overlap, a work survives the last unregistration or the
\* exit only if it was running when it was cancelled, or if a task registered
\* behind the cancellation of the exit.
THEOREM StopsCorrect == Spec => []WorkStops
<1>1. Init => TypeOK /\ WorkStops
  BY TypeInit DEF Init, WorkStops, Alive
<1>2. TypeOK /\ WorkStops /\ [Next]_vars => TypeOK' /\ WorkStops'
  BY TypeStep, StopsStep
<1> QED
  BY <1>1, <1>2, PTL DEF Spec
=============================================================================
