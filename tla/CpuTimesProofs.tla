--------------------------- MODULE CpuTimesProofs ---------------------------
(***************************************************************************)
(* What holds of mp1.c for any processes and any memory.                   *)
(***************************************************************************)
EXTENDS CpuTimes, TLAPS

\* Between kmalloc and list_add a registration has a node of its own.
NewOK == \A p \in Process : pc[p] = "add" => new_node[p] \in Node

TypeInv == TypeOK /\ NewOK

\* The state after mp1_init has the types.
LEMMA TypeInit == Init => TypeInv
<1> SUFFICES ASSUME Init PROVE TypeInv
    OBVIOUS
<1>1. /\ timer \in BOOLEAN /\ queued \in BOOLEAN /\ running \in BOOLEAN
      /\ fault \in BOOLEAN /\ listed \in BOOLEAN /\ late \in BOOLEAN
    BY Zenon DEF Init
<1>2. QED BY <1>1 DEF Init, TypeInv, TypeOK, NewOK

\* Every action keeps the types.
LEMMA TypeStep == ASSUME TypeInv, [Next]_vars PROVE TypeInv'
<1> USE CpuTimesAssumption
<1> USE DEF TypeInv, TypeOK, NewOK, procVars, workVars, exitVars, history
<1>1. ASSUME NEW p \in Process, WriteAlloc(p) PROVE TypeInv'
    BY <1>1 DEF WriteAlloc
<1>2. ASSUME NEW p \in Process, WriteAdd(p) PROVE TypeInv'
    BY <1>2 DEF WriteAdd
<1>3. ASSUME NEW p \in Process, mp1_read(p) PROVE TypeInv'
    BY <1>3 DEF mp1_read
<1>4. ASSUME NEW p \in Process, ProcessExits(p) PROVE TypeInv'
    BY <1>4 DEF ProcessExits
<1>5. ASSUME NEW p \in Process, PidReused(p) PROVE TypeInv'
    BY <1>5 DEF PidReused
<1>6. CASE TimerExpires
    BY <1>6 DEF TimerExpires
<1>7. CASE CallbackQueue
    <2>1. queued' \in BOOLEAN /\ fault' \in BOOLEAN
        BY <1>7, Zenon DEF CallbackQueue
    <2>2. QED BY <1>7, <2>1 DEF CallbackQueue
<1>8. CASE CallbackArm
    BY <1>8 DEF CallbackArm
<1>9. CASE WorkStart
    BY <1>9 DEF WorkStart
<1>10. CASE WorkRecord
    <2>1. fault' \in BOOLEAN
        BY <1>10, Zenon DEF WorkRecord
    <2>2. QED BY <1>10, <2>1 DEF WorkRecord
<1>11. CASE mp1_exit
    <2>1. CASE ExitBegin
        <3>1. listed' \in BOOLEAN
            BY <2>1, Zenon DEF ExitBegin
        <3>2. QED BY <2>1, <3>1 DEF ExitBegin
    <2>2. CASE ExitTimer
        <3>1. late' \in BOOLEAN
            BY <2>2, Zenon DEF ExitTimer
        <3>2. QED BY <2>2, <3>1 DEF ExitTimer
    <2>3. CASE ExitProc \/ ExitFree \/ ExitDestroy
        BY <2>3 DEF ExitProc, ExitFree, ExitDestroy
    <2>4. QED BY <1>11, <2>1, <2>2, <2>3 DEF mp1_exit
<1>12. CASE UNCHANGED vars
    BY <1>12 DEF vars
<1>13. QED
    BY <1>1, <1>2, <1>3, <1>4, <1>5, <1>6, <1>7, <1>8, <1>9, <1>10, <1>11, <1>12
    DEF Next, main, mp1_write, _timer_callback, bottom_fn

\* mp1.c keeps its types.
THEOREM TypeCorrect == Spec => []TypeOK
<1>1. Init => TypeInv
    BY TypeInit
<1>2. TypeInv /\ [Next]_vars => TypeInv'
    BY TypeStep
<1>3. TypeInv => TypeOK
    BY DEF TypeInv
<1>4. QED BY <1>1, <1>2, <1>3, PTL DEF Spec
-----------------------------------------------------------------------------
(* A process that registered finds itself in what it reads.                *)

\* While the proc file is there, no linked node is freed, the node of a
\* registration under way carries the process's pid, and a process that has
\* registered is in the list.
SelfOK ==
    ProcOpen =>
        /\ list \subseteq allocated
        /\ \A p \in Process : pc[p] = "add" =>
              new_node[p] \in allocated /\ pid[new_node[p]] = p
        /\ \A p \in Process : pc[p] = "compute" => \E n \in list : pid[n] = p

SelfInv == TypeInv /\ SelfOK /\ SelfReported

\* Every action keeps the processes that live in the list.
LEMMA SelfStep == ASSUME SelfInv, [Next]_vars PROVE SelfInv'
<1>0. TypeInv'
    BY TypeStep DEF SelfInv
<1> SUFFICES SelfOK' /\ SelfReported'
    BY <1>0 DEF SelfInv
<1> USE CpuTimesAssumption
<1> USE DEF SelfInv, TypeInv, TypeOK, NewOK, SelfOK, SelfReported, ProcOpen,
            procVars, workVars, exitVars, history
<1> DEFINE Goal == SelfOK' /\ SelfReported'
<1>1. ASSUME NEW p \in Process, WriteAlloc(p) PROVE Goal
    BY <1>1 DEF WriteAlloc
<1>2. ASSUME NEW p \in Process, WriteAdd(p) PROVE Goal
    BY <1>2 DEF WriteAdd
<1>3. ASSUME NEW p \in Process, mp1_read(p) PROVE Goal
    BY <1>3 DEF mp1_read
<1>4. ASSUME NEW p \in Process, ProcessExits(p) PROVE Goal
    BY <1>4 DEF ProcessExits
<1>5. ASSUME NEW p \in Process, PidReused(p) PROVE Goal
    BY <1>5 DEF PidReused
<1>6. CASE TimerExpires
    BY <1>6 DEF TimerExpires
<1>7. CASE CallbackQueue
    BY <1>7 DEF CallbackQueue
<1>8. CASE CallbackArm
    BY <1>8 DEF CallbackArm
<1>9. CASE WorkStart
    BY <1>9 DEF WorkStart
<1>10. CASE WorkRecord
    BY <1>10 DEF WorkRecord, Registered, Alive
<1>11. CASE mp1_exit
    BY <1>11 DEF mp1_exit, ExitBegin, ExitProc, ExitFree, ExitTimer, ExitDestroy
<1>12. CASE UNCHANGED vars
    BY <1>12 DEF vars
<1>13. QED
    BY <1>1, <1>2, <1>3, <1>4, <1>5, <1>6, <1>7, <1>8, <1>9, <1>10, <1>11, <1>12
    DEF Next, main, mp1_write, _timer_callback, bottom_fn

\* No process of userapp.c misses itself in the report, or reads the buffer
\* that mp1_read left uninitialised.
THEOREM SelfCorrect == Spec => []SelfReported
<1>1. Init => SelfInv
    BY TypeInit DEF Init, SelfInv, SelfOK, SelfReported
<1>2. SelfInv /\ [Next]_vars => SelfInv'
    BY SelfStep
<1>3. SelfInv => SelfReported
    BY DEF SelfInv
<1>4. QED BY <1>1, <1>2, <1>3, PTL DEF Spec
-----------------------------------------------------------------------------
(* The timer.                                                              *)

\* Every action keeps the timer armed, or its callback under way.
LEMMA TimerStep == ASSUME TypeInv, TimerAlive, [Next]_vars PROVE TimerAlive'
<1> USE DEF TypeInv, TypeOK, TimerAlive, procVars, workVars, exitVars, history
<1>1. ASSUME NEW p \in Process, WriteAlloc(p) PROVE TimerAlive'
    BY <1>1 DEF WriteAlloc
<1>2. ASSUME NEW p \in Process, WriteAdd(p) PROVE TimerAlive'
    BY <1>2 DEF WriteAdd
<1>3. ASSUME NEW p \in Process, mp1_read(p) PROVE TimerAlive'
    BY <1>3 DEF mp1_read
<1>4. ASSUME NEW p \in Process, ProcessExits(p) PROVE TimerAlive'
    BY <1>4 DEF ProcessExits
<1>5. ASSUME NEW p \in Process, PidReused(p) PROVE TimerAlive'
    BY <1>5 DEF PidReused
<1>6. CASE TimerExpires
    BY <1>6 DEF TimerExpires
<1>7. CASE CallbackQueue
    BY <1>7 DEF CallbackQueue
<1>8. CASE CallbackArm
    BY <1>8 DEF CallbackArm
<1>9. CASE WorkStart
    BY <1>9 DEF WorkStart
<1>10. CASE WorkRecord
    BY <1>10 DEF WorkRecord
<1>11. CASE mp1_exit
    BY <1>11 DEF mp1_exit, ExitBegin, ExitProc, ExitFree, ExitTimer, ExitDestroy
<1>12. CASE UNCHANGED vars
    BY <1>12 DEF vars
<1>13. QED
    BY <1>1, <1>2, <1>3, <1>4, <1>5, <1>6, <1>7, <1>8, <1>9, <1>10, <1>11, <1>12
    DEF Next, main, mp1_write, _timer_callback, bottom_fn

\* The timer never dies before mp1_exit deletes it.
THEOREM TimerCorrect == Spec => []TimerAlive
<1>1. Init => TypeInv /\ TimerAlive
    BY TypeInit DEF Init, TimerAlive
<1>2. TypeInv /\ TimerAlive /\ [Next]_vars => TypeInv' /\ TimerAlive'
    BY TypeStep, TimerStep
<1>3. QED BY <1>1, <1>2, PTL DEF Spec
-----------------------------------------------------------------------------
(* The exit, beside a timer, a work and registrations that go on.          *)

\* While nobody was registered when the exit began, it frees nothing.
KeptOK ==
    ~listed =>
        /\ rest = {} /\ list \subseteq allocated
        /\ \A p \in Process : pc[p] = "add" => new_node[p] \in allocated

\* After a del_timer that met no callback none begins; after
\* destroy_workqueue nothing is left.
QuietOK ==
    /\ exit \in {"destroy", "done"} /\ ~late => ~timer /\ callback = "none"
    /\ exit = "done" /\ ~late => ~queued /\ ~running

\* The histories are only set by the steps that they are about.
FreshOK ==
    /\ exit = "no" => ~listed
    /\ exit \in {"no", "proc", "free", "timer"} => ~late

FaultOK == fault => listed \/ late

ExitInv == TypeInv /\ FreshOK /\ KeptOK /\ QuietOK /\ FaultOK

\* Every action keeps the invariant of the exit.
LEMMA ExitStep == ASSUME ExitInv, [Next]_vars PROVE ExitInv'
<1>0. TypeInv'
    BY TypeStep DEF ExitInv
<1> DEFINE Goal == FreshOK' /\ KeptOK' /\ QuietOK' /\ FaultOK'
<1> SUFFICES Goal
    BY <1>0 DEF ExitInv
<1> USE CpuTimesAssumption
<1> USE DEF ExitInv, TypeInv, TypeOK, FreshOK, KeptOK, QuietOK, FaultOK,
            procVars, workVars, exitVars, history
<1>1. ASSUME NEW p \in Process, WriteAlloc(p) PROVE Goal
    BY <1>1 DEF WriteAlloc
<1>2. ASSUME NEW p \in Process, WriteAdd(p) PROVE Goal
    BY <1>2 DEF WriteAdd
<1>3. ASSUME NEW p \in Process, mp1_read(p) PROVE Goal
    BY <1>3 DEF mp1_read
<1>4. ASSUME NEW p \in Process, ProcessExits(p) PROVE Goal
    BY <1>4 DEF ProcessExits
<1>5. ASSUME NEW p \in Process, PidReused(p) PROVE Goal
    BY <1>5 DEF PidReused
<1>6. CASE TimerExpires
    BY <1>6 DEF TimerExpires
<1>7. CASE CallbackQueue
    BY <1>7 DEF CallbackQueue
<1>8. CASE CallbackArm
    BY <1>8 DEF CallbackArm
<1>9. CASE WorkStart
    BY <1>9 DEF WorkStart
<1>10. CASE WorkRecord
    BY <1>10 DEF WorkRecord
<1>11. CASE mp1_exit
    <2>1. CASE ExitBegin
        <3>1. listed' <=> list # {}
            BY <2>1, Zenon DEF ExitBegin
        <3>2. QED BY <2>1, <3>1 DEF ExitBegin
    <2>2. CASE ExitTimer
        <3>1. late' <=> callback # "none"
            BY <2>2, Zenon DEF ExitTimer
        <3>2. QED BY <2>2, <3>1 DEF ExitTimer
    <2>3. CASE ExitProc \/ ExitFree \/ ExitDestroy
        BY <2>3 DEF ExitProc, ExitFree, ExitDestroy
    <2>4. QED BY <1>11, <2>1, <2>2, <2>3 DEF mp1_exit
<1>12. CASE UNCHANGED vars
    BY <1>12 DEF vars
<1>13. QED
    BY <1>1, <1>2, <1>3, <1>4, <1>5, <1>6, <1>7, <1>8, <1>9, <1>10, <1>11, <1>12
    DEF Next, main, mp1_write, _timer_callback, bottom_fn

\* Whenever the module is unloaded, and whatever runs meanwhile: only a callback
\* that had begun before del_timer can outlive the exit, and only that callback
\* or a process registered when the exit began can lead to freed memory.
THEOREM ExitCorrect == Spec => []ExitStops
<1>1. Init => ExitInv
    BY TypeInit DEF Init, ExitInv, FreshOK, KeptOK, QuietOK, FaultOK
<1>2. ExitInv /\ [Next]_vars => ExitInv'
    BY ExitStep
<1>3. ExitInv => ExitStops
    BY DEF ExitInv, QuietOK, FaultOK, ExitStops
<1>4. QED BY <1>1, <1>2, <1>3, PTL DEF Spec
=============================================================================
