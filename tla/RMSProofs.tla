----------------------------- MODULE RMSProofs -----------------------------
(***************************************************************************)
(* What holds of mp2.c for any number of applications, with any periods    *)
(* and processing times.                                                   *)
(***************************************************************************)
EXTENDS RMS, SetSums

\* An application that is past its registration is in the list.
PcOK == \A a \in App : pc[a] \notin {"out", "add", "check"} => a \in list

\* Between mod_timer and schedule() the timer of a yielding task is armed.
ArmedOK == \A a \in App : pc[a] \in {"state", "wake", "int"} => timer[a]

\* The inductive invariant of the pointers and timers.
PointersInv == TypeOK /\ PcOK /\ RunningRegistered /\ TimersRegistered

\* Every action of mp2.c keeps the types.
LEMMA TypeStep == ASSUME TypeOK, [Next]_vars PROVE TypeOK'
<1> USE RMSAssumption
<1> USE DEF TypeOK, AppLabel, Goto, WakeDispatcher, appVars, dispVars
<1>1. ASSUME NEW a \in App, RegisterCheck(a) PROVE TypeOK'
    BY <1>1 DEF RegisterCheck
<1>2. ASSUME NEW a \in App, RegisterAdd(a) PROVE TypeOK'
    BY <1>2 DEF RegisterAdd
<1>20. ASSUME NEW a \in App, read_status(a) PROVE TypeOK'
    BY <1>20 DEF read_status, Listed
<1>3. ASSUME NEW a \in App, de_registration(a) PROVE TypeOK'
    BY <1>3 DEF de_registration
<1>4. ASSUME NEW a \in App, YieldPeriod(a) PROVE TypeOK'
    BY <1>4 DEF YieldPeriod
<1>5. ASSUME NEW a \in App, YieldTimer(a) PROVE TypeOK'
    BY <1>5 DEF YieldTimer
<1>6. ASSUME NEW a \in App, YieldState(a) PROVE TypeOK'
    BY <1>6 DEF YieldState
<1>7. ASSUME NEW a \in App, YieldWake(a) PROVE TypeOK'
    BY <1>7 DEF YieldWake
<1>8. ASSUME NEW a \in App, YieldInterruptible(a) PROVE TypeOK'
    BY <1>8 DEF YieldInterruptible
<1>9. ASSUME NEW a \in App, YieldReturn(a) PROVE TypeOK'
    BY <1>9 DEF YieldReturn
<1>10. ASSUME NEW a \in App, TimerExpires(a) PROVE TypeOK'
    BY <1>10 DEF TimerExpires
<1>11. ASSUME NEW a \in App, CallbackReady(a) PROVE TypeOK'
    BY <1>11 DEF CallbackReady
<1>12. ASSUME NEW a \in App, CallbackWake(a) PROVE TypeOK'
    BY <1>12 DEF CallbackWake
<1>13. CASE DispatcherSet
    BY <1>13 DEF DispatcherSet
<1>14. CASE DispatcherAwake
    BY <1>14 DEF DispatcherAwake
<1>15. CASE DispatchNothing
    BY <1>15 DEF DispatchNothing
<1>16. ASSUME NEW a \in App, DispatchTask(a) PROVE TypeOK'
    BY <1>16 DEF DispatchTask
<1>17. CASE mp_exit
    <2>1. CASE StopDispatcher
        BY <2>1 DEF StopDispatcher
    <2>2. CASE FreeTasks
        <3>1. timer' \in [App -> BOOLEAN] /\ loaded' \in BOOLEAN
            BY <2>2, Zenon DEF FreeTasks
        <3>2. QED BY <2>2, <3>1 DEF FreeTasks
    <2>3. QED BY <1>17, <2>1, <2>2 DEF mp_exit
<1>18. CASE UNCHANGED vars
    BY <1>18 DEF vars
<1>19. QED
    BY <1>1, <1>2, <1>3, <1>4, <1>5, <1>6, <1>7, <1>8, <1>9, <1>10, <1>11,
       <1>12, <1>13, <1>14, <1>15, <1>16, <1>17, <1>18, <1>20
    DEF Next, main, yield_handle, _timer_callback, thread_fn

\* The state after mp_init satisfies all the invariants.
LEMMA InitOK == Init => PointersInv /\ ArmedOK /\ NoTaskForgotten
<1> SUFFICES ASSUME Init PROVE PointersInv /\ ArmedOK /\ NoTaskForgotten
    OBVIOUS
<1>1. timer \in [App -> BOOLEAN]
    BY Zenon DEF Init
<1>2. should_stop \in BOOLEAN /\ loaded \in BOOLEAN /\ oops \in BOOLEAN
    BY Zenon DEF Init
<1>3. TypeOK
    BY <1>1, <1>2, RMSAssumption DEF Init, TypeOK, AppLabel
<1>4. \A a \in App : pc[a] = "out" /\ timer[a] = FALSE
    BY Zenon DEF Init
<1>5. QED
    BY <1>3, <1>4 DEF Init, PointersInv, PcOK, RunningRegistered,
       TimersRegistered, ArmedOK, NoTaskForgotten

\* mp2.c keeps its types.
THEOREM TypeCorrect == Spec => []TypeOK
<1>1. Init => TypeOK
    BY InitOK DEF PointersInv
<1>2. TypeOK /\ [Next]_vars => TypeOK'
    BY TypeStep
<1>3. QED BY <1>1, <1>2, PTL DEF Spec
-----------------------------------------------------------------------------
\* Every action keeps running_mptask and the timers inside of the list.
LEMMA PointersStep == ASSUME PointersInv, [Next]_vars PROVE PointersInv'
<1>0. TypeOK'
    BY TypeStep DEF PointersInv
<1> SUFFICES PcOK' /\ RunningRegistered' /\ TimersRegistered'
    BY <1>0 DEF PointersInv
<1> USE RMSAssumption
<1> USE DEF PointersInv, TypeOK, PcOK, RunningRegistered, TimersRegistered,
            Goto, appVars, dispVars
<1> DEFINE Goal == PcOK' /\ RunningRegistered' /\ TimersRegistered'
<1>1. ASSUME NEW a \in App, RegisterCheck(a) PROVE Goal
    BY <1>1 DEF RegisterCheck
<1>2. ASSUME NEW a \in App, RegisterAdd(a) PROVE Goal
    BY <1>2 DEF RegisterAdd
<1>20. ASSUME NEW a \in App, read_status(a) PROVE Goal
    BY <1>20 DEF read_status, Listed
<1>3. ASSUME NEW a \in App, de_registration(a) PROVE Goal
    BY <1>3 DEF de_registration
<1>4. ASSUME NEW a \in App, YieldPeriod(a) PROVE Goal
    BY <1>4 DEF YieldPeriod
<1>5. ASSUME NEW a \in App, YieldTimer(a) PROVE Goal
    BY <1>5 DEF YieldTimer
<1>6. ASSUME NEW a \in App, YieldState(a) PROVE Goal
    BY <1>6 DEF YieldState
<1>7. ASSUME NEW a \in App, YieldWake(a) PROVE Goal
    BY <1>7 DEF YieldWake
<1>8. ASSUME NEW a \in App, YieldInterruptible(a) PROVE Goal
    BY <1>8 DEF YieldInterruptible
<1>9. ASSUME NEW a \in App, YieldReturn(a) PROVE Goal
    BY <1>9 DEF YieldReturn
<1>10. ASSUME NEW a \in App, TimerExpires(a) PROVE Goal
    BY <1>10 DEF TimerExpires
<1>11. ASSUME NEW a \in App, CallbackReady(a) PROVE Goal
    BY <1>11 DEF CallbackReady
<1>12. ASSUME NEW a \in App, CallbackWake(a) PROVE Goal
    BY <1>12 DEF CallbackWake
<1>13. CASE DispatcherSet
    BY <1>13 DEF DispatcherSet
<1>14. CASE DispatcherAwake
    BY <1>14 DEF DispatcherAwake
<1>15. CASE DispatchNothing
    BY <1>15 DEF DispatchNothing
<1>16. ASSUME NEW a \in App, DispatchTask(a) PROVE Goal
    BY <1>16 DEF DispatchTask, IsChoice, Ready
<1>17. CASE mp_exit
    BY <1>17 DEF mp_exit, StopDispatcher, FreeTasks, WakeDispatcher
<1>18. CASE UNCHANGED vars
    BY <1>18 DEF vars
<1>19. QED
    BY <1>1, <1>2, <1>3, <1>4, <1>5, <1>6, <1>7, <1>8, <1>9, <1>10, <1>11,
       <1>12, <1>13, <1>14, <1>15, <1>16, <1>17, <1>18, <1>20
    DEF Next, main, yield_handle, _timer_callback, thread_fn

\* The combined invariant of pointers and timers holds of every behaviour.
THEOREM PointersCorrect == Spec => []PointersInv
<1>1. Init => PointersInv
    BY InitOK
<1>2. PointersInv /\ [Next]_vars => PointersInv'
    BY PointersStep
<1>3. QED BY <1>1, <1>2, PTL DEF Spec

\* The dispatcher never follows a running_mptask that de_registration freed.
THEOREM RunningCorrect == Spec => []RunningRegistered
<1>1. PointersInv => RunningRegistered
    BY DEF PointersInv
<1>2. QED BY <1>1, PointersCorrect, PTL

\* No timer is armed in a freed mp_task_struct.
THEOREM TimersCorrect == Spec => []TimersRegistered
<1>1. PointersInv => TimersRegistered
    BY DEF PointersInv
<1>2. QED BY <1>1, PointersCorrect, PTL
-----------------------------------------------------------------------------
(* No registration outlives its application.                               *)

\* An application that is not registered is not in the list.  One that has
\* just been added is asleep, and nothing is under way that could make it READY.
FreshOK ==
    \A a \in App :
        /\ pc[a] \in {"out", "add"} => a \notin list
        /\ pc[a] = "add" => callback[a] = "none" /\ loaded
        /\ pc[a] = "check" /\ a \in list =>
              /\ task_state[a] = "SLEEPING" /\ callback[a] = "none"
              /\ ~timer[a] /\ running_mptask # a

OrphanInv == PointersInv /\ FreshOK

\* Every action keeps a new registration quiet until read_status has seen it.
LEMMA OrphanStep == ASSUME OrphanInv, [Next]_vars PROVE OrphanInv'
<1>0. PointersInv'
    BY PointersStep DEF OrphanInv
<1> SUFFICES FreshOK'
    BY <1>0 DEF OrphanInv
<1> USE RMSAssumption
<1> USE DEF OrphanInv, PointersInv, TypeOK, FreshOK, PcOK, RunningRegistered,
            TimersRegistered, Goto, appVars, dispVars
<1>1. ASSUME NEW a \in App, RegisterCheck(a) PROVE FreshOK'
    BY <1>1 DEF RegisterCheck
<1>2. ASSUME NEW a \in App, RegisterAdd(a) PROVE FreshOK'
    <2>1. pc[a] = "add" /\ a \notin list /\ callback[a] = "none" /\ ~timer[a]
        BY <1>2 DEF RegisterAdd
    <2>2. running_mptask # a
        BY <2>1
    <2>3. QED BY <1>2, <2>1, <2>2 DEF RegisterAdd
<1>20. ASSUME NEW a \in App, read_status(a) PROVE FreshOK'
    BY <1>20 DEF read_status, Listed
<1>3. ASSUME NEW a \in App, de_registration(a) PROVE FreshOK'
    BY <1>3 DEF de_registration
<1>4. ASSUME NEW a \in App, YieldPeriod(a) PROVE FreshOK'
    BY <1>4 DEF YieldPeriod
<1>5. ASSUME NEW a \in App, YieldTimer(a) PROVE FreshOK'
    BY <1>5 DEF YieldTimer
<1>6. ASSUME NEW a \in App, YieldState(a) PROVE FreshOK'
    BY <1>6 DEF YieldState
<1>7. ASSUME NEW a \in App, YieldWake(a) PROVE FreshOK'
    BY <1>7 DEF YieldWake
<1>8. ASSUME NEW a \in App, YieldInterruptible(a) PROVE FreshOK'
    BY <1>8 DEF YieldInterruptible
<1>9. ASSUME NEW a \in App, YieldReturn(a) PROVE FreshOK'
    BY <1>9 DEF YieldReturn
<1>10. ASSUME NEW a \in App, TimerExpires(a) PROVE FreshOK'
    BY <1>10 DEF TimerExpires
<1>11. ASSUME NEW a \in App, CallbackReady(a) PROVE FreshOK'
    BY <1>11 DEF CallbackReady
<1>12. ASSUME NEW a \in App, CallbackWake(a) PROVE FreshOK'
    BY <1>12 DEF CallbackWake
<1>13. CASE DispatcherSet
    BY <1>13 DEF DispatcherSet
<1>14. CASE DispatcherAwake
    BY <1>14 DEF DispatcherAwake
<1>15. CASE DispatchNothing
    BY <1>15 DEF DispatchNothing
<1>16. ASSUME NEW a \in App, DispatchTask(a) PROVE FreshOK'
    <2>1. task_state[a] = "READY" /\ a \in list
        BY <1>16 DEF DispatchTask, IsChoice, Ready
    <2>2. ASSUME NEW b \in App, b # a, b # running_mptask
          PROVE  task_state'[b] = task_state[b]
        BY <1>16, <2>2 DEF DispatchTask
    <2>3. QED BY <1>16, <2>1, <2>2 DEF DispatchTask
<1>17. CASE mp_exit
    BY <1>17 DEF mp_exit, StopDispatcher, FreeTasks
<1>18. CASE UNCHANGED vars
    BY <1>18 DEF vars
<1>19. QED
    BY <1>1, <1>2, <1>3, <1>4, <1>5, <1>6, <1>7, <1>8, <1>9, <1>10, <1>11,
       <1>12, <1>13, <1>14, <1>15, <1>16, <1>17, <1>18, <1>20
    DEF Next, main, yield_handle, _timer_callback, thread_fn

\* An application that has exited, or has not begun, is not registered.
THEOREM OrphanCorrect == Spec => []NoOrphan
<1>1. Init => OrphanInv
    <2> SUFFICES ASSUME Init PROVE FreshOK
        BY InitOK DEF OrphanInv
    <2>1. \A a \in App : pc[a] = "out" /\ list = {}
        BY Zenon DEF Init
    <2>2. QED BY <2>1 DEF FreshOK
<1>2. OrphanInv /\ [Next]_vars => OrphanInv'
    BY OrphanStep
<1>3. OrphanInv => NoOrphan
    BY DEF OrphanInv, FreshOK, NoOrphan
<1>4. QED BY <1>1, <1>2, <1>3, PTL DEF Spec
-----------------------------------------------------------------------------
(* The dispatcher hears every wakeup but those that come too early.        *)

\* The dispatcher is about to look at the list.
WillScan == dpc = "lock" \/ (dpc = "schedule" /\ drun = "run")

\* READY task a has to wait, or its wakeup is still to come.
Served(a) ==
    \/ callback[a] = "wake"
    \/ running_mptask # NULL /\ period[running_mptask] <= period[a]

\* From the end of a scan on, the READY tasks are served, and should_stop has
\* not been set since the dispatcher tested it.
HeardOK ==
    /\ ~lost /\ dpc # "stopped" /\ ~WillScan => \A a \in Ready : Served(a)
    /\ ~lost /\ dpc # "stopped" /\ (dpc = "schedule" => drun = "int") =>
          ~should_stop

HeardInv == PointersInv /\ HeardOK

\* wake_up_process(dispatcher) leads to a scan unless it is too early.
LEMMA WakeScans ==
    ASSUME TypeOK, WakeDispatcher, dpc' = dpc, HeardOK, UNCHANGED should_stop
    PROVE  HeardOK'
BY DEF TypeOK, WakeDispatcher, HeardOK, WillScan

\* Every action keeps the READY tasks served.
LEMMA HeardStep == ASSUME HeardInv, [Next]_vars PROVE HeardInv'
<1>0. PointersInv'
    BY PointersStep DEF HeardInv
<1> SUFFICES HeardOK'
    BY <1>0 DEF HeardInv
<1> USE RMSAssumption
<1> USE DEF HeardInv, PointersInv, TypeOK, HeardOK, WillScan, Served, Ready,
            Goto, appVars, dispVars
<1>1. ASSUME NEW a \in App, RegisterCheck(a) PROVE HeardOK'
    BY <1>1 DEF RegisterCheck
<1>2. ASSUME NEW a \in App, RegisterAdd(a) PROVE HeardOK'
    BY <1>2 DEF RegisterAdd
<1>20. ASSUME NEW a \in App, read_status(a) PROVE HeardOK'
    BY <1>20 DEF read_status, Listed
<1>3. ASSUME NEW a \in App, de_registration(a) PROVE HeardOK'
    <2>1. CASE running_mptask = a
        BY <1>3, <2>1, WakeScans DEF de_registration
    <2>2. CASE running_mptask # a
        BY <1>3, <2>2 DEF de_registration
    <2>3. QED BY <2>1, <2>2
<1>4. ASSUME NEW a \in App, YieldPeriod(a) PROVE HeardOK'
    BY <1>4 DEF YieldPeriod
<1>5. ASSUME NEW a \in App, YieldTimer(a) PROVE HeardOK'
    BY <1>5 DEF YieldTimer
<1>6. ASSUME NEW a \in App, YieldState(a) PROVE HeardOK'
    BY <1>6 DEF YieldState
<1>7. ASSUME NEW a \in App, YieldWake(a) PROVE HeardOK'
    BY <1>7, WakeScans DEF YieldWake
<1>8. ASSUME NEW a \in App, YieldInterruptible(a) PROVE HeardOK'
    BY <1>8 DEF YieldInterruptible
<1>9. ASSUME NEW a \in App, YieldReturn(a) PROVE HeardOK'
    BY <1>9 DEF YieldReturn
<1>10. ASSUME NEW a \in App, TimerExpires(a) PROVE HeardOK'
    BY <1>10 DEF TimerExpires
<1>11. ASSUME NEW a \in App, CallbackReady(a) PROVE HeardOK'
    BY <1>11 DEF CallbackReady
<1>12. ASSUME NEW a \in App, CallbackWake(a) PROVE HeardOK'
    BY <1>12, WakeScans DEF CallbackWake
<1>13. CASE DispatcherSet
    BY <1>13 DEF DispatcherSet
<1>14. CASE DispatcherAwake
    BY <1>14 DEF DispatcherAwake
<1>15. CASE DispatchNothing
    BY <1>15 DEF DispatchNothing
<1>16. ASSUME NEW a \in App, DispatchTask(a) PROVE HeardOK'
    <2>1. ASSUME NEW b \in Ready' PROVE period[a] <= period[b]
        <3>0. task_state'[a] = "RUNNING"
            BY <1>16 DEF DispatchTask
        <3>1. b \in App /\ b \in list /\ task_state'[b] = "READY" /\ b # a
            <4>1. list' = list
                BY <1>16 DEF DispatchTask
            <4>2. QED BY <2>1, <3>0, <4>1
        <3>2. CASE b = running_mptask /\ period[a] < period[b]
            BY <3>1, <3>2
        <3>3. CASE ~(b = running_mptask /\ period[a] < period[b])
            <4>1. task_state'[b] = task_state[b]
                BY <1>16, <3>1, <3>3 DEF DispatchTask
            <4>2. QED BY <1>16, <3>1, <4>1 DEF DispatchTask, IsChoice
        <3>4. QED BY <3>2, <3>3
    <2>2. QED BY <1>16, <2>1 DEF DispatchTask
<1>17. CASE mp_exit
    BY <1>17 DEF mp_exit, StopDispatcher, FreeTasks
<1>18. CASE UNCHANGED vars
    BY <1>18 DEF vars
<1>19. QED
    BY <1>1, <1>2, <1>3, <1>4, <1>5, <1>6, <1>7, <1>8, <1>9, <1>10, <1>11,
       <1>12, <1>13, <1>14, <1>15, <1>16, <1>17, <1>18, <1>20
    DEF Next, main, yield_handle, _timer_callback, thread_fn

\* The only wakeups that the dispatcher does not hear are those between its
\* scan (or its test of should_stop) and set_current_state.
THEOREM HeardCorrect == Spec => []WakeupsHeard
<1>1. Init => HeardInv
    BY InitOK DEF Init, HeardInv, HeardOK, Ready
<1>2. HeardInv /\ [Next]_vars => HeardInv'
    BY HeardStep
<1>3. HeardInv => WakeupsHeard
    BY DEF HeardInv, HeardOK, WillScan, Served, WakeupsHeard
<1>4. QED BY <1>1, <1>2, <1>3, PTL DEF Spec
-----------------------------------------------------------------------------
(* No task is forgotten, provided that no timer expires between the        *)
(* mod_timer of its task and the task's schedule().                        *)

YieldInv == PointersInv /\ ArmedOK /\ NoTaskForgotten

\* With punctual timers every action remembers the sleeping tasks.
LEMMA YieldStep ==
    ASSUME Punctual, YieldInv, [Next]_vars
    PROVE  YieldInv'
<1>0. PointersInv'
    BY PointersStep DEF YieldInv
<1> SUFFICES ArmedOK' /\ NoTaskForgotten'
    BY <1>0 DEF YieldInv
<1> USE RMSAssumption
<1> USE DEF YieldInv, PointersInv, TypeOK, ArmedOK, NoTaskForgotten, Goto,
            appVars, dispVars, InYield
<1> DEFINE Goal == ArmedOK' /\ NoTaskForgotten'
<1>1. ASSUME NEW a \in App, RegisterCheck(a) PROVE Goal
    BY <1>1 DEF RegisterCheck
<1>2. ASSUME NEW a \in App, RegisterAdd(a) PROVE Goal
    BY <1>2 DEF RegisterAdd
<1>20. ASSUME NEW a \in App, read_status(a) PROVE Goal
    BY <1>20 DEF read_status, Listed
<1>3. ASSUME NEW a \in App, de_registration(a) PROVE Goal
    BY <1>3 DEF de_registration
<1>4. ASSUME NEW a \in App, YieldPeriod(a) PROVE Goal
    BY <1>4 DEF YieldPeriod
<1>5. ASSUME NEW a \in App, YieldTimer(a) PROVE Goal
    BY <1>5 DEF YieldTimer
<1>6. ASSUME NEW a \in App, YieldState(a) PROVE Goal
    BY <1>6 DEF YieldState
<1>7. ASSUME NEW a \in App, YieldWake(a) PROVE Goal
    BY <1>7 DEF YieldWake
<1>8. ASSUME NEW a \in App, YieldInterruptible(a) PROVE Goal
    BY <1>8 DEF YieldInterruptible
<1>9. ASSUME NEW a \in App, YieldReturn(a) PROVE Goal
    BY <1>9 DEF YieldReturn
<1>10. ASSUME NEW a \in App, TimerExpires(a) PROVE Goal
    BY <1>10 DEF TimerExpires
<1>11. ASSUME NEW a \in App, CallbackReady(a) PROVE Goal
    <2>1. CASE a \in list
        BY <1>11, <2>1 DEF CallbackReady
    <2>2. CASE a \notin list
        BY <1>11, <2>2 DEF CallbackReady, PcOK
    <2>3. QED BY <2>1, <2>2
<1>12. ASSUME NEW a \in App, CallbackWake(a) PROVE Goal
    BY <1>12 DEF CallbackWake
<1>13. CASE DispatcherSet
    BY <1>13 DEF DispatcherSet
<1>14. CASE DispatcherAwake
    BY <1>14 DEF DispatcherAwake
<1>15. CASE DispatchNothing
    BY <1>15 DEF DispatchNothing
<1>16. ASSUME NEW a \in App, DispatchTask(a) PROVE Goal
    <2>1. ArmedOK'
        BY <1>16 DEF DispatchTask
    <2>2. ASSUME NEW b \in App, b # a, task_state[b] = "READY"
          PROVE  task_state'[b] = "READY"
        BY <1>16, <2>2 DEF DispatchTask
    <2>3. NoTaskForgotten'
        BY <1>16, <2>2 DEF DispatchTask
    <2>4. QED BY <2>1, <2>3
<1>17. CASE mp_exit
    BY <1>17 DEF mp_exit, StopDispatcher, FreeTasks, WakeDispatcher
<1>18. CASE UNCHANGED vars
    BY <1>18 DEF vars
<1>19. QED
    BY <1>1, <1>2, <1>3, <1>4, <1>5, <1>6, <1>7, <1>8, <1>9, <1>10, <1>11,
       <1>12, <1>13, <1>14, <1>15, <1>16, <1>17, <1>18, <1>20
    DEF Next, main, yield_handle, _timer_callback, thread_fn

\* If timers are punctual, every task asleep in yield_handle has its timer
\* armed, its callback under way, or is READY: the unlocked yield_handle needs
\* no more than that.
THEOREM YieldCorrect ==
    ASSUME Punctual
    PROVE  Spec => []NoTaskForgotten
<1>1. Init => YieldInv
    BY InitOK DEF YieldInv
<1>2. YieldInv /\ [Next]_vars => YieldInv'
    BY YieldStep
<1>3. YieldInv => NoTaskForgotten
    BY DEF YieldInv
<1>4. QED BY <1>1, <1>2, <1>3, PTL DEF Spec
-----------------------------------------------------------------------------
(* The admission control, provided that registrations do not overlap.      *)

\* The utilisation of a set of tasks, and the demand that it stands for.
Total(S) == MapThenSumSet(Utilisation, S)
Need(S) == MapThenSumSet(Demand, S)

UtilisationOf == [a \in App |-> Utilisation(a)]
DemandOf == [a \in App |-> Demand(a)]

NoNegative == \A a \in App : Utilisation(a) >= 0

\* The numbers of a task are integers, and the division drops less than one.
LEMMA UtilisationType ==
    ASSUME NEW a \in App
    PROVE  Utilisation(a) \in Int /\ Demand(a) \in Int
<1>1. period[a] \in Nat /\ period[a] > 0 /\ processing_time[a] \in Int
    BY RMSAssumption
<1>2. processing_time[a] * SCALE \in Int
    BY <1>1, RMSAssumption
<1>3. \A x \in Int, y \in Nat : y > 0 => x \div y \in Int /\ x % y \in Int
    BY Z3
<1>4. Int32(processing_time[a] * SCALE) \in Int
    BY <1>2, <1>3, RMSAssumption DEF Int32
<1>5. \A x \in Int, y \in Nat : y > 0 => Quotient(x, y) \in Int
    BY <1>3 DEF Quotient
<1>6. QED BY <1>1, <1>2, <1>3, <1>4, <1>5 DEF Utilisation, Demand, Exact

LEMMA Ceiling ==
    ASSUME NEW x \in Nat, NEW y \in Nat, y > 0
    PROVE  -((-x) \div y) <= (x \div y) + 1
<1>1. PICK q \in Int : q = x \div y
    BY Z3
<1>2. PICK r \in Int : r = (-x) \div y
    BY Z3
<1>3. x < y * q + y
    BY <1>1, Z3
<1>4. -x < y * r + y
    BY <1>2, Z3
<1>5. y * r + y = y * (r + 1) /\ y * (-q - 1) = -(y * q) - y
    BY Z3
<1>6. y * (-q - 1) < y * (r + 1)
    BY <1>3, <1>4, <1>5, Z3
<1>7. -q - 1 < r + 1
    BY <1>6, Z3
<1>8. QED BY <1>1, <1>2, <1>7

LEMMA DemandRounded ==
    ASSUME NEW a \in App, Fits(a)
    PROVE  Demand(a) <= Utilisation(a) + 1
<1>1. period[a] \in Nat /\ period[a] > 0 /\ INT_MAX \in Nat
    BY RMSAssumption
<1>2. PICK x \in Nat : x = Exact(a) /\ x <= INT_MAX
    BY <1>1 DEF Fits
<1>3. (x + INT_MAX + 1) % (2 * INT_MAX + 2) = x + INT_MAX + 1
    BY <1>1, <1>2, Z3
<1>4. Int32(x) = x
    BY <1>1, <1>3 DEF Int32
<1>5. Utilisation(a) = x \div period[a]
    BY <1>2, <1>4 DEF Utilisation, Exact, Quotient
<1>6. Demand(a) = -((-x) \div period[a])
    BY <1>2 DEF Demand
<1>7. -((-x) \div period[a]) <= (x \div period[a]) + 1
    BY <1>1, Ceiling
<1>8. QED BY <1>5, <1>6, <1>7
-----------------------------------------------------------------------------
\* The loop over the list computes a sum.
UtilisationFolded(g, S) ==
    g = [s \in SUBSET S |-> IF s = {} THEN 0
         ELSE Utilisation(CHOOSE x \in s : TRUE) + g[s \ {CHOOSE x \in s : TRUE}]]

DemandFolded(g, S) ==
    g = [s \in SUBSET S |-> IF s = {} THEN 0
         ELSE Demand(CHOOSE x \in s : TRUE) + g[s \ {CHOOSE x \in s : TRUE}]]

LEMMA UtilisationFold ==
    ASSUME NEW S \in SUBSET App, NEW g
    PROVE  UtilisationFolded(g, S) <=> Folded(g, UtilisationOf, S)
<1>1. ASSUME NEW s \in SUBSET S, s # {}
      PROVE  UtilisationOf[Pick(s)] = Utilisation(Pick(s))
    BY <1>1, PickIn DEF UtilisationOf
<1>2. [s \in SUBSET S |-> IF s = {} THEN 0 ELSE UtilisationOf[Pick(s)] + g[s \ {Pick(s)}]]
      = [s \in SUBSET S |-> IF s = {} THEN 0 ELSE Utilisation(Pick(s)) + g[s \ {Pick(s)}]]
    BY <1>1
<1>3. QED BY <1>2, Zenon DEF UtilisationFolded, Folded, Pick

LEMMA DemandFold ==
    ASSUME NEW S \in SUBSET App, NEW g
    PROVE  DemandFolded(g, S) <=> Folded(g, DemandOf, S)
<1>1. ASSUME NEW s \in SUBSET S, s # {}
      PROVE  DemandOf[Pick(s)] = Demand(Pick(s))
    BY <1>1, PickIn DEF DemandOf
<1>2. [s \in SUBSET S |-> IF s = {} THEN 0 ELSE DemandOf[Pick(s)] + g[s \ {Pick(s)}]]
      = [s \in SUBSET S |-> IF s = {} THEN 0 ELSE Demand(Pick(s)) + g[s \ {Pick(s)}]]
    BY <1>1
<1>3. QED BY <1>2, Zenon DEF DemandFolded, Folded, Pick

LEMMA TotalIsSum ==
    \E h : IsSum(h, UtilisationOf, App) /\ \A S \in SUBSET App : Total(S) = h[S]
<1>1. IsFiniteSet(App) /\ UtilisationOf \in [App -> Int]
    BY RMSAssumption, UtilisationType DEF UtilisationOf
<1>2. PICK h : IsSum(h, UtilisationOf, App)
    BY <1>1, SumExists
<1>3. ASSUME NEW S \in SUBSET App
      PROVE  Total(S) = h[S]
    <2>1. \E g : UtilisationFolded(g, S)
        BY <1>1, <1>2, FoldExists, UtilisationFold
    <2>2. \E g : UtilisationFolded(g, S) /\ Total(S) = g[S]
        BY <2>1, Zenon DEF Total, MapThenSumSet, MapThenFoldSet, UtilisationFolded
    <2>3. PICK g : Folded(g, UtilisationOf, S) /\ Total(S) = g[S]
        BY <2>2, UtilisationFold
    <2>4. QED BY <1>1, <1>2, <2>3, FoldIsSum
<1>4. QED BY <1>2, <1>3

LEMMA NeedIsSum ==
    \E h : IsSum(h, DemandOf, App) /\ \A S \in SUBSET App : Need(S) = h[S]
<1>1. IsFiniteSet(App) /\ DemandOf \in [App -> Int]
    BY RMSAssumption, UtilisationType DEF DemandOf
<1>2. PICK h : IsSum(h, DemandOf, App)
    BY <1>1, SumExists
<1>3. ASSUME NEW S \in SUBSET App
      PROVE  Need(S) = h[S]
    <2>1. \E g : DemandFolded(g, S)
        BY <1>1, <1>2, FoldExists, DemandFold
    <2>2. \E g : DemandFolded(g, S) /\ Need(S) = g[S]
        BY <2>1, Zenon DEF Need, MapThenSumSet, MapThenFoldSet, DemandFolded
    <2>3. PICK g : Folded(g, DemandOf, S) /\ Need(S) = g[S]
        BY <2>2, DemandFold
    <2>4. QED BY <1>1, <1>2, <2>3, FoldIsSum
<1>4. QED BY <1>2, <1>3

\* What one task more, or fewer, does to the utilisation.
LEMMA TotalFacts ==
    /\ Total({}) = 0
    /\ \A S \in SUBSET App : Total(S) \in Int
    /\ \A S \in SUBSET App, a \in App : a \notin S => Total(S \cup {a}) = Total(S) + Utilisation(a)
    /\ NoNegative => \A S, T \in SUBSET App : S \subseteq T => Total(S) <= Total(T)
<1>1. PICK h : IsSum(h, UtilisationOf, App) /\ \A S \in SUBSET App : Total(S) = h[S]
    BY TotalIsSum
<1>2. /\ h \in [SUBSET App -> Int] /\ h[{}] = 0
      /\ \A S \in SUBSET App, a \in App : a \notin S => h[S \cup {a}] = h[S] + UtilisationOf[a]
    BY <1>1 DEF IsSum
<1>3. Total({}) = 0 /\ \A S \in SUBSET App : Total(S) \in Int
    BY <1>1, <1>2
<1>4. ASSUME NEW S \in SUBSET App, NEW a \in App, a \notin S
      PROVE  Total(S \cup {a}) = Total(S) + Utilisation(a)
    <2>1. Total(S \cup {a}) = h[S \cup {a}] /\ Total(S) = h[S]
        BY <1>1
    <2>2. h[S \cup {a}] = h[S] + Utilisation(a)
        BY <1>2, <1>4 DEF UtilisationOf
    <2>3. QED BY <2>1, <2>2
<1>5. ASSUME NoNegative, NEW S \in SUBSET App, NEW T \in SUBSET App, S \subseteq T
      PROVE  Total(S) <= Total(T)
    <2>1. UtilisationOf \in [App -> Nat]
        BY <1>5, UtilisationType DEF UtilisationOf, NoNegative
    <2>2. h[S] <= h[T]
        BY <1>1, <1>5, <2>1, SumMonotonic, RMSAssumption
    <2>3. QED BY <1>1, <2>2
<1>6. QED BY <1>3, <1>4, <1>5

\* What the division drops is less than one for each task.
LEMMA NeedRounded ==
    ASSUME NEW S \in SUBSET App, \A a \in S : Fits(a)
    PROVE  Need(S) <= Total(S) + Cardinality(S)
<1>1. PICK h : IsSum(h, UtilisationOf, App) /\ \A T \in SUBSET App : Total(T) = h[T]
    BY TotalIsSum
<1>2. PICK k : IsSum(k, DemandOf, App) /\ \A T \in SUBSET App : Need(T) = k[T]
    BY NeedIsSum
<1>3. UtilisationOf \in [App -> Int] /\ DemandOf \in [App -> Int]
    BY UtilisationType DEF UtilisationOf, DemandOf
<1>4. \A a \in S : DemandOf[a] <= UtilisationOf[a] + 1
    BY DemandRounded DEF UtilisationOf, DemandOf
<1>5. k[S] <= h[S] + Cardinality(S)
    BY <1>1, <1>2, <1>3, <1>4, SumRounded, RMSAssumption
<1>6. QED BY <1>1, <1>2, <1>5

\* The list is within the bound, also with the task that has passed the
\* admission control and is not yet in the list.  There is one such task at most.
AdmittedOK ==
    /\ Total(list) <= LIMIT
    /\ \A a \in App : pc[a] = "add" => Utilisation(a) + Total(list) <= LIMIT
    /\ \A a, b \in App : pc[a] = "add" /\ pc[b] = "add" => a = b

AdmissionInv == OrphanInv /\ (NoNegative => AdmittedOK)

\* The steps that admission_control does not have to foresee.
LEMMA AdmittedKept ==
    ASSUME TypeOK, NoNegative, AdmittedOK, list' \in SUBSET list,
           \A a \in App : pc'[a] = "add" => pc[a] = "add"
    PROVE  AdmittedOK'
<1>1. list \in SUBSET App /\ list' \in SUBSET App
    BY DEF TypeOK
<1>2. PICK n \in Int, m \in Int : n = Total(list) /\ m = Total(list') /\ m <= n
    BY <1>1, TotalFacts
<1>3. \A a \in App : Utilisation(a) \in Int
    BY UtilisationType
<1>4. \A a \in App : pc'[a] = "add" => Utilisation(a) + m <= LIMIT
    BY <1>2, <1>3, RMSAssumption DEF AdmittedOK
<1>5. m <= LIMIT
    BY <1>2, RMSAssumption DEF AdmittedOK
<1>6. QED BY <1>2, <1>4, <1>5 DEF AdmittedOK

\* Every action keeps the list within the bound.
LEMMA AdmissionStep ==
    ASSUME Serial, AdmissionInv, [Next]_vars
    PROVE  AdmissionInv'
<1>0. OrphanInv'
    BY OrphanStep DEF AdmissionInv
<1> SUFFICES ASSUME NoNegative PROVE AdmittedOK'
    BY <1>0 DEF AdmissionInv, NoNegative
<1>a. TypeOK /\ FreshOK /\ AdmittedOK
    BY DEF AdmissionInv, OrphanInv, PointersInv
<1>b. list \in SUBSET App /\ pc \in [App -> AppLabel]
    BY <1>a DEF TypeOK
<1> DEFINE Kept == list' \in SUBSET list /\ \A b \in App : pc'[b] = "add" => pc[b] = "add"
<1>k. Kept => AdmittedOK'
    BY <1>a, AdmittedKept
<1> USE DEF Goto, appVars, dispVars
<1>1. ASSUME NEW a \in App, RegisterCheck(a) PROVE AdmittedOK'
    <2>1. /\ \A b \in App : pc[b] # "add"
          /\ pc' = [pc EXCEPT ![a] = IF admission_control(a) THEN "add" ELSE "check"]
          /\ list' = list
        BY <1>1 DEF RegisterCheck
    <2>2. CASE admission_control(a)
        <3>1. \A b \in App : pc'[b] = "add" <=> b = a
            BY <1>b, <2>1, <2>2
        <3>2. Utilisation(a) + Total(list) <= LIMIT
            <4>1. Utilisation(a) + Total(list) \in 0 .. LIMIT
                BY <2>2, Zenon DEF admission_control, Total
            <4>2. QED BY <4>1, RMSAssumption
        <3>3. QED BY <1>a, <2>1, <3>1, <3>2 DEF AdmittedOK
    <2>3. CASE ~admission_control(a)
        <3>1. \A b \in App : pc'[b] = "add" => pc[b] = "add"
            BY <1>b, <2>1, <2>3
        <3>2. QED BY <1>k, <2>1, <3>1
    <2>4. QED BY <2>2, <2>3
<1>2. ASSUME NEW a \in App, RegisterAdd(a) PROVE AdmittedOK'
    <2>1. pc[a] = "add" /\ list' = list \cup {a} /\ pc' = [pc EXCEPT ![a] = "check"]
        BY <1>2 DEF RegisterAdd
    <2>2. a \notin list
        BY <1>a, <2>1 DEF FreshOK
    <2>3. Total(list \cup {a}) = Total(list) + Utilisation(a)
        BY <1>b, <2>2, TotalFacts
    <2>4. Total(list) \in Int /\ Utilisation(a) \in Int
        BY <1>b, TotalFacts, UtilisationType
    <2>5. Utilisation(a) + Total(list) <= LIMIT
        BY <1>a, <2>1 DEF AdmittedOK
    <2>6. Total(list') <= LIMIT
        <3>1. Total(list') = Total(list \cup {a})
            BY <2>1, Zenon
        <3>2. QED BY <2>3, <2>4, <2>5, <3>1
    <2>7. \A b \in App : pc'[b] # "add"
        BY <1>a, <1>b, <2>1 DEF AdmittedOK
    <2>8. QED BY <2>6, <2>7 DEF AdmittedOK
<1>20. ASSUME NEW a \in App, read_status(a) PROVE Kept
    BY <1>b, <1>20 DEF read_status
<1>3. ASSUME NEW a \in App, de_registration(a) PROVE Kept
    BY <1>b, <1>3 DEF de_registration
<1>4. ASSUME NEW a \in App, yield_handle(a) PROVE Kept
    BY <1>b, <1>4 DEF yield_handle, YieldPeriod, YieldTimer, YieldState, YieldWake,
                      YieldInterruptible, YieldReturn
<1>10. ASSUME NEW a \in App, TimerExpires(a) \/ _timer_callback(a) PROVE Kept
    BY <1>10 DEF TimerExpires, _timer_callback, CallbackReady, CallbackWake
<1>13. ASSUME thread_fn PROVE Kept
    BY <1>13 DEF thread_fn, DispatcherSet, DispatcherAwake, DispatchNothing, DispatchTask
<1>17. ASSUME mp_exit PROVE Kept
    BY <1>17 DEF mp_exit, StopDispatcher, FreeTasks
<1>18. ASSUME UNCHANGED vars PROVE Kept
    BY <1>18 DEF vars
<1> HIDE DEF Kept
<1>19. QED
    BY <1>k, <1>1, <1>2, <1>3, <1>4, <1>10, <1>13, <1>17, <1>18, <1>20 DEF Next, main

\* If registrations do not overlap, the admitted tasks demand no more than the
\* bound, up to what the division drops: the total is computed from a list that
\* may shrink, but not grow, before the task is added.
THEOREM AdmissionCorrect ==
    ASSUME Serial
    PROVE  Spec => []AdmissionOK
<1>1. Init => AdmissionInv
    <2> SUFFICES ASSUME Init PROVE OrphanInv /\ AdmittedOK
        BY DEF AdmissionInv
    <2>1. list = {} /\ \A a \in App : pc[a] = "out"
        BY Zenon DEF Init
    <2>2. OrphanInv
        BY <2>1, InitOK DEF OrphanInv, FreshOK
    <2>3. Total(list) <= LIMIT
        BY <2>1, TotalFacts, RMSAssumption
    <2>4. QED BY <2>1, <2>2, <2>3 DEF AdmittedOK
<1>2. AdmissionInv /\ [Next]_vars => AdmissionInv'
    BY AdmissionStep
<1>3. AdmissionInv => AdmissionOK
    <2> SUFFICES ASSUME AdmissionInv, NoNegative,
                        NEW fit, fit = {a \in list : Fits(a)}
                 PROVE  Need(fit) <= LIMIT + Cardinality(fit)
        BY Zenon DEF AdmissionOK, NoNegative, Need
    <2>1. list \in SUBSET App /\ fit \in SUBSET list /\ fit \in SUBSET App
        BY DEF AdmissionInv, OrphanInv, PointersInv, TypeOK
    <2>2. Need(fit) <= Total(fit) + Cardinality(fit)
        BY <2>1, NeedRounded
    <2>3. Total(fit) <= Total(list) /\ Total(fit) \in Int /\ Total(list) \in Int
        BY <2>1, TotalFacts
    <2>4. Total(list) <= LIMIT
        BY DEF AdmissionInv, AdmittedOK
    <2>5. Cardinality(fit) \in Nat
        BY <2>1, RMSAssumption, FS_Subset, FS_CardinalityType
    <2>6. Need(fit) \in Int
        BY <2>1, NeedIsSum DEF IsSum
    <2>7. QED BY <2>2, <2>3, <2>4, <2>5, <2>6, RMSAssumption
<1>4. QED BY <1>1, <1>2, <1>3, PTL DEF Spec
=============================================================================
