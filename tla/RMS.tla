-------------------------------- MODULE RMS --------------------------------
(***************************************************************************)
(* mp2.c: the rate-monotonic scheduler.  Applications register, yield and  *)
(* de-register through the proc file (mp_write); each has a timer, and one *)
(* kernel thread, the dispatcher, decides which application runs.          *)
(*                                                                         *)
(* A section under mylock is one step.  yield_handle takes no lock: it is  *)
(* one step per assignment that another thread can see.  A timer callback  *)
(* runs concurrently with everything.                                      *)
(*                                                                         *)
(* set_current_state(TASK_INTERRUPTIBLE) followed by schedule() puts a     *)
(* thread to sleep unless wake_up_process came in between; a wakeup before *)
(* both has no effect.  So a thread sleeps when it is at schedule() and    *)
(* its state is "int".                                                     *)
(*                                                                         *)
(* Time is abstracted: an armed timer may expire at any moment, and a      *)
(* yield other than the first may be late (the "skip current" branch).     *)
(*                                                                         *)
(* The applications are those of userapp.c: register, look for the own     *)
(* line in the proc file, yield, yield again and again, de-register.       *)
(***************************************************************************)
EXTENDS Integers, FiniteSets, FiniteSetsExt

CONSTANTS App,              \* the applications, named by their pid
          period,           \* period[a]
          processing_time,  \* processing_time[a]; userapp.c's may be negative
          INT_MAX,          \* 2^31 - 1
          SCALE,            \* 1000000: utilisation is computed in millionths
          LIMIT,            \* 693000
          NULL,
          Punctual,         \* TRUE: no timer expires while its task is still on
                            \* its way to schedule() in yield_handle
          Serial            \* TRUE: registrations do not overlap

ASSUME RMSAssumption ==
    /\ IsFiniteSet(App) /\ NULL \notin App
    /\ period \in [App -> Nat \ {0}]
    /\ processing_time \in [App -> Int]
    /\ INT_MAX \in Nat /\ SCALE \in Nat /\ LIMIT \in Nat
    /\ Punctual \in BOOLEAN /\ Serial \in BOOLEAN

VARIABLES list,             \* the registered applications (see IsChoice)
          task_state,       \* task_state[a], for registered a
          running_mptask,   \* the application dispatched last, or NULL
          timer,            \* timer[a]: the timer is armed
          callback,         \* callback[a]: "none", "run" or "wake"
          pc,               \* pc[a]: where application a is
          run_state,        \* run_state[a]: "run" or "int"
          priority,         \* priority[a]: "normal" or "fifo"
          dpc, drun,        \* the same for the dispatcher
          lost,             \* history: a wakeup came too early for the
                            \* dispatcher, which has not woken up since
          should_stop,      \* kthread_stop was called
          loaded,           \* the tasks have not been freed by mp_exit
          oops              \* history: a callback dereferenced NULL

appVars  == <<pc, run_state, priority>>
dispVars == <<dpc, drun, lost>>
vars == <<list, task_state, running_mptask, timer, callback,
          appVars, dispVars, should_stop, loaded, oops>>

Init ==
    /\ list = {}
    /\ task_state = [a \in App |-> "SLEEPING"]
    /\ running_mptask = NULL
    /\ timer = [a \in App |-> FALSE]
    /\ callback = [a \in App |-> "none"]
    /\ pc = [a \in App |-> "out"]
    /\ run_state = [a \in App |-> "run"]
    /\ priority = [a \in App |-> "normal"]
    /\ dpc = "set" /\ drun = "run" /\ lost = FALSE
    /\ should_stop = FALSE /\ loaded = TRUE /\ oops = FALSE

Goto(a, label) == pc' = [pc EXCEPT ![a] = label]

\* wake_up_process(dispatcher).
\* Mutant: the argument of wake_up_process is the task's state constant.
WakeDispatcherWrong == drun' = "RUNNING" /\ UNCHANGED lost

WakeDispatcher == drun' = "run" /\ lost' = (lost \/ dpc = "set")
-----------------------------------------------------------------------------
(* registration                                                            *)

\* An int wraps around (the kernel is built so), and C divides towards zero.
Int32(x) == ((x + INT_MAX + 1) % (2 * INT_MAX + 2)) - INT_MAX - 1
Quotient(x, y) == IF x >= 0 THEN x \div y ELSE -((-x) \div y)

Utilisation(a) == Quotient(Int32(processing_time[a] * SCALE), period[a])

\* Mutant: the new task itself is not counted.
admission_controlOthers(a) == MapThenSumSet(Utilisation, list) \in 0..LIMIT

\* total_util is unsigned: a negative sum is a huge number.
admission_control(a) ==
    Utilisation(a) + MapThenSumSet(Utilisation, list) \in 0..LIMIT

\* The admission control, under the lock; the list is extended later, under
\* the lock again.  A task that is not admitted changes nothing.  (An
\* application that registers again does so after its old timer callback.)
RegisterCheck(a) ==
    /\ loaded /\ pc[a] = "out" /\ callback[a] = "none"
    /\ Serial => \A b \in App : pc[b] # "add"
    /\ Goto(a, IF admission_control(a) THEN "add" ELSE "check")
    /\ UNCHANGED <<list, task_state, running_mptask, timer, callback,
                   run_state, priority, dispVars, should_stop, loaded, oops>>

\* Mutant: a new task is READY at once.
RegisterAddReady(a) ==
    /\ pc[a] = "add"
    /\ list' = list \cup {a}
    /\ task_state' = [task_state EXCEPT ![a] = "READY"]
    /\ Goto(a, "check")
    /\ UNCHANGED <<running_mptask, timer, callback, run_state, priority,
                   dispVars, should_stop, loaded, oops>>

RegisterAdd(a) ==
    /\ pc[a] = "add"
    /\ list' = list \cup {a}
    /\ task_state' = [task_state EXCEPT ![a] = "SLEEPING"]
    /\ Goto(a, "check")
    /\ UNCHANGED <<running_mptask, timer, callback, run_state, priority,
                   dispVars, should_stop, loaded, oops>>

\* mp_read prints the line of a with state 0.  (With an empty list the buffer
\* is not initialised; that it holds this very line by chance is left out.)
Listed(a) == a \in list /\ task_state[a] = "SLEEPING"

\* The application looks for that line, and exits if there is none.
read_status(a) ==
    /\ pc[a] = "check"
    /\ Goto(a, IF Listed(a) THEN "user" ELSE "out")
    /\ UNCHANGED <<list, task_state, running_mptask, timer, callback,
                   run_state, priority, dispVars, should_stop, loaded, oops>>
-----------------------------------------------------------------------------
(* de_registration                                                         *)

\* Mutant: running_mptask keeps pointing to the freed struct.
de_registrationKeepsRunning(a) ==
    /\ pc[a] = "user"
    /\ task_state' = [task_state EXCEPT ![a] = "SLEEPING"]
    /\ timer' = [timer EXCEPT ![a] = FALSE]
    /\ list' = list \ {a}
    /\ Goto(a, "out")
    /\ UNCHANGED <<running_mptask, callback, run_state, priority,
                   dispVars, should_stop, loaded, oops>>

\* Mutant: the timer is not deleted.
de_registrationKeepsTimer(a) ==
    /\ pc[a] = "user"
    /\ task_state' = [task_state EXCEPT ![a] = "SLEEPING"]
    /\ list' = list \ {a}
    /\ IF running_mptask = a
       THEN running_mptask' = NULL /\ WakeDispatcher
       ELSE UNCHANGED <<running_mptask, drun, lost>>
    /\ Goto(a, "out")
    /\ UNCHANGED <<timer, callback, run_state, priority, dpc,
                   should_stop, loaded, oops>>

de_registration(a) ==
    /\ pc[a] = "user"
    /\ task_state' = [task_state EXCEPT ![a] = "SLEEPING"]
    /\ timer' = [timer EXCEPT ![a] = FALSE]
    /\ list' = list \ {a}
    /\ IF running_mptask = a
       THEN running_mptask' = NULL /\ WakeDispatcher
       ELSE UNCHANGED <<running_mptask, drun, lost>>
    /\ Goto(a, "out")
    /\ UNCHANGED <<callback, run_state, priority, dpc,
                   should_stop, loaded, oops>>
-----------------------------------------------------------------------------
(* _timer_callback.  del_timer does not wait for a callback that runs; the *)
(* kernel does not run the callback of one timer twice at a time.          *)

InYield == {"timer", "state", "wake", "int"}

TimerExpires(a) ==
    /\ timer[a] /\ callback[a] = "none"
    /\ Punctual => pc[a] \notin InYield
    /\ timer' = [timer EXCEPT ![a] = FALSE]
    /\ callback' = [callback EXCEPT ![a] = "run"]
    /\ UNCHANGED <<list, task_state, running_mptask, appVars,
                   dispVars, should_stop, loaded, oops>>

CallbackReady(a) ==
    /\ callback[a] = "run"
    /\ IF a \in list
       THEN /\ task_state' = [task_state EXCEPT ![a] = "READY"]
            /\ callback' = [callback EXCEPT ![a] = "wake"]
            /\ UNCHANGED oops
       ELSE /\ oops' = TRUE
            /\ callback' = [callback EXCEPT ![a] = "none"]
            /\ UNCHANGED task_state
    /\ UNCHANGED <<list, running_mptask, timer, appVars, dispVars,
                   should_stop, loaded>>

CallbackWake(a) ==
    /\ callback[a] = "wake"
    /\ callback' = [callback EXCEPT ![a] = "none"]
    /\ WakeDispatcher
    /\ UNCHANGED <<list, task_state, running_mptask, timer, appVars,
                   dpc, should_stop, loaded, oops>>

_timer_callback(a) == CallbackReady(a) \/ CallbackWake(a)
-----------------------------------------------------------------------------
(* yield_handle                                                            *)

\* next_period is advanced; a yield that is late for it, which even the first
\* one may be when it is held up before the test, returns at once.
YieldPeriod(a) ==
    /\ pc[a] = "user"
    /\ \/ Goto(a, "timer")
       \/ UNCHANGED pc
    /\ UNCHANGED <<list, task_state, running_mptask, timer, callback,
                   run_state, priority, dispVars, should_stop, loaded, oops>>

\* Mutant: the timer is not armed for the next period.
YieldTimerMissing(a) ==
    /\ pc[a] = "timer"
    /\ Goto(a, "state")
    /\ UNCHANGED <<list, task_state, running_mptask, timer, callback,
                   run_state, priority, dispVars, should_stop, loaded, oops>>

YieldTimer(a) ==
    /\ pc[a] = "timer"
    /\ timer' = [timer EXCEPT ![a] = TRUE]
    /\ Goto(a, "state")
    /\ UNCHANGED <<list, task_state, running_mptask, callback,
                   run_state, priority, dispVars, should_stop, loaded, oops>>

YieldState(a) ==
    /\ pc[a] = "state"
    /\ task_state' = [task_state EXCEPT ![a] = "SLEEPING"]
    /\ Goto(a, "wake")
    /\ UNCHANGED <<list, running_mptask, timer, callback,
                   run_state, priority, dispVars, should_stop, loaded, oops>>

YieldWake(a) ==
    /\ pc[a] = "wake"
    /\ WakeDispatcher
    /\ Goto(a, "int")
    /\ UNCHANGED <<list, task_state, running_mptask, timer, callback,
                   run_state, priority, dpc,
                   should_stop, loaded, oops>>

YieldInterruptible(a) ==
    /\ pc[a] = "int"
    /\ run_state' = [run_state EXCEPT ![a] = "int"]
    /\ Goto(a, "schedule")
    /\ UNCHANGED <<list, task_state, running_mptask, timer, callback,
                   priority, dispVars, should_stop, loaded, oops>>

YieldReturn(a) ==
    /\ pc[a] = "schedule"
    /\ run_state[a] = "run"
    /\ Goto(a, "user")
    /\ UNCHANGED <<list, task_state, running_mptask, timer, callback,
                   run_state, priority, dispVars, should_stop, loaded, oops>>

yield_handle(a) ==
    YieldPeriod(a) \/ YieldTimer(a) \/ YieldState(a) \/ YieldWake(a)
    \/ YieldInterruptible(a) \/ YieldReturn(a)
-----------------------------------------------------------------------------
(* thread_fn, the dispatcher                                               *)

Ready == {a \in list : task_state[a] = "READY"}

\* Mutant: min_period is not tested.
IsChoiceAny(a) == a \in Ready

\* The loop finds a ready task of least period.  (Of several it takes the one
\* registered last; the order of the list has no other use and is left out.)
IsChoice(a) == a \in Ready /\ \A b \in Ready : period[a] <= period[b]

DispatcherSet ==
    /\ dpc = "set"
    /\ drun' = "int"
    /\ dpc' = "schedule"
    /\ UNCHANGED <<list, task_state, running_mptask, timer, callback,
                   appVars, lost, should_stop, loaded, oops>>

DispatcherAwake ==
    /\ dpc = "schedule"
    /\ drun = "run"
    /\ dpc' = IF should_stop THEN "stopped" ELSE "lock"
    /\ lost' = FALSE
    /\ UNCHANGED <<list, task_state, running_mptask, timer, callback,
                   appVars, drun, should_stop, loaded, oops>>

DispatchNothing ==
    /\ dpc = "lock" /\ Ready = {}
    /\ priority' = IF running_mptask # NULL
                   THEN [priority EXCEPT ![running_mptask] = "normal"]
                   ELSE priority
    /\ dpc' = "set"
    /\ UNCHANGED <<list, task_state, running_mptask, timer, callback,
                   pc, run_state, drun, lost, should_stop, loaded, oops>>

\* wake_up_process(a), SCHED_FIFO for a, and the running task preempted if
\* its period is longer.
DispatchTask(a) ==
    LET preempted == {b \in {running_mptask} \ {NULL} : period[a] < period[b]}
    IN  /\ dpc = "lock" /\ IsChoice(a)
        /\ task_state' = [b \in App |->
                CASE b = a -> "RUNNING"
                  [] b # a /\ b \in preempted -> "READY"
                  [] OTHER -> task_state[b]]
        /\ priority' = [b \in App |->
                CASE b = a -> "fifo"
                  [] b # a /\ b \in preempted -> "normal"
                  [] OTHER -> priority[b]]
        /\ run_state' = [run_state EXCEPT ![a] = "run"]
        /\ running_mptask' = a
        /\ dpc' = "set"
        /\ UNCHANGED <<list, timer, callback, pc, drun, lost,
                       should_stop, loaded, oops>>

thread_fn ==
    DispatcherSet \/ DispatcherAwake \/ DispatchNothing
    \/ \E a \in App : DispatchTask(a)
-----------------------------------------------------------------------------
(* mp_exit: kthread_stop, which returns when the dispatcher has exited,    *)
(* then the end of the tasks.  The dispatcher looks at should_stop only    *)
(* when it comes from schedule().  Assumed: no application is inside       *)
(* mp_write when the tasks are freed.                                      *)

StopDispatcher ==
    /\ ~should_stop
    /\ should_stop' = TRUE
    /\ drun' = "run" /\ lost' = (lost \/ dpc \in {"lock", "set"})
    /\ UNCHANGED <<list, task_state, running_mptask, timer, callback,
                   appVars, dpc, loaded, oops>>

FreeTasks ==
    /\ loaded /\ dpc = "stopped"
    /\ \A a \in App : pc[a] \in {"out", "check", "user"}
    /\ loaded' = FALSE
    /\ list' = {}
    /\ timer' = [a \in App |-> FALSE]
    /\ pc' = [a \in App |-> "out"]
    /\ UNCHANGED <<task_state, running_mptask, callback, run_state,
                   priority, dispVars, should_stop, oops>>

mp_exit == StopDispatcher \/ FreeTasks
-----------------------------------------------------------------------------
\* userapp.c.  Once registered, it may yield and de-register in any order.
main(a) ==
    \/ RegisterCheck(a) \/ RegisterAdd(a) \/ read_status(a)
    \/ yield_handle(a) \/ de_registration(a)

\* A NULL dereference in the callback, an interrupt that holds mylock, ends
\* everything.
Next ==
    /\ ~oops
    /\ \/ \E a \in App : main(a) \/ TimerExpires(a) \/ _timer_callback(a)
       \/ thread_fn
       \/ mp_exit

Spec == Init /\ [][Next]_vars
-----------------------------------------------------------------------------
AppLabel == {"out", "add", "check", "user",
             "timer", "state", "wake", "int", "schedule"}

\* The variables of mp2.c hold values of their C types.
TypeOK ==
    /\ list \in SUBSET App
    /\ task_state \in [App -> {"SLEEPING", "READY", "RUNNING"}]
    /\ running_mptask \in App \cup {NULL}
    /\ timer \in [App -> BOOLEAN]
    /\ callback \in [App -> {"none", "run", "wake"}]
    /\ pc \in [App -> AppLabel]
    /\ run_state \in [App -> {"run", "int"}]
    /\ priority \in [App -> {"normal", "fifo"}]
    /\ dpc \in {"set", "schedule", "lock", "stopped"}
    /\ drun \in {"run", "int"} /\ lost \in BOOLEAN
    /\ should_stop \in BOOLEAN /\ loaded \in BOOLEAN /\ oops \in BOOLEAN

\* running_mptask never points to a freed mp_task_struct: de_registration
\* clears it before the dispatcher can look at it.
RunningRegistered == loaded => running_mptask \in list \cup {NULL}

\* No armed timer outlives the mp_task_struct it is part of.
TimersRegistered == \A a \in App : timer[a] => a \in list

\* A task that sleeps in yield_handle will be remembered: its timer is armed,
\* or its callback is about to make it READY, or it is READY.
NoTaskForgotten ==
    \A a \in App :
        pc[a] = "schedule" /\ run_state[a] = "int" =>
            timer[a] \/ callback[a] = "run" \/ task_state[a] = "READY"

\* No registration outlives its application: userapp.c exits when it does not
\* find itself in the proc file, and never de-registers then.
NoOrphan == \A a \in App : pc[a] = "out" => a \notin list

\* The dispatcher sleeps only if there is nothing for it to do, unless a wakeup
\* fell between its scan of the list (for kthread_stop: its test of the flag)
\* and set_current_state: no kthread_stop waits for it, and every READY task
\* whose callback has called wake_up_process waits behind a dispatched task of
\* no longer period.
WakeupsHeard ==
    dpc = "schedule" /\ drun = "int" /\ ~lost =>
        /\ ~should_stop
        /\ \A a \in Ready : callback[a] # "wake" =>
                /\ running_mptask # NULL
                /\ period[running_mptask] <= period[a]

\* The demand that admission_control ought to bound.
Exact(a) == processing_time[a] * SCALE
Fits(a) == Exact(a) \in 0..INT_MAX
Demand(a) == -((-Exact(a)) \div period[a])

\* The admission control keeps the utilisation of the registered tasks within
\* the bound, up to a millionth for each task that the division drops.  Tasks
\* whose product overflows are not bounded, but do not disturb the others as
\* long as no product becomes negative.
AdmissionOK ==
    (\A a \in App : Utilisation(a) >= 0) =>
        LET fit == {a \in list : Fits(a)}
        IN  MapThenSumSet(Demand, fit) <= LIMIT + Cardinality(fit)
=============================================================================
