------------------------------ MODULE CpuTimes ------------------------------
(***************************************************************************)
(* mp1.c: a process registers by writing its pid to the proc file; every   *)
(* five seconds a timer queues a work that records the CPU time of the     *)
(* registered processes and unlinks those that are gone; a read lists what *)
(* was recorded.  The processes are those of userapp.c: they register,     *)
(* compute, read and exit; their pid may then be used by another process.  *)
(*                                                                         *)
(* A section under mylock is one step.  The callback of the timer and the  *)
(* exit are one step per call that others can see.                         *)
(*                                                                         *)
(* The kernel's side: an armed timer may expire at any moment; del_timer   *)
(* does not wait for a callback that runs; queue_work does nothing if the  *)
(* work is queued already; destroy_workqueue waits for what is queued or   *)
(* running; remove_proc_entry waits for calls inside the module.           *)
(*                                                                         *)
(* Times are abstracted: "initial" is 1337, which mp1_write stores.        *)
(***************************************************************************)
EXTENDS Naturals

CONSTANTS Process,   \* pids
          Node,      \* addresses that kmalloc may return
          NULL

ASSUME CpuTimesAssumption == NULL \notin Node

VARIABLES list,       \* the linked nodes
          allocated,  \* the nodes that are not freed
          pid,        \* pid[n]
          cpu_time,   \* cpu_time[n]
          pc,         \* pc[p]: where process p is
          new_node,   \* new_node[p] of mp1_write
          report,     \* report[p]: the pids that p has read, or "junk"
          timer,      \* the timer is armed
          callback,   \* _timer_callback: "none" or the next step
          queued,     \* bottom_work is on the queue
          running,    \* bottom_work runs
          exit,       \* mp1_exit: "no" or the next step
          rest,       \* the nodes that its loop will come to
          fault,      \* freed memory was used, which ends the behaviour
          listed,     \* history: a node was linked when the exit began
          late        \* history: del_timer met a callback that had begun

procVars == <<pc, new_node, report>>
workVars == <<timer, callback, queued, running>>
history == <<listed, late>>
exitVars == <<exit, rest, fault, history>>
vars == <<list, allocated, pid, cpu_time, procVars, workVars, exitVars>>

Init ==
    /\ list = {} /\ allocated = {}
    /\ pid = [n \in Node |-> NULL]
    /\ cpu_time = [n \in Node |-> "kmalloc"]
    /\ pc = [p \in Process |-> "start"]
    /\ new_node = [p \in Process |-> NULL]
    /\ report = [p \in Process |-> {}]
    /\ timer = TRUE /\ callback = "none"
    /\ queued = FALSE /\ running = FALSE
    /\ exit = "no" /\ rest = {} /\ fault = FALSE
    /\ listed = FALSE /\ late = FALSE

Alive(p) == pc[p] # "gone"

ProcOpen == exit \in {"no", "proc"}
-----------------------------------------------------------------------------
(* The proc file.                                                          *)

\* Up to the lock: the node is not visible yet.
WriteAlloc(p) ==
    /\ ProcOpen /\ pc[p] = "start"
    /\ \E n \in Node \ allocated :
        /\ allocated' = allocated \cup {n}
        /\ pid' = [pid EXCEPT ![n] = p]
        /\ cpu_time' = [cpu_time EXCEPT ![n] = "initial"]
        /\ new_node' = [new_node EXCEPT ![p] = n]
    /\ pc' = [pc EXCEPT ![p] = "add"]
    /\ UNCHANGED <<list, report, workVars, exitVars>>

\* Mutant: the wrong pointer is linked.
WriteAddPid(p) ==
    /\ pc[p] = "add"
    /\ list' = list \cup {p}
    /\ new_node' = [new_node EXCEPT ![p] = NULL]
    /\ pc' = [pc EXCEPT ![p] = "compute"]
    /\ UNCHANGED <<allocated, pid, cpu_time, report, workVars, exitVars>>

WriteAdd(p) ==
    /\ pc[p] = "add"
    /\ list' = list \cup {new_node[p]}
    /\ new_node' = [new_node EXCEPT ![p] = NULL]
    /\ pc' = [pc EXCEPT ![p] = "compute"]
    /\ UNCHANGED <<allocated, pid, cpu_time, report, workVars, exitVars>>

mp1_write(p) == WriteAlloc(p) \/ WriteAdd(p)

\* The buffer is not initialised: without an entry it holds anything.
mp1_read(p) ==
    /\ ProcOpen /\ pc[p] = "compute"
    /\ report' = [report EXCEPT ![p] = IF list = {} THEN {"junk"} ELSE {pid[n] : n \in list}]
    /\ pc' = [pc EXCEPT ![p] = "read"]
    /\ UNCHANGED <<list, allocated, pid, cpu_time, new_node, workVars, exitVars>>

\* The end of main, or a signal, at any moment outside of the module.
ProcessExits(p) ==
    /\ pc[p] \in {"start", "compute", "read"}
    /\ pc' = [pc EXCEPT ![p] = "gone"]
    /\ report' = [report EXCEPT ![p] = {}]
    /\ UNCHANGED <<list, allocated, pid, cpu_time, new_node, workVars, exitVars>>

\* userapp.c: register, compute, read, end.
main(p) == mp1_write(p) \/ mp1_read(p) \/ ProcessExits(p)

\* Another process gets the pid.
PidReused(p) ==
    /\ pc[p] = "gone"
    /\ pc' = [pc EXCEPT ![p] = "start"]
    /\ UNCHANGED <<list, allocated, pid, cpu_time, new_node, report, workVars, exitVars>>
-----------------------------------------------------------------------------
(* The timer and the work.                                                 *)

TimerExpires ==
    /\ timer /\ callback = "none"
    /\ timer' = FALSE
    /\ callback' = "queue"
    /\ UNCHANGED <<list, allocated, pid, cpu_time, procVars, queued, running, exitVars>>

\* queue_work; a queue that is destroyed is freed memory.
CallbackQueue ==
    /\ callback = "queue"
    /\ queued' = (queued \/ exit # "done")
    /\ fault' = (fault \/ exit = "done")
    /\ callback' = "arm"
    /\ UNCHANGED <<list, allocated, pid, cpu_time, procVars, timer, running, exit, rest, history>>

\* Mutant: the timer is armed by mp1_init only.
CallbackArmOnce ==
    /\ callback = "arm"
    /\ callback' = "none"
    /\ UNCHANGED <<list, allocated, pid, cpu_time, procVars, timer, queued, running, exitVars>>

CallbackArm ==
    /\ callback = "arm"
    /\ timer' = TRUE
    /\ callback' = "none"
    /\ UNCHANGED <<list, allocated, pid, cpu_time, procVars, queued, running, exitVars>>

_timer_callback == CallbackQueue \/ CallbackArm

WorkStart ==
    /\ queued /\ ~running
    /\ queued' = FALSE /\ running' = TRUE
    /\ UNCHANGED <<list, allocated, pid, cpu_time, procVars, timer, callback, exitVars>>

\* Mutant: the test of get_cpu_use is inverted.
RegisteredInverted(n) == ~Alive(pid[n])

\* get_cpu_use finds the process of node n.
Registered(n) == Alive(pid[n])

\* The nodes of processes that are gone are unlinked, and not freed.  A node
\* that is unlinked before the loop of mp1_exit has passed it may be the one it
\* goes to next, whose pointers list_del has poisoned.
WorkRecord ==
    /\ running
    /\ list' = {n \in list : Registered(n)}
    /\ cpu_time' = [n \in Node |-> IF n \in list' THEN "measured" ELSE cpu_time[n]]
    /\ rest' = rest \cap list'
    /\ \/ fault' = ~(list \subseteq allocated)
       \/ exit \in {"proc", "free"} /\ rest' # rest /\ fault' = TRUE
    /\ running' = FALSE
    /\ UNCHANGED <<allocated, pid, procVars, timer, callback, queued, exit, history>>

bottom_fn == WorkStart \/ WorkRecord
-----------------------------------------------------------------------------
(* mp1_exit                                                                *)

\* "n = head.next": nodes that are linked from now on will not be freed.
ExitBegin ==
    /\ exit = "no"
    /\ exit' = "proc" /\ rest' = list
    /\ listed' = (list # {})
    /\ UNCHANGED <<list, allocated, pid, cpu_time, procVars, workVars, fault, late>>

ExitProc ==
    /\ exit = "proc"
    /\ \A p \in Process : pc[p] # "add"
    /\ exit' = "free"
    /\ UNCHANGED <<list, allocated, pid, cpu_time, procVars, workVars, rest, fault, history>>

\* One turn of the loop, or its end.  Nothing is unlinked, and mylock is not
\* taken.
ExitFree ==
    /\ exit = "free"
    /\ \/ \E n \in rest : allocated' = allocated \ {n} /\ rest' = rest \ {n} /\ UNCHANGED exit
       \/ rest = {} /\ exit' = "timer" /\ UNCHANGED <<allocated, rest>>
    /\ UNCHANGED <<list, pid, cpu_time, procVars, workVars, fault, history>>

\* Mutant: the timer is forgotten.
ExitTimerKept ==
    /\ exit = "timer"
    /\ late' = (callback # "none")
    /\ exit' = "destroy"
    /\ UNCHANGED <<list, allocated, pid, cpu_time, procVars, workVars, rest, fault, listed>>

ExitTimer ==
    /\ exit = "timer"
    /\ timer' = FALSE
    /\ late' = (callback # "none")
    /\ exit' = "destroy"
    /\ UNCHANGED <<list, allocated, pid, cpu_time, procVars, callback, queued, running, rest, fault, listed>>

ExitDestroy ==
    /\ exit = "destroy"
    /\ ~queued /\ ~running
    /\ exit' = "done"
    /\ UNCHANGED <<list, allocated, pid, cpu_time, procVars, workVars, rest, fault, history>>

mp1_exit == ExitBegin \/ ExitProc \/ ExitFree \/ ExitTimer \/ ExitDestroy
-----------------------------------------------------------------------------
Next ==
    /\ ~fault
    /\ \/ \E p \in Process : main(p) \/ PidReused(p)
       \/ TimerExpires \/ _timer_callback
       \/ bottom_fn
       \/ mp1_exit

Spec == Init /\ [][Next]_vars

\* The timer expires, its callback returns and the kernel's worker runs.
\* Nobody has to register, to read or to unload the module.
Fairness ==
    /\ WF_vars(~fault /\ (TimerExpires \/ _timer_callback))
    /\ WF_vars(~fault /\ bottom_fn)

FairSpec == Spec /\ Fairness
-----------------------------------------------------------------------------
\* The variables of mp1.c, and those of the kernel, have their types.
TypeOK ==
    /\ list \in SUBSET Node /\ allocated \in SUBSET Node
    /\ pid \in [Node -> Process \cup {NULL}]
    /\ cpu_time \in [Node -> {"kmalloc", "initial", "measured"}]
    /\ pc \in [Process -> {"start", "add", "compute", "read", "gone"}]
    /\ new_node \in [Process -> Node \cup {NULL}]
    /\ report \in [Process -> SUBSET (Process \cup {NULL, "junk"})]
    /\ timer \in BOOLEAN /\ callback \in {"none", "queue", "arm"}
    /\ queued \in BOOLEAN /\ running \in BOOLEAN
    /\ exit \in {"no", "proc", "free", "timer", "destroy", "done"}
    /\ rest \in SUBSET Node /\ fault \in BOOLEAN
    /\ listed \in BOOLEAN /\ late \in BOOLEAN

\* The timer, which each callback arms anew, never dies before the exit.
TimerAlive == exit \notin {"destroy", "done"} => timer \/ callback # "none"

\* A process that registered and reads finds itself in the report, whatever
\* the work has unlinked in between: userapp.c prints its own time, and no
\* reader of its kind gets the uninitialised buffer.
SelfReported == \A p \in Process : pc[p] = "read" => p \in report[p]

\* What mp1_exit does get right, although the timer, the work and registrations
\* go on during most of it.  After it nothing runs or will run, unless a callback
\* had begun when it called del_timer, which does not wait: that one queues the
\* work and arms the timer again behind it.  And freed memory is used only for
\* that reason, or because a process was registered when the exit began.
ExitStops ==
    /\ exit = "done" /\ ~late => ~timer /\ callback = "none" /\ ~queued /\ ~running
    /\ fault => listed \/ late

\* mp1.c:191-192, "clean the linked list and free all memory used, destroy
\* workqueue and timer": after the exit nothing runs or will run, and nothing
\* has used what the exit freed.
ExitClean ==
    /\ ~fault
    /\ exit = "done" => ~timer /\ callback = "none" /\ ~queued /\ ~running

\* A registered process gets its time measured, unless it ends or the module
\* is unloaded.
Refreshed ==
    \A n \in Node : (n \in list /\ cpu_time[n] = "initial")
        ~> (cpu_time[n] = "measured" \/ n \notin list \/ exit # "no")

\* The entry of a process that is gone leaves the list, unless its pid is used
\* again before that.
GoneUnlinked ==
    \A n \in Node : (n \in list /\ ~Alive(pid[n]))
        ~> (n \notin list \/ Alive(pid[n]) \/ exit # "no")
=============================================================================
