------------------------------ MODULE Profiler ------------------------------
(***************************************************************************)
(* mp3.c: the page-fault profiler.  Tasks register and unregister through  *)
(* the proc file (mp_write); while somebody is registered, one delayed     *)
(* work samples the tasks and queues itself again.  mp_exit is the step of *)
(* the process RMMOD.                                                      *)
(*                                                                         *)
(* A section under mylock is one step.  The two tests of list_empty are    *)
(* outside of it, and so are the cancellation and the flush.               *)
(*                                                                         *)
(* The kernel's side of the work: queue_delayed_work arms a timer, unless  *)
(* the work is pending already; the timer puts the work on the queue; the  *)
(* worker takes it from there and runs it, never twice at a time.          *)
(* cancel_delayed_work takes a pending work back and leaves a running one  *)
(* alone.  flush_workqueue waits for what is queued or running when it is  *)
(* called; a work whose timer is armed is not on the queue yet.            *)
(*                                                                         *)
(* The sums of a sample are left out.  The worker writes its words one by  *)
(* one; the first word outside of mem_buf hits the guard page of vmalloc:  *)
(* the worker dies and mylock is never released.                           *)
(***************************************************************************)
EXTENDS Naturals

CONSTANTS Task,      \* the tasks, named by their pid
          RMMOD,     \* the process that unloads the module
          Words,     \* words that fit into mem_buf, 65536
          Width      \* words of a sample, 4

ASSUME ProfilerAssumption ==
    /\ RMMOD \notin Task
    /\ Words \in Nat
    /\ Width \in Nat \ {0}

Proc == Task \cup {RMMOD}

VARIABLES list,         \* the registered tasks
          pc,           \* pc[p]: where p is
          empty_flag,   \* empty_flag[t] of registration
          await,        \* await[p]: what p's flush waits for: the work that was
                        \* "queued" when it was called, the one that is "running"
          pending,      \* the delayed work: "no", "timer" or "queued"
          work,         \* mp_work_func: "idle" or the next step
          mem_buf_ptr,  \* words written
          overrun,      \* history: the last cancellation met a running work, or
                        \* a task registered behind the one of the exit
          stale         \* history: since the work was last queued, a test of
                        \* list_empty was used when it was not true any more

history == <<overrun, stale>>
vars == <<list, pc, empty_flag, await, pending, work, mem_buf_ptr, history>>

Goto(p, label) == pc' = [pc EXCEPT ![p] = label]

\* mylock is free: no sample is half written.
Unlocked == work # "fault" /\ ~(work = "write" /\ mem_buf_ptr % Width # 0)

Init ==
    /\ list = {}
    /\ pc = [p \in Proc |-> "out"]
    /\ empty_flag = [t \in Task |-> FALSE]
    /\ await = [p \in Proc |-> {}]
    /\ pending = "no"
    /\ work = "idle"
    /\ mem_buf_ptr = 0 /\ overrun = FALSE /\ stale = FALSE
-----------------------------------------------------------------------------
(* The work queue.                                                         *)

queue_delayed_work == pending' = IF pending = "no" THEN "timer" ELSE pending

TimerExpires ==
    /\ pending = "timer"
    /\ pending' = "queued"
    /\ UNCHANGED <<list, pc, empty_flag, await, work, mem_buf_ptr, history>>

\* Mutant: the cancellation is forgotten.
cancel_delayed_workNot(p) ==
    /\ pc[p] = "cancel"
    /\ overrun' = (work # "idle")
    /\ stale' = (stale \/ list # {})
    /\ Goto(p, "flush")
    /\ UNCHANGED <<list, empty_flag, await, pending, work, mem_buf_ptr>>

\* A work that is taken from the queue is not waited for any more.
cancel_delayed_work(p) ==
    /\ pc[p] = "cancel"
    /\ pending' = "no"
    /\ await' = [q \in Proc |-> await[q] \ {"queued"}]
    /\ overrun' = (work # "idle")
    /\ stale' = (stale \/ list # {})
    /\ Goto(p, "flush")
    /\ UNCHANGED <<list, empty_flag, work, mem_buf_ptr>>

\* The call of flush_workqueue.
FlushCall(p) ==
    /\ pc[p] = "flush"
    /\ await' = [await EXCEPT ![p] = {w \in {"queued", "running"} :
                                        IF w = "queued" THEN pending = "queued"
                                                        ELSE work # "idle"}]
    /\ Goto(p, "wait")
    /\ UNCHANGED <<list, empty_flag, pending, work, mem_buf_ptr, history>>
-----------------------------------------------------------------------------
(* registration                                                            *)

RegisterTest(t) ==
    /\ pc[t] = "out"
    /\ empty_flag' = [empty_flag EXCEPT ![t] = (list = {})]
    /\ Goto(t, "add")
    /\ UNCHANGED <<list, await, pending, work, mem_buf_ptr, history>>

\* Mutant: the work is queued for every task but the first.
RegisterAddInverted(t) ==
    /\ pc[t] = "add" /\ Unlocked
    /\ list' = list \cup {t}
    /\ IF empty_flag[t] THEN UNCHANGED pending ELSE queue_delayed_work
    /\ stale' = (~empty_flag[t] /\ (stale \/ list = {}))
    /\ overrun' = (overrun \/ pc[RMMOD] # "out")
    /\ Goto(t, "in")
    /\ UNCHANGED <<empty_flag, await, work, mem_buf_ptr>>

RegisterAdd(t) ==
    /\ pc[t] = "add" /\ Unlocked
    /\ list' = list \cup {t}
    /\ IF empty_flag[t] THEN queue_delayed_work ELSE UNCHANGED pending
    /\ stale' = (~empty_flag[t] /\ (stale \/ list = {}))
    /\ overrun' = (overrun \/ pc[RMMOD] # "out")
    /\ Goto(t, "in")
    /\ UNCHANGED <<empty_flag, await, work, mem_buf_ptr>>

registration(t) == RegisterTest(t) \/ RegisterAdd(t)
-----------------------------------------------------------------------------
(* unregistration                                                          *)

UnregisterRemove(t) ==
    /\ pc[t] = "in" /\ Unlocked
    /\ list' = list \ {t}
    /\ Goto(t, "test")
    /\ UNCHANGED <<empty_flag, await, pending, work, mem_buf_ptr, history>>

UnregisterTest(t) ==
    /\ pc[t] = "test"
    /\ Goto(t, IF list = {} THEN "cancel" ELSE "out")
    /\ UNCHANGED <<list, empty_flag, await, pending, work, mem_buf_ptr, history>>

\* Mutant: the queue is drained instead of flushed.
UnregisterReturnDrained(t) ==
    /\ pc[t] = "wait" /\ pending = "no" /\ work = "idle"
    /\ Goto(t, "out")
    /\ UNCHANGED <<list, empty_flag, await, pending, work, mem_buf_ptr, history>>

\* flush_workqueue returns; the struct is freed.
UnregisterReturn(t) ==
    /\ pc[t] = "wait" /\ await[t] = {}
    /\ Goto(t, "out")
    /\ UNCHANGED <<list, empty_flag, await, pending, work, mem_buf_ptr, history>>

unregistration(t) ==
    UnregisterRemove(t) \/ UnregisterTest(t) \/ cancel_delayed_work(t)
    \/ FlushCall(t) \/ UnregisterReturn(t)
-----------------------------------------------------------------------------
(* mp_work_func                                                            *)

WorkStart ==
    /\ work = "idle" /\ pending = "queued"
    /\ work' = "measure"
    /\ pending' = "no"
    /\ await' = [p \in Proc |-> IF "queued" \in await[p] THEN {"running"} ELSE await[p]]
    /\ UNCHANGED <<list, pc, empty_flag, mem_buf_ptr, history>>

\* The walk over the list, under mylock.
WorkMeasure ==
    /\ work = "measure"
    /\ work' = "write"
    /\ UNCHANGED <<list, pc, empty_flag, await, pending, mem_buf_ptr, history>>

\* Mutant: the size is not minded by one.
WorkWriteBeyond ==
    /\ work = "write"
    /\ \/ /\ mem_buf_ptr <= Words
          /\ mem_buf_ptr' = mem_buf_ptr + 1
          /\ work' = IF mem_buf_ptr' % Width = 0 THEN "requeue" ELSE "write"
       \/ /\ mem_buf_ptr > Words
          /\ work' = "fault"
          /\ UNCHANGED mem_buf_ptr
    /\ UNCHANGED <<list, pc, empty_flag, await, pending, history>>

\* One word of a sample, under mylock.  The test that follows the last word
\* only prints.
WorkWrite ==
    /\ work = "write"
    /\ \/ /\ mem_buf_ptr < Words
          /\ mem_buf_ptr' = mem_buf_ptr + 1
          /\ work' = IF mem_buf_ptr' % Width = 0 THEN "requeue" ELSE "write"
       \/ /\ mem_buf_ptr = Words
          /\ work' = "fault"
          /\ UNCHANGED mem_buf_ptr
    /\ UNCHANGED <<list, pc, empty_flag, await, pending, history>>

\* Mutant: the work is not queued again.
WorkRequeueNever ==
    /\ work = "requeue"
    /\ work' = "idle"
    /\ await' = [p \in Proc |-> await[p] \ {"running"}]
    /\ UNCHANGED <<list, pc, empty_flag, pending, mem_buf_ptr, history>>

\* The work queues itself again and returns.
WorkRequeue ==
    /\ work = "requeue"
    /\ queue_delayed_work
    /\ work' = "idle"
    /\ await' = [p \in Proc |-> await[p] \ {"running"}]
    /\ stale' = FALSE
    /\ UNCHANGED <<list, pc, empty_flag, mem_buf_ptr, overrun>>

mp_work_func == WorkStart \/ WorkMeasure \/ WorkWrite \/ WorkRequeue
-----------------------------------------------------------------------------
(* mp_exit.  The proc file is removed last: a task may be anywhere inside  *)
(* mp_write, or enter it, until the memory is freed.                       *)

ExitBegin ==
    /\ pc[RMMOD] = "out"
    /\ Goto(RMMOD, "cancel")
    /\ UNCHANGED <<list, empty_flag, await, pending, work, mem_buf_ptr, history>>

\* flush_workqueue returns; destroy_workqueue waits for what is on the queue;
\* the list is emptied and mem_buf freed.
ExitFree ==
    /\ pc[RMMOD] = "wait" /\ await[RMMOD] = {}
    /\ work = "idle" /\ pending # "queued"
    /\ list' = {}
    /\ Goto(RMMOD, "freed")
    /\ UNCHANGED <<empty_flag, await, pending, work, mem_buf_ptr, history>>

mp_exit == ExitBegin \/ cancel_delayed_work(RMMOD) \/ FlushCall(RMMOD) \/ ExitFree
-----------------------------------------------------------------------------
\* work.c: register, access memory, unregister; it may also end without
\* unregistering.
Workload(t) == registration(t) \/ unregistration(t)

\* What runs after the memory is freed uses freed memory: the behaviour ends.
Next ==
    /\ pc[RMMOD] # "freed"
    /\ \/ \E t \in Task : Workload(t)
       \/ TimerExpires
       \/ mp_work_func
       \/ mp_exit

Spec == Init /\ [][Next]_vars

\* The timer expires, the worker runs, and a call inside the kernel goes on.
\* Nobody has to register, to unregister or to unload the module.
Fairness ==
    /\ WF_vars(pc[RMMOD] # "freed" /\ TimerExpires)
    /\ WF_vars(pc[RMMOD] # "freed" /\ mp_work_func)
    /\ \A t \in Task :
        /\ WF_vars(pc[RMMOD] # "freed" /\ RegisterAdd(t))
        /\ WF_vars(pc[RMMOD] # "freed" /\
                   ( UnregisterTest(t) \/ cancel_delayed_work(t)
                     \/ FlushCall(t) \/ UnregisterReturn(t) ))

FairSpec == Spec /\ Fairness
-----------------------------------------------------------------------------
\* The variables of mp3.c, and those of the kernel's work, have their types.
TypeOK ==
    /\ list \in SUBSET Task
    /\ pc \in [Proc -> {"out", "add", "in", "test", "cancel", "flush", "wait", "freed"}]
    /\ empty_flag \in [Task -> BOOLEAN]
    /\ await \in [Proc -> SUBSET {"queued", "running"}]
    /\ pending \in {"no", "timer", "queued"}
    /\ work \in {"idle", "measure", "write", "requeue", "fault"}
    /\ mem_buf_ptr \in 0 .. Words /\ overrun \in BOOLEAN /\ stale \in BOOLEAN

Alive == pending # "no" \/ work # "idle"

\* While a task is registered the work is pending or running, although
\* registration queues it only for the task that finds the list empty, and
\* unregistration cancels it: a registered task is without it only after one
\* of the two tests, made without mylock (mp3.c:183, 234), was used when the
\* list had changed behind it.
WorkAlive == list # {} /\ pc[RMMOD] = "out" /\ ~stale => Alive

\* The cancellation is behind the last task, or behind the exit.
Cancelled ==
    \/ pc[RMMOD] \in {"flush", "wait", "freed"}
    \/ list = {} /\ \A t \in Task : pc[t] \notin {"test", "cancel"}

\* When the last task has unregistered, or mem_buf is freed, no work is left
\* that a timer could start, however the calls overlap, unless one was running
\* during the cancellation, which queues itself again (mp3.c:291) and which
\* nobody cancels, or a task registered behind the cancellation of the exit.
WorkStops == Cancelled /\ ~overrun => ~Alive

\* Somebody who stays registered is sampled again and again, until the buffer
\* is full or the module is unloaded, or until one of the tests of list_empty
\* is used when it is not true any more.
KeepsSampling ==
    (list # {}) ~> ( work \in {"requeue", "fault"} \/ list = {} \/ stale
                     \/ pc[RMMOD] # "out" )

\* mp3.c:204, "current PCB list is empty", and mp3.c:234, "PCB list is empty
\* after deletion": if that were so, whoever stays registered would be sampled.
AlwaysSampled ==
    (list # {}) ~> (work \in {"requeue", "fault"} \/ list = {} \/ pc[RMMOD] # "out")

\* unregistration comes back from its flush, although the work it waits for
\* queues itself again: two runs are the most it has to wait for.
UnregistrationReturns ==
    \A t \in Task : (pc[t] = "wait" /\ mem_buf_ptr + 2 * Width <= Words)
                        ~> (pc[t] = "out" \/ pc[RMMOD] # "out")
=============================================================================
