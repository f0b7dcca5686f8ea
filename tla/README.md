# TLA+ for CS423-2017SP

The repository holds four independent programs: three Linux kernel modules (MP1
records CPU times, MP2 is a rate-monotonic scheduler, MP3 a page-fault profiler)
and a distributed load balancer (MP4: a client and a server that share 1024 jobs
over a TCP connection). This directory models them in TLA+, checks the models
with TLC on small instances and proves part of them with TLAPS.

## Inventory

### MP4, the load balancer (modelled)

| part | state | operations | interacts with |
|---|---|---|---|
| `queue.c` | linked list, size, one mutex, one condition variable | push, pull, create, destroy | every thread of both processes |
| `utils.c` | `peer_num_jobs`, `rebalance_requested`, `job_array`, `job_todo`, `job_tosend`, the socket | `transfer`, `send_state`, `state_handle`, `adaptor` | runs in the threads of client and server |
| `client.c` | `job_finished` and its mutex | `bootstrap`, the main thread's loop, `write_to_server`, `read_from_server`, `state_manager` | the server through messages; its own threads through the queues and the mutex |
| `server.c` | `sessionEnd`, `clientFd` | `process_client`, `transfer_handler`, `compute_worker`, `write_to_clients`, `state_manager`, `close_server` | the client |

Hard: four threads per process that share `job_array` without a lock; one
condition variable for pushers and pullers; jobs that travel both ways while they
are counted; readers that also send; a goodbye that passes through a queue and
two processes; processes that die of SIGPIPE. It is correct if the queues are
FIFO queues that lose no wakeup, no job is lost, doubled or computed twice, the
client ends, and its output holds every result.

### MP2, the rate-monotonic scheduler (modelled)

State: the list of `mp_task_struct` with their state, period and timer,
`running_mptask`, the dispatcher thread. Operations: `registration` with
`admission_control`, `yield_handle`, `de_registration` (all by writes to the
proc file), `_timer_callback`, `thread_fn`, `mp_exit`. Hard: `yield_handle`
takes no lock; two wakeup protocols (`set_current_state` + `schedule` against
`wake_up_process`); callbacks that outlive `del_timer`; a check and an insertion
in two critical sections. It is correct if no freed task is used, no task sleeps
for ever, the admitted tasks stay within the bound, and the ready task of the
shortest period runs.

### MP3, the profiler and its monitor (modelled)

State: the list of registered tasks, one delayed work, a buffer of 128 pages that
the monitor maps, `mem_buf_ptr`. Operations: `registration` (queues the work if
the list was empty), `unregistration` (cancels it if the list is empty),
`mp_work_func` (samples, then queues itself), `dev_mmap`, `mp_exit`; the program
`monitor.c` prints and erases what is in the buffer. Hard: both emptiness tests
are outside of the lock; the work queues itself whatever was cancelled; the
buffer's end; memory freed under a work that runs; a monitor that shares the
buffer without a lock. It is correct if the work is queued exactly while a task
is registered, a call comes back, samples stay within the buffer, and the monitor
prints each sample once and whole.

### MP1, the CPU-time recorder (modelled)

State: a list of pids and CPU times, a timer that arms itself again, a work on a
work queue. Operations: `mp1_read`, `mp1_write`, `_timer_callback`, `bottom_fn`,
`mp1_exit`. Hard: the exit frees the list before it stops timer and work; removed
nodes are not freed; a report of an empty list is an uninitialised buffer; pids
are reused. It is correct if the recording never stops, a registered process
finds itself in the report, and nothing runs or is used after the exit.

The test programs (`MP1/userapp.c`, `MP2/userapp.c`, `MP3/work.c`) are the
environment of the kernel modules: `main` of CpuTimes and of RMS and `Workload` of
Profiler are their calls, without what they compute and print. Not worth a model:
the draft `MP3/mmap.c`, and `MP4/queueThread.cpp` and `MP4/receiveJob.c`; the
Makefiles do not build them.

The hazards of all four programs are listed in `PROJECT.json`, each at its line
and with the properties that watch it.

## Modules

    FifoQueue  <- Queue <- QueueProofs, MCQueue
    Peer <- Client, Server <- LoadBalancer <- LoadBalancerProofs (with JobLists), MCLoadBalancer
    RMS <- RMSProofs (with SetSums), MCRMS
    Profiler <- ProfilerProofs, MCProfiler
    Profiler <- Monitor <- MonitorProofs (with ProfilerProofs), MCMonitor
    CpuTimes <- CpuTimesProofs, MCCpuTimes

**FifoQueue** is what `queue.h` promises: call, one atomic effect, return.

**Queue** is `queue.c`: `head`, `tail`, `size`, the fields of the nodes, the heap
they are allocated from, the mutex `m` and the set `cv` of threads that wait. A
call is cut before the lock, after the lock, and after the change of the list;
`pthread_cond_wait` releases the mutex and waits in one step, and a waiter may
wake spuriously. `free` returns nodes to the heap, and what they held is lost.
`chain` is a history variable (the linked nodes in order) that no action reads. `queue_destroy` takes no lock; its guard, that nobody is inside
an operation, is its callers' obligation.

**Peer** is `utils.c`, which both programs link: messages, `transfer`,
`state_manager` and `send_state`, `state_handle` and `adaptor`, and the ways in
which a process dies. **Client** and **Server** add the threads of `client.c` and
`server.c`; **LoadBalancer** puts them together and states the properties. Each
thread is a label and the job in its hands (`rd`, `wr`, `cp`, `sm` for reader,
writer, computing thread and state manager). The queues are those of FifoQueue.
`transfer_mutex` makes a message one unit of the stream, and the socket holds
`SockCap` messages. The 4096 numbers of a job are one value: how often they were
computed, or `Junk` for memory outside of the array, which slot `N` stands for.
An access to it is undefined: it may succeed or kill the process.

**RMS** is `mp2.c`. A critical section under `mylock` is one step; `yield_handle`
is one step per assignment others can see. Time is abstracted: an armed timer may
expire at any moment and a yield may be late. `list` is a set: its order only
breaks ties between equal periods, and `IsChoice` allows each of them. Two
constants restrict the environment, so that a run can say what the code needs:
`Punctual` (no timer expires while its task is between `mod_timer` and
`schedule()`) and `Serial` (registrations do not overlap). `Int32` and `Quotient`
are C's arithmetic: products wrap at `INT_MAX`, quotients are cut towards zero, and
the sum is unsigned. An application does what `userapp.c` does: it reads the proc
file after its registration and exits if it does not find itself asleep there.
`lost` is a history variable: a wakeup reached the dispatcher between its scan and
`set_current_state` and it has not been woken since. A NULL dereference in
the callback, an interrupt that holds `mylock`, ends the behaviour.

**Profiler** is `mp3.c`. The tests of `list_empty`, the critical sections, the
cancellation, the flush and the parts of the work are one step each. The delayed
work is the kernel's, modelled from its use: `pending` says whether its timer is
armed or the work is on the queue, `work` where a running `mp_work_func` is, and
`await` what a flush waits for, the work that was queued or running when it was
called. The calls of different tasks and the exit overlap in every way, as in
`mknod.sh`, which starts eleven tasks at once. Two history variables: `stale`, one
of the two tests of `list_empty` was used when it was not true any more, and the
work has not been queued since; `overrun`, the last cancellation met a running
work, or a task registered behind the one of the exit, which removes the proc file
last.
The values of a sample are left out; its words are written one by one under
`mylock`, and the first one outside of the buffer hits the guard page of
`vmalloc`: the worker dies, and the lock is never released.

**Monitor** adds `monitor.c` and the contents of the buffer: a word is 0, erased
(-1) or the number of the sample it belongs to. `KernelStep` is a step of
Profiler together with what it writes; a step of the monitor is one access to the
buffer. History variables count how often each word was printed and record a line
of mixed samples, and whether the monitor ever ran while a sample was written. An
open device keeps the module loaded.

**CpuTimes** is `mp1.c` with the processes of `userapp.c`. A section under `mylock`
is one step; the callback and the exit are one step per call that others can see.
`rest` is the part of the list that the loop of `mp1_exit` will still come to. The
use of freed memory sets `fault` and ends the behaviour. CPU times are "initial"
or "measured". The module may be unloaded at any moment. Two history variables:
`listed`, a node was linked when the exit began, and `late`, `del_timer` met a
callback that had begun.

The definitions marked "Mutant" are plausible mistakes in the code, one for each
property, with which the property must fail; nothing else uses them.

## Runs

Deadlock is checked in the run of the queue. It is not in the others, because both
processes of the load balancer end and a kernel module may be idle or unloaded.

| run | shows |
|---|---|
| `queue` | `ListOK` (pointers = history), `CapacityOK`, `NoLostWakeup`, `NoLeak`; `ImplementsFifo`: the linked list refines FifoQueue; `PullProgress`, `PushProgress`: the wakeups reach a puller, or a pusher; 3 threads, 4 nodes, two values, capacity 2: pushers and pullers wait together, and one broadcast wakes more threads than can proceed |
| `balancer` | `JobConserved`, `NoArrayRace`, `PushNeverBlocks`, `GoodbyeSafe`, `ResultOK`, `StrayUnlockLate`; 4 jobs, two reports each, so that jobs are moved both ways and a job can come back |
| `balancer_jobs` | `JobsFinish`: only death, starvation in the adaptor or a jam of the readers keeps jobs from being finished |
| `balancer_ends` | `BothEnd` with unlimited reports: every join returns, and a process that outlives its peer is ended by SIGPIPE; 2 jobs, so that reports and goodbyes interleave in every way but no job is moved back |
| `rms` | `RunningRegistered`, `TimersRegistered`, `NoTaskForgotten`, `NoOrphan`, `WakeupsHeard`, `AdmissionOK`; 3 tasks of different periods, of which two exceed the bound together and the product of the third overflows |
| `profiler` | `WorkAlive`, `WorkStops`, `KeepsSampling`, `UnregistrationReturns`; 2 tasks that register and unregister again and again, in every overlap with each other, the work and the exit, 4 samples of room and then the fault |
| `monitor` | `PrintedOnce`, `PrintedAll`, `LinesWhole`, `MonitorEnds`; one task, 3 samples of two words, of which the monitor looks at two, and a monitor started as often as one likes |
| `cpu_times` | `TimerAlive`, `SelfReported`, `ExitStops`, `Refreshed`, `GoneUnlinked`; 2 pids that are used again and again, 2 nodes, the exit at any moment: entries of dead processes, duplicate entries of a pid and leaks happen |

Bounds: `N` jobs instead of 1024, `THRESHOLD` 1 instead of 5 (so that few jobs
suffice to start a transfer), one message per socket (so that senders block),
`MaxReports` per process (0: no bound), `SCALE`, `LIMIT` and `INT_MAX` 100, 75 and
255 instead of 1000000, 693000 and 2^31 - 1, `Words`, `Width` and `BUFD_MAX` 6 (8
in `profiler`), 2 and 4 instead of 65536, 4 and 48000. The code compares these
numbers and computes with them in the same way for other values.

These runs are violated, each by a disagreement between the code and one of its
comments; `PROJECT.json` quotes the lines:

| run | what happens |
|---|---|
| `balancer_starved` | the adaptor waits in `queue_pull` for jobs that were taken since it read the size; its process reads no more messages |
| `rms_forgotten` | without `Punctual`: READY is overwritten by SLEEPING in `yield_handle` |
| `profiler_unsampled` | a task registers while another one unregisters: it is in the list, and the work is cancelled or was never queued |
| `cpu_times_exit` | the work walks over nodes that `mp1_exit` has freed, or the callback arms the timer after `del_timer` |

More behaviours that are reachable in the models and that no property excludes:

- MP4: job 0 travels to the server as `JOB_NUM`, which `> JOB_NUM` does not reduce
  (`utils.c:28`), so that the client ends without it or touches memory outside of
  the array; the client's writer exits at its test of `job_finished` before it
  sends the -1, so that the server is never told and dies of SIGPIPE
  (`client.c:172`); the client itself may die so before its output
  (`client.c:255`); both readers wait to send on full sockets (`Jammed`).
- MP2: with `Serial = FALSE` two registrations are admitted against the same list
  (`mp2.c:178`); a negative processing time makes room for others beyond the
  bound; a wakeup that reaches the dispatcher between its scan and
  `set_current_state` is lost, be it a timer's, a yield's or that of
  `kthread_stop` (`mp2.c:262`); a timer callback that began before `del_timer`
  finds no task and dereferences NULL (`mp2.c:236`, `oops`); a READY task of a
  longer period replaces the running one (`mp2.c:304`); with three tasks, the
  running one can be preempted on its way to `schedule()`, dispatched again and
  fall asleep, and a ready task waits behind it (`mp2.c:296`).
- MP3: a work that runs during `cancel_delayed_work` queues itself again and
  survives the last unregistration, and the exit (`mp3.c:235`, `mp3.c:367`); a
  registration behind the exit's cancellation queues a work that outlives it; the
  sample after the last one faults with `mylock` held
  (`mp3.c:287`). A monitor that runs while samples are written erases words ahead
  of the work, so that a later one skips samples or mixes them in a line; one
  that finds its part erased prints a line that begins with word `BUFD_MAX`;
  samples beyond `BUFD_MAX` are never printed.
- MP1: nodes that the work unlinks, and nodes that are linked while the exit
  waits for the proc file, are never freed (`mp1.c:150`, `mp1.c:199`).

Fairness. Queue: every thread inside an operation goes on (WF), and a mutex that
is released again and again is eventually obtained (SF for `Lock`); nobody has to
call, and no spurious wakeup is promised. LoadBalancer: weak fairness for every
thread, strong fairness for the threads that send on a socket others send on as
well: these sleep a second or wait for a queue between two messages, so a
blocked sender gets its turn. The state managers have weak fairness only. Death
is never required, except in `balancer_ends` (`EndSpec`): who writes to a closed
socket again and again is killed by SIGPIPE in the end (SF), since only the first
such write goes unpunished. Profiler: the timer expires, the kernel's worker runs, and a
task inside `registration` or `unregistration` goes on (WF); nobody has to
register, unregister or unload the module. Monitor: in addition, a monitor that was
started goes on (WF); nobody has to start it. CpuTimes: the timer expires, its
callback returns and the worker runs (WF).

## Proofs

`QueueProofs`, for all threads, nodes, data and capacities (0, "unbounded", too):
`TypeCorrect`, `ListCorrect`, `CapacityCorrect`, `WakeupCorrect`, `LeakFree` and
`Refinement` (`Spec => Fifo!Spec`). The inductive invariant `Inv` adds to the
checked invariants that exactly the thread in a critical section holds the mutex
(`MutexOK`: otherwise two threads could change the list), that a node not yet
linked belongs to one thread, is not in the list and has no successor (`NodeOK`:
otherwise linking it could close a cycle), and that a destroyed queue is used by
nobody (`DeadOK`). `LeakFree` needs in addition that the walk of `queue_destroy`
visits exactly the list; `Walk` is the least set closed under `next`, and
`WalkCoversChain` takes the least index that it could miss. The refinement maps
the linking and the unlinking to the effects of the abstract operations. The only
assumption is `QueueAssumption`.

`RMSProofs`, for all finite sets of applications, periods and times: `TypeCorrect`,
`RunningCorrect`, `TimersCorrect`, `OrphanCorrect`, `HeardCorrect`, and
`YieldCorrect` under `Punctual`. `OrphanCorrect` needs that a new registration
stays asleep, without timer and callback, until its application has looked
(`FreshOK`); `HeardCorrect` needs to know, at every label of the dispatcher, which
wakeups it can still hear (`HeardOK`). The
pointers need `PcOK` (an application past its registration is in the list);
`YieldCorrect` needs `ArmedOK` (between `mod_timer` and `schedule()` the timer is
armed), which is where `Punctual` enters. Under `Serial`, `AdmissionCorrect`
(`AdmissionOK`): the list is within the bound together with the task that has passed
the control and is not yet added, and there is one such task at most
(`AdmittedOK`); in between the list may only shrink, which lowers the total as long
as no utilisation is negative. The total is a fold in the order of `CHOOSE`, so it
says nothing by itself about one task more or less. `SetSums` shows that it is a sum
in any order (`SumExists`, `FoldIsSum`), that sums grow with the set
(`SumMonotonic`), and that rounding adds up to the number of tasks at most
(`SumRounded`). These are inductions over finite sets, done by a smallest
counterexample (`SmallestSet`), with a set in the place of the predicate.

`ProfilerProofs`, for all tasks and sizes of the buffer, and any overlap of the
calls: `TypeCorrect`, `AliveCorrect` (`WorkAlive`) and `StopsCorrect` (`WorkStops`).
Both are inductive together with `TypeOK`. The first rests on the tests of
`list_empty`: a step that makes the list non-empty without queueing the work, or
takes the work away from a list that is not empty, has used a test that is not true
any more, and a work that runs always queues itself again. The second rests on the
task that removes the last entry coming to its cancellation, whoever registers and
leaves in between (`Cancelled`).

`MonitorProofs`, for all tasks and sizes: `OnceCorrect` (`PrintedOnce`). What makes
it inductive is that a printed word lies behind `mem_buf_ptr`, which only grows,
and is erased or just being erased (`OnceOK`); that the work never goes back is
`PtrStep`. `AllPrinted` (`PrintedAll`) and `LinesAreWhole` (`LinesWhole`) share the
invariant `SweepInv`: as long as no sample is written while a monitor runs, the
words that still wait in the monitor's part of the buffer are one interval
(`Interval`: everything before it and behind it is erased, and printed if it was
ever written), the interval begins and ends where a sample does, and the monitor
is at its first word, `Len(row)` words into a line that began with a sample
(`Position`). The interval is what a unit test of the monitor would not show: it
has to survive samples written between two runs, a run that finds everything
erased and prints the line at `BUFD_MAX`, and the index that goes back to 0. The
only arithmetic needed is that between two multiples of `Width` there are at
least `Width` words (`NextLine`), which holds by `MonitorAssumption`.

`LoadBalancerProofs`, for any number of jobs, threshold, socket size and number of
reports: `TypeCorrect`, `Conservation` (`JobConserved`), `ArrayRaceFree`
(`NoArrayRace`), `PushesNeverBlock`, `GoodbyeIsSafe`, `ResultsCorrect` (`ResultOK`)
and `StrayUnlockIsLate`, all from one theorem, `Invariance`. None of them is
inductive alone: that a job is not doubled depends on its being in one queue only
when it is pulled, that no push blocks depends on the jobs being conserved, and so
on round. `Inv` therefore says where everything is: there is a function `loc` from
the jobs and the two signals (the -1 that travels to the server and back, and the
-1 with which the reader wakes the main thread) to places, and each queue, each
stream and each thread's hands hold exactly the keys that `loc` puts there
(`InTodo`, `InTosend`, `InNet`, `InRd`, `InWr`, `InCp`). To that come what
`job_finished` counts and that no job is missing while both processes run
(`CountOK`), that a signal is given once and only after the last job (`SignalOK`),
and what the arrays and the messages hold of a job at each place (`ArrayOK`,
`MsgOK`). Almost every action moves one key from one place to another, and the
proof has this shape: `MoveKept`, `MoveCount`, `MoveArrays`, `MoveSignals` say what
a move leaves alone, `TodoPull`, `TosendPush`, `DataRead`, `RdTake` and their like
what one end of a move does, and the lemma of an action puts two of these
together. `loc` is no variable of the model and no action reads it: it is chosen
anew for each state. The deaths need no case of their own in `CountOK`: what is
sent to a dead process goes to `Gone`, which is excluded only while both run.
`JobLists` has the four facts about sequences without repetition that this rests
on: taking the head away, appending, and that such a sequence is no longer than
the set it lists, so that a queue for `JOB_NUM` elements has room while the job
that is to be pushed is elsewhere. The only assumption is `PeerAssumption`.
TLC checked `Inv` on small instances before it was proved.

`CpuTimesProofs`, for all processes and nodes: `TypeCorrect`, `TimerCorrect`,
`SelfCorrect` and `ExitCorrect` (`ExitStops`). `SelfCorrect` needs that
the node of `mp1_write` carries the pid until it is linked and that a process
between its registration and its read has a node in the list, whatever the work
unlinks (`SelfOK`). `ExitCorrect` needs that an exit which began with an empty list
frees nothing, whatever is registered meanwhile (`KeptOK`), and that nothing begins
behind a `del_timer` which met no callback (`QuietOK`).

Only model-checked: liveness (fairness is out of the prover's reach): `PullProgress`,
`PushProgress`, `JobsFinish`, `BothEnd`, `KeepsSampling`, `UnregistrationReturns`,
`MonitorEnds`, `Refreshed` and `GoneUnlinked`. Every invariant of the passing runs is
proved.

## Not modelled

- MP4: `close_client` (an operator's SIGINT), the keyboard throttle, other clients
  (the server ignores them), deaths in the middle of a message, data lost by a
  reset connection, threads that touch the queues between `queue_destroy` and the
  end of the process (`close_server` has closed the sockets before it, so that the
  client sees no difference).
- MP2: `spin_lock` taken by a timer interrupt on the CPU that holds it; the
  unlocked walk of the list in `yield_handle`; `wake_up_process` on a dispatcher
  that has exited; applications inside `mp_write` when `mp_exit` frees the tasks;
  malformed or foreign pids (an application writes its own); the chance contents
  of the uninitialised buffer that `mp_read` copies when the list is empty.
- MP3: the sums of a sample, the pages of `dev_mmap`, `mp_read` (which returns
  nothing), the second work queue that `mp_init` creates, tasks that unregister
  without having registered, what runs after `mp_exit` has freed the memory, two
  monitors at a time.
- MP1: writes that are not a number, an allocation that fails, reports longer than
  the buffer of 2048 bytes, the order of the list (a read and a sample go through
  all of it).

## Plan

1. LoadBalancer: an abstract job pool (each job is waiting, held or done) that it
   implements; the stream at the level of words, for what follows the goodbye.
2. RMS: the interrupt context of one CPU, for `mylock` in the timer callback.
