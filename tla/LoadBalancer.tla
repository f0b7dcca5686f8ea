---------------------------- MODULE LoadBalancer ----------------------------
(***************************************************************************)
(* The load balancer: one client and one server over a TCP connection.     *)
(***************************************************************************)
EXTENDS Client, Server, FiniteSets

vars == <<peerVars, clientVars>>

\* The connection is up, the client has run bootstrap and both have started
\* their threads.
Init ==
    /\ up = [p \in Proc |-> TRUE]
    /\ todo = [p \in Proc |-> IF p = C THEN bootstrap(0) ELSE <<>>]
    /\ tosend = [p \in Proc |-> IF p = C THEN bootstrap(N \div 2) ELSE <<>>]
    /\ arr = [p \in Proc |-> [j \in 0 .. N |-> IF j = N THEN Junk ELSE 0]]
    /\ net = [p \in Proc |-> <<>>]
    /\ peer_known = [p \in Proc |-> FALSE]
    /\ rebalance_requested = [p \in Proc |-> FALSE]
    /\ rd = [p \in Proc |-> RdAt(IF p = C THEN "top" ELSE "read")]
    /\ wr = [p \in Proc |-> At(IF p = C THEN "top" ELSE "pull")]
    /\ cp = [p \in Proc |-> At(IF p = C THEN "lock" ELSE "pull")]
    /\ sm = [p \in Proc |-> NoReport] /\ reports = [p \in Proc |-> 0]
    /\ job_finished = 0 /\ mutex = "nobody" /\ stray = FALSE

ClientStep == run_client \/ write_to_server \/ read_from_server

ServerStep ==
    /\ process_client \/ compute_worker \/ write_to_clients
    /\ UNCHANGED clientVars

EitherStep(p) ==
    /\ state_manager(p) \/ send_state(p) \/ Killed(p)
    /\ UNCHANGED clientVars

Next == ClientStep \/ ServerStep \/ \E p \in Proc : EitherStep(p)

Spec == Init /\ [][Next]_vars

\* Every thread keeps running.  A thread that waits for room in the socket
\* gets it: the other threads of its process sleep, or wait for a queue,
\* between two messages.
Fairness ==
    /\ WF_vars(run_client)
    /\ SF_vars(write_to_server) /\ SF_vars(read_from_server)
    /\ SF_vars(process_client /\ UNCHANGED clientVars)
    /\ WF_vars(compute_worker /\ UNCHANGED clientVars)
    /\ SF_vars(write_to_clients /\ UNCHANGED clientVars)
    /\ \A p \in Proc : WF_vars((state_manager(p) \/ send_state(p)) /\ UNCHANGED clientVars)

FairSpec == Spec /\ Fairness

\* The first message to a closed socket is lost, but one of those that follow
\* it raises SIGPIPE.
BrokenPipe ==
    \A p \in Proc : SF_vars(WritesToClosed(p) /\ Killed(p) /\ UNCHANGED clientVars)

EndSpec == FairSpec /\ BrokenPipe
-----------------------------------------------------------------------------
Id == -1 .. 2 * N
Value == Nat \cup {Junk}
Msg == [type : {"state", "rebalance", "data"}, id : Id, val : Value]

RdState == [pc : {"top", "read", "ask", "pull", "send", "swallow", "unlock", "done"},
            id : 0 .. N, k : 0 .. N]
WrState == [pc : {"top", "pull", "send", "bye", "done"}, id : -1 .. N]
CpState == [pc : {"lock", "pull", "continue", "compute",
                  "finish", "join", "save", "saved"},
            id : 0 .. N]

\* The variables of both programs hold values of their C types.
TypeOK ==
    /\ up \in [Proc -> BOOLEAN]
    /\ todo \in [Proc -> Seq(-1 .. N)] /\ tosend \in [Proc -> Seq(-1 .. N)]
    /\ arr \in [Proc -> [0 .. N -> Value]]
    /\ net \in [Proc -> Seq(Msg)]
    /\ peer_known \in [Proc -> BOOLEAN]
    /\ rebalance_requested \in [Proc -> BOOLEAN]
    /\ rd \in [Proc -> RdState] /\ wr \in [Proc -> WrState] /\ cp \in [Proc -> CpState]
    /\ sm \in [Proc -> -1 .. N] /\ reports \in [Proc -> Nat]
    /\ job_finished \in 0 .. N
    /\ mutex \in {"nobody", "reader"} /\ stray \in BOOLEAN

Job == 0 .. N - 1

\* The job that an identifier stands for: id, N + id and, for job 0, which is
\* never reduced, 2 * N.  AllDone stands for none.
JobOf(id) == IF id >= 2 * N THEN id - 2 * N ELSE IF id >= N THEN id - N ELSE id

InHand(thread, j) == thread.pc \in {"send", "compute"} /\ JobOf(thread.id) = j

\* Where job j is: in the queues of p, on the way to p, in the hands of the
\* threads of p.
SpotsOf(p, j) ==
    {<<p, "todo", i>> : i \in {i \in DOMAIN todo[p] : JobOf(todo[p][i]) = j}}
    \cup {<<p, "tosend", i>> : i \in {i \in DOMAIN tosend[p] : JobOf(tosend[p][i]) = j}}
    \cup {<<p, "net", i>> : i \in {i \in DOMAIN net[p] :
                net[p][i].type = "data" /\ JobOf(net[p][i].id) = j}}
    \cup {x \in {<<p, "rd", 0>>} : InHand(rd[p], j)}
    \cup {x \in {<<p, "wr", 0>>} : InHand(wr[p], j)}
    \cup {x \in {<<p, "cp", 0>>} : InHand(cp[p], j)}

Spots(j) == UNION {SpotsOf(p, j) : p \in Proc}

\* No job is doubled on its way between the queues, threads and sockets of the
\* two processes, and while both run none is lost: job_finished counts exactly
\* the jobs that are nowhere any more.
JobConserved ==
    /\ \A j \in Job : \A a, b \in Spots(j) : a = b
    /\ (\A p \in Proc : up[p]) =>
        Cardinality({j \in Job : Spots(j) = {}}) = job_finished

\* What a thread of p reads or writes of job_array, without any lock.
Touched(p) ==
    {<<"cp", x.id>> : x \in {x \in {cp[p]} : x.pc = "compute"}}
    \cup {<<"wr", create_message(x.id)>> : x \in {x \in {wr[p]} : x.pc = "send" /\ x.id # AllDone}}
    \cup {<<"rd", create_message(N + x.id)>> : x \in {x \in {rd[p]} : x.pc = "send"}}
    \cup {<<"rd", create_message(x.id)>> : x \in {x \in {net[p][i] : i \in DOMAIN net[p] \cap {1}} :
            /\ rd[p].pc = "read" /\ x.type = "data"
            /\ x.id # AllDone /\ (p = C => x.id < N)}}

\* job_array needs no lock: no two threads of a process touch the numbers of
\* the same job at the same time.
NoArrayRace ==
    \A p \in Proc : up[p] =>
        \A a, b \in Touched(p) : a[2] = b[2] => a = b

\* queue_push never blocks in either program: in particular not while the
\* reader holds the client's mutex.
PushNeverBlocks ==
    /\ cp[C].pc = "finish" => Len(tosend[C]) < N
    /\ cp[S].pc = "compute" => Len(tosend[S]) < N
    /\ rd[C].pc = "top" /\ job_finished = N => Len(todo[C]) < N
    /\ rd[C].pc = "read" /\ Arrived(C, "data") /\ Head(net[C]).id >= N => Len(todo[C]) < N
    /\ rd[S].pc = "read" /\ Arrived(S, "data") =>
        IF Head(net[S]).id = AllDone THEN Len(tosend[S]) < N ELSE Len(todo[S]) < N

\* The server says goodbye only when it has no job left, and the client loses
\* no result when it takes what follows the goodbye for numbers.
GoodbyeSafe ==
    /\ wr[S].pc = "bye" =>
        /\ todo[S] = <<>> /\ tosend[S] = <<>>
        /\ cp[S].pc = "pull" /\ rd[S].pc # "send"
    /\ rd[C].pc = "swallow" => \A i \in DOMAIN net[C] : net[C][i].type # "data"

Finished == cp[C].pc \in {"finish", "join", "save", "saved"}

\* When the client's loop ends, every job but job 0 was computed exactly once
\* and its result is in the client's array.
ResultOK == Finished => \A j \in 1 .. N - 1 : arr[C][j] = 1

\* The main thread unlocks the client's mutex without holding it when it pulls
\* the reader's -1 ("continue").  That does no harm: by then job_finished, which
\* the mutex protects, has its final value.
StrayUnlockLate == stray => job_finished = N
-----------------------------------------------------------------------------
\* The reader of p waits for a job that nobody but itself could push.
Starved(p) == rd[p].pc = "pull" /\ todo[p] = <<>>

\* The server's reader waits for room in a socket that the client's reader
\* does not empty, because it waits likewise or has exited.
Blocked(p) == rd[p].pc \in {"ask", "send"} /\ ~CanSend(p)

Jammed == Blocked(S) /\ (Blocked(C) \/ rd[C].pc \in {"unlock", "done"})

Dead == \E p \in Proc : ~up[p]

\* All jobs get finished unless a process dies, a reader starves in the
\* adaptor, or the readers jam.
JobsFinish ==
    <>(job_finished = N \/ Dead \/ Jammed \/ \E p \in Proc : Starved(p))

\* Both processes end, unless the readers jam or starve: no join of the client
\* waits for ever, and the server ends even if the client's writer sees
\* job_finished = JOB_NUM before it has pulled the goodbye, and exits without
\* sending it.
BothEnd == <>(Jammed \/ (\E p \in Proc : Starved(p)) \/ \A p \in Proc : ~up[p])

\* client.c:131, "job has finished --> successfully joined 2 threads".
AllJobsFinish == <>(job_finished = N \/ Dead)
=============================================================================
