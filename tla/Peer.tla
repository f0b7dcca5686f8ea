-------------------------------- MODULE Peer --------------------------------
(***************************************************************************)
(* utils.c: the code that the client and the server of the load balancer   *)
(* share.  A process p runs                                                *)
(*   rd[p]  the reader of the socket, which also runs the adaptor,         *)
(*   wr[p]  the writer, which sends what job_tosend holds,                 *)
(*   cp[p]  the thread that computes the jobs of job_todo,                 *)
(*   sm[p]  the state manager, which reports the size of job_todo.         *)
(*                                                                         *)
(* A job identifier below N is a job; N + j on the wire means "job j, not  *)
(* computed yet"; -1 means that everything is done.  The queues are the    *)
(* FIFO queues of FifoQueue: push blocks at N elements, pull at none.      *)
(*                                                                         *)
(* transfer_mutex makes the sending of a message atomic, and one thread    *)
(* reads a socket, so the unit of the stream is a message.  The stream     *)
(* holds at most SockCap messages: a sender blocks on a full socket.       *)
(*                                                                         *)
(* The 4096 numbers of a job are abstracted to one value: how many times   *)
(* they were computed, or Junk for memory outside of job_array.  Slot N    *)
(* stands for that memory.                                                 *)
(***************************************************************************)
EXTENDS Integers, Sequences

CONSTANTS N,          \* JOB_NUM
          THRESHOLD,  \* DIFF_THRESHOLD
          SockCap,    \* messages that fit into a socket's buffers
          Junk,       \* the contents of memory outside of job_array
          MaxReports  \* bound on the reports of each process; 0 means no bound

ASSUME PeerAssumption ==
    /\ N \in Nat \ {0} /\ N % 2 = 0
    /\ THRESHOLD \in Nat
    /\ SockCap \in Nat \ {0}
    /\ Junk \notin Nat
    /\ MaxReports \in [{"client", "server"} -> Nat]

Proc == {"client", "server"}
Other(p) == IF p = "client" THEN "server" ELSE "client"

AllDone == -1       \* the job identifier that ends everything
NoReport == -1      \* the state manager sleeps

VARIABLES up,         \* up[p]: the process runs and its socket is open
          todo,       \* todo[p]: job_todo
          tosend,     \* tosend[p]: job_tosend
          arr,        \* arr[p][j]: job j's part of job_array
          net,        \* net[p]: the messages on their way to p
          peer_known, \* peer_known[p]: peer_num_jobs is not -1 any more (its
                      \* value is used only by the call that sets it)
          rebalance_requested,
          rd, wr, cp, sm,
          reports     \* reports[p]: how many, if they are bounded

peerVars == <<up, todo, tosend, arr, net, peer_known,
              rebalance_requested, rd, wr, cp, sm, reports>>

\* Thread states: a label, the job in hand, and for the reader to_transfer.
At(pc) == [pc |-> pc, id |-> 0]
Holding(pc, id) == [pc |-> pc, id |-> id]
RdAt(pc) == [pc |-> pc, id |-> 0, k |-> 0]
Moving(pc, id, k) == [pc |-> pc, id |-> id, k |-> k]

StateMsg(size) == [type |-> "state", id |-> size, val |-> 0]
RebalanceMsg   == [type |-> "rebalance", id |-> 0, val |-> 0]
DataMsg(id, v) == [type |-> "data", id |-> id, val |-> v]
-----------------------------------------------------------------------------
(* The socket.                                                             *)

\* A write to a socket that the other process has closed is lost.
CanSend(p) == up[Other(p)] => Len(net[Other(p)]) < SockCap

Put(p, msg) ==
    net' = IF up[Other(p)]
           THEN [net EXCEPT ![Other(p)] = Append(@, msg)]
           ELSE net

Arrived(p, type) == net[p] # <<>> /\ Head(net[p]).type = type

Consume(p) == net' = [net EXCEPT ![p] = Tail(@)]

EndOfFile(p) == net[p] = <<>> /\ ~up[Other(p)]
-----------------------------------------------------------------------------
(* Jobs.                                                                   *)

\* create_message, and transfer_handler of server.c: where a job's numbers
\* are.  The test is "> JOB_NUM": JOB_NUM itself, which is job 0 on its way
\* to the peer, is not reduced.
create_message(id) == IF id > N THEN id - N ELSE id

\* compute adds to what is there.
compute(v) == IF v = Junk THEN Junk ELSE v + 1

\* transfer: the message carries the numbers, except when it says AllDone.
transfer(p, id) ==
    /\ CanSend(p)
    /\ Put(p, IF id = AllDone THEN DataMsg(AllDone, 0)
              ELSE DataMsg(id, arr[p][create_message(id)]))
-----------------------------------------------------------------------------
(* state_manager: the size is read before the wait for transfer_mutex and  *)
(* for room in the socket.                                                 *)

state_manager(p) ==
    /\ up[p] /\ sm[p] = NoReport
    /\ MaxReports[p] > 0 => reports[p] < MaxReports[p]
    /\ reports' = IF MaxReports[p] > 0 THEN [reports EXCEPT ![p] = @ + 1] ELSE reports
    /\ sm' = [sm EXCEPT ![p] = Len(todo[p])]
    /\ UNCHANGED <<up, todo, tosend, arr, net, peer_known,
                   rebalance_requested, rd, wr, cp>>

send_state(p) ==
    /\ up[p] /\ sm[p] # NoReport
    /\ CanSend(p)
    /\ Put(p, StateMsg(sm[p]))
    /\ sm' = [sm EXCEPT ![p] = NoReport]
    /\ UNCHANGED <<up, todo, tosend, arr, peer_known,
                   rebalance_requested, rd, wr, cp, reports>>
-----------------------------------------------------------------------------
(* state_handle and adaptor, run by the reader.  "loop" is where the       *)
(* reader of p goes on afterwards.  transfer_policy is 1 throughout.       *)

\* What the adaptor does next when the peer reported n jobs.
Decide(p, n, loop) ==
    LET diff == Len(todo[p]) - n
    IN  CASE diff < THRESHOLD -> RdAt("ask")
          [] diff > THRESHOLD /\ rebalance_requested[p] /\ diff \div 2 > 0
                -> Moving("pull", 0, diff \div 2)
          [] OTHER -> RdAt(loop)

state_handle(p, loop) ==
    /\ up[p] /\ rd[p].pc = "read"
    /\ Arrived(p, "state")
    /\ Consume(p)
    /\ LET n == Head(net[p]).id
       IN  IF ~peer_known[p] /\ n = 0
           THEN rd' = [rd EXCEPT ![p] = RdAt(loop)] /\ UNCHANGED peer_known
           ELSE /\ peer_known' = [peer_known EXCEPT ![p] = TRUE]
                /\ rd' = [rd EXCEPT ![p] = Decide(p, n, loop)]
    /\ UNCHANGED <<up, todo, tosend, arr, rebalance_requested, wr, cp, sm, reports>>

AdaptorAsk(p, loop) ==
    /\ up[p] /\ rd[p].pc = "ask"
    /\ CanSend(p)
    /\ Put(p, RebalanceMsg)
    /\ rd' = [rd EXCEPT ![p] = RdAt(loop)]
    /\ UNCHANGED <<up, todo, tosend, arr, peer_known,
                   rebalance_requested, wr, cp, sm, reports>>

\* Mutant: the job stays in the queue while it is being moved.
AdaptorPullPeek(p) ==
    /\ up[p] /\ rd[p].pc = "pull"
    /\ todo[p] # <<>>
    /\ rd' = [rd EXCEPT ![p] = Moving("send", Head(todo[p]), @.k)]
    /\ UNCHANGED <<up, todo, tosend, arr, net, peer_known,
                   rebalance_requested, wr, cp, sm, reports>>

\* queue_pull: blocks when the computing thread has emptied job_todo since.
\* (The -1 that would end the loop is pushed to job_todo only by the client's
\* reader, which is this thread, when it exits.)
AdaptorPull(p) ==
    /\ up[p] /\ rd[p].pc = "pull"
    /\ todo[p] # <<>>
    /\ todo' = [todo EXCEPT ![p] = Tail(@)]
    /\ rd' = [rd EXCEPT ![p] = Moving("send", Head(todo[p]), @.k)]
    /\ UNCHANGED <<up, tosend, arr, net, peer_known,
                   rebalance_requested, wr, cp, sm, reports>>

\* Mutant: the moved job is not marked as "not computed".
AdaptorSendUnmarked(p, loop) ==
    /\ up[p] /\ rd[p].pc = "send"
    /\ transfer(p, rd[p].id)
    /\ rd' = [rd EXCEPT ![p] =
                IF @.k > 1 THEN Moving("pull", 0, @.k - 1) ELSE RdAt(loop)]
    /\ UNCHANGED <<up, todo, tosend, arr, peer_known,
                   rebalance_requested, wr, cp, sm, reports>>

AdaptorSend(p, loop) ==
    /\ up[p] /\ rd[p].pc = "send"
    /\ transfer(p, N + rd[p].id)
    /\ rd' = [rd EXCEPT ![p] =
                IF @.k > 1 THEN Moving("pull", 0, @.k - 1) ELSE RdAt(loop)]
    /\ UNCHANGED <<up, todo, tosend, arr, peer_known,
                   rebalance_requested, wr, cp, sm, reports>>

adaptor(p, loop) == AdaptorAsk(p, loop) \/ AdaptorPull(p) \/ AdaptorSend(p, loop)

ReadRebalance(p, loop) ==
    /\ up[p] /\ rd[p].pc = "read"
    /\ Arrived(p, "rebalance")
    /\ Consume(p)
    /\ rebalance_requested' = [rebalance_requested EXCEPT ![p] = TRUE]
    /\ rd' = [rd EXCEPT ![p] = RdAt(loop)]
    /\ UNCHANGED <<up, todo, tosend, arr, peer_known, wr, cp, sm, reports>>
-----------------------------------------------------------------------------
(* The end of a process: SIGPIPE when it writes to a socket that its peer  *)
(* has closed, or the fault of an access outside of job_array, which is    *)
(* undefined: the access may also succeed, which the other actions do.     *)

WritesToClosed(p) ==
    /\ ~up[Other(p)]
    /\ sm[p] # NoReport \/ wr[p].pc = "send" \/ rd[p].pc \in {"ask", "send"}

TouchesOutside(p) ==
    \/ wr[p].pc = "send" /\ create_message(wr[p].id) = N
    \/ rd[p].pc = "send" /\ create_message(N + rd[p].id) = N
    \/ cp[p].pc = "compute" /\ cp[p].id = N
    \/ /\ p = "server" /\ rd[p].pc = "read"
       /\ Arrived(p, "data") /\ create_message(Head(net[p]).id) = N

Killed(p) ==
    /\ up[p]
    /\ WritesToClosed(p) \/ TouchesOutside(p)
    /\ up' = [up EXCEPT ![p] = FALSE]
    /\ UNCHANGED <<todo, tosend, arr, net, peer_known,
                   rebalance_requested, rd, wr, cp, sm, reports>>
=============================================================================
