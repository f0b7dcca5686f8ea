------------------------------- MODULE Client -------------------------------
(***************************************************************************)
(* client.c: bootstrap, the main thread (run_client), write_to_server and  *)
(* read_from_server.  The client's mutex protects job_finished.  A critical*)
(* section is one step, except the reader's last one, in which a push      *)
(* wakes the main thread before the mutex is released.                     *)
(***************************************************************************)
EXTENDS Peer

VARIABLES job_finished,
          mutex,        \* who holds the client's mutex, or "nobody"
          stray         \* history: the mutex was unlocked by a thread that
                        \* did not hold it

clientVars == <<job_finished, mutex, stray>>

C == "client"

\* Mutant: JOB_NUM jobs are pushed to each queue.
bootstrapAll(first) == [i \in 1 .. N |-> i - 1 + first]

\* Half of the jobs are pushed to job_todo (first = 0), the other half to
\* job_tosend (first = N / 2).
bootstrap(first) == [i \in 1 .. N \div 2 |-> i - 1 + first]

\* Mutant: off by one.
JobsLeftButOne(n) == n < N - 1

\* "while (job_finished < JOB_NUM)".
JobsLeft(n) == n < N

\* Mutant: the mark is kept.
StillMarked(id) == id

\* A job that comes back is pushed without the JOB_NUM that marks it.
Unmarked(id) == id - N
-----------------------------------------------------------------------------
(* run_client: the computing loop, the goodbye, the joins, the output.     *)

MainGoto(state) == cp' = [cp EXCEPT ![C] = state]

MainLock ==
    /\ up[C] /\ cp[C].pc = "lock"
    /\ mutex = "nobody"
    /\ MainGoto(At(IF JobsLeft(job_finished) THEN "pull" ELSE "finish"))
    /\ UNCHANGED <<clientVars, up, todo, tosend, arr, net, peer_known,
                   rebalance_requested, rd, wr, sm, reports>>

MainPull ==
    /\ up[C] /\ cp[C].pc = "pull"
    /\ todo[C] # <<>>
    /\ todo' = [todo EXCEPT ![C] = Tail(@)]
    /\ MainGoto(IF Head(todo[C]) = AllDone THEN At("continue")
                ELSE Holding("compute", Head(todo[C])))
    /\ UNCHANGED <<clientVars, up, tosend, arr, net, peer_known,
                   rebalance_requested, rd, wr, sm, reports>>

\* "continue": job_finished is tested, and the mutex unlocked, without it.
MainContinue ==
    /\ up[C] /\ cp[C].pc = "continue"
    /\ mutex' = "nobody"
    /\ stray' = TRUE
    /\ MainGoto(At(IF JobsLeft(job_finished) THEN "pull" ELSE "finish"))
    /\ UNCHANGED <<job_finished, up, todo, tosend, arr, net, peer_known,
                   rebalance_requested, rd, wr, sm, reports>>

\* compute_with_throttle, then the mutex, the count and the loop's test.
MainCompute ==
    /\ up[C] /\ cp[C].pc = "compute"
    /\ mutex = "nobody"
    /\ arr' = [arr EXCEPT ![C][cp[C].id] = compute(@)]
    /\ job_finished' = job_finished + 1
    /\ MainGoto(At(IF JobsLeft(job_finished') THEN "pull" ELSE "finish"))
    /\ UNCHANGED <<mutex, stray, up, todo, tosend, net, peer_known,
                   rebalance_requested, rd, wr, sm, reports>>

MainGoodbye ==
    /\ up[C] /\ cp[C].pc = "finish"
    /\ Len(tosend[C]) < N
    /\ tosend' = [tosend EXCEPT ![C] = Append(@, AllDone)]
    /\ MainGoto(At("join"))
    /\ UNCHANGED <<clientVars, up, todo, arr, net, peer_known,
                   rebalance_requested, rd, wr, sm, reports>>

MainJoin ==
    /\ up[C] /\ cp[C].pc = "join"
    /\ wr[C].pc = "done" /\ rd[C].pc = "done"
    /\ MainGoto(At("save"))
    /\ UNCHANGED <<clientVars, up, todo, tosend, arr, net, peer_known,
                   rebalance_requested, rd, wr, sm, reports>>

\* mp4_output.txt is written; main returns and the process ends.
MainSave ==
    /\ up[C] /\ cp[C].pc = "save"
    /\ MainGoto(At("saved"))
    /\ up' = [up EXCEPT ![C] = FALSE]
    /\ UNCHANGED <<clientVars, todo, tosend, arr, net, peer_known,
                   rebalance_requested, rd, wr, sm, reports>>

run_client ==
    MainLock \/ MainPull \/ MainContinue \/ MainCompute
    \/ MainGoodbye \/ MainJoin \/ MainSave
-----------------------------------------------------------------------------
(* write_to_server                                                         *)

WriterTop ==
    /\ up[C] /\ wr[C].pc = "top"
    /\ mutex = "nobody"
    /\ wr' = [wr EXCEPT ![C] = At(IF job_finished = N THEN "done" ELSE "pull")]
    /\ UNCHANGED <<clientVars, up, todo, tosend, arr, net, peer_known,
                   rebalance_requested, rd, cp, sm, reports>>

WriterPull ==
    /\ up[C] /\ wr[C].pc = "pull"
    /\ tosend[C] # <<>>
    /\ tosend' = [tosend EXCEPT ![C] = Tail(@)]
    /\ wr' = [wr EXCEPT ![C] = Holding("send", Head(tosend[C]))]
    /\ UNCHANGED <<clientVars, up, todo, arr, net, peer_known,
                   rebalance_requested, rd, cp, sm, reports>>

WriterSend ==
    /\ up[C] /\ wr[C].pc = "send"
    /\ transfer(C, wr[C].id)
    /\ wr' = [wr EXCEPT ![C] = At("top")]
    /\ UNCHANGED <<clientVars, up, todo, tosend, arr, peer_known,
                   rebalance_requested, rd, cp, sm, reports>>

write_to_server == WriterTop \/ WriterPull \/ WriterSend
-----------------------------------------------------------------------------
(* read_from_server                                                        *)

\* Mutant: the reader exits without waking the main thread.
ReaderTopSilent ==
    /\ up[C] /\ rd[C].pc = "top"
    /\ mutex = "nobody"
    /\ rd' = [rd EXCEPT ![C] = RdAt(IF job_finished = N THEN "done" ELSE "read")]
    /\ UNCHANGED <<clientVars, up, todo, tosend, arr, net, peer_known,
                   rebalance_requested, wr, cp, sm, reports>>

\* Mutant: the reader gives up one job too early.
ReaderTopEarly ==
    /\ up[C] /\ rd[C].pc = "top"
    /\ mutex = "nobody"
    /\ \/ /\ job_finished < N - 1
          /\ rd' = [rd EXCEPT ![C] = RdAt("read")]
          /\ UNCHANGED <<mutex, todo>>
       \/ /\ job_finished >= N - 1
          /\ Len(todo[C]) < N
          /\ todo' = [todo EXCEPT ![C] = Append(@, AllDone)]
          /\ mutex' = "reader"
          /\ rd' = [rd EXCEPT ![C] = RdAt("unlock")]
    /\ UNCHANGED <<job_finished, stray, up, tosend, arr, net, peer_known,
                   rebalance_requested, wr, cp, sm, reports>>

ReaderTop ==
    /\ up[C] /\ rd[C].pc = "top"
    /\ mutex = "nobody"
    /\ \/ /\ job_finished # N
          /\ rd' = [rd EXCEPT ![C] = RdAt("read")]
          /\ UNCHANGED <<mutex, todo>>
       \/ /\ job_finished = N
          /\ Len(todo[C]) < N
          /\ todo' = [todo EXCEPT ![C] = Append(@, AllDone)]
          /\ mutex' = "reader"
          /\ rd' = [rd EXCEPT ![C] = RdAt("unlock")]
    /\ UNCHANGED <<job_finished, stray, up, tosend, arr, net, peer_known,
                   rebalance_requested, wr, cp, sm, reports>>

ReaderUnlock ==
    /\ up[C] /\ rd[C].pc = "unlock"
    /\ mutex' = "nobody"
    /\ rd' = [rd EXCEPT ![C] = RdAt("done")]
    /\ UNCHANGED <<job_finished, stray, up, todo, tosend, arr, net,
                   peer_known, rebalance_requested, wr, cp, sm, reports>>

\* A result, a job that comes back, or AllDone.  The code reads the numbers of
\* a job even after AllDone, which has none: "swallow".
ReaderData ==
    /\ up[C] /\ rd[C].pc = "read"
    /\ Arrived(C, "data")
    /\ Consume(C)
    /\ LET msg == Head(net[C])
       IN  \/ /\ msg.id \in 0 .. N - 1
              /\ mutex = "nobody"
              /\ arr' = [arr EXCEPT ![C][msg.id] = msg.val]
              /\ job_finished' = job_finished + 1
              /\ rd' = [rd EXCEPT ![C] = RdAt("top")]
              /\ UNCHANGED todo
           \/ /\ msg.id >= N
              /\ Len(todo[C]) < N
              /\ todo' = [todo EXCEPT ![C] = Append(@, Unmarked(msg.id))]
              /\ rd' = [rd EXCEPT ![C] = RdAt("top")]
              /\ UNCHANGED <<arr, job_finished>>
           \/ /\ msg.id = AllDone
              /\ rd' = [rd EXCEPT ![C] = RdAt("swallow")]
              /\ UNCHANGED <<arr, job_finished, todo>>
    /\ UNCHANGED <<mutex, stray, up, tosend, peer_known,
                   rebalance_requested, wr, cp, sm, reports>>

\* Whatever follows AllDone is taken for the numbers of a job, until their
\* count of bytes is complete.
ReaderSwallow ==
    /\ up[C] /\ rd[C].pc = "swallow"
    /\ net[C] # <<>>
    /\ Consume(C)
    /\ \/ UNCHANGED rd
       \/ rd' = [rd EXCEPT ![C] = RdAt("top")]
    /\ UNCHANGED <<clientVars, up, todo, tosend, arr, peer_known,
                   rebalance_requested, wr, cp, sm, reports>>

ReaderEof ==
    /\ up[C] /\ rd[C].pc \in {"read", "swallow"}
    /\ EndOfFile(C)
    /\ rd' = [rd EXCEPT ![C] = RdAt("top")]
    /\ UNCHANGED <<clientVars, up, todo, tosend, arr, net, peer_known,
                   rebalance_requested, wr, cp, sm, reports>>

ReaderPeer ==
    /\ state_handle(C, "top") \/ adaptor(C, "top") \/ ReadRebalance(C, "top")
    /\ UNCHANGED clientVars

read_from_server ==
    ReaderTop \/ ReaderUnlock \/ ReaderData \/ ReaderSwallow \/ ReaderEof
    \/ ReaderPeer
=============================================================================
