------------------------------- MODULE Server -------------------------------
(***************************************************************************)
(* server.c after a client has connected: process_client (the reader),     *)
(* compute_worker, write_to_clients and close_server.                      *)
(***************************************************************************)
EXTENDS Peer

S == "server"
-----------------------------------------------------------------------------
(* process_client and transfer_handler                                     *)

transfer_handler ==
    /\ up[S] /\ rd[S].pc = "read"
    /\ Arrived(S, "data")
    /\ Consume(S)
    /\ LET msg == Head(net[S])
           job == create_message(msg.id)
       IN  \/ /\ msg.id = AllDone
              /\ Len(tosend[S]) < N
              /\ tosend' = [tosend EXCEPT ![S] = Append(@, AllDone)]
              /\ UNCHANGED <<arr, todo>>
           \/ /\ msg.id # AllDone
              /\ Len(todo[S]) < N
              /\ arr' = [arr EXCEPT ![S][job] = msg.val]
              /\ todo' = [todo EXCEPT ![S] = Append(@, job)]
              /\ UNCHANGED tosend
    /\ UNCHANGED <<up, peer_known, rebalance_requested, rd, wr, cp, sm, reports>>

\* get_msg_type fails: the thread returns, the others go on.
ProcessEof ==
    /\ up[S] /\ rd[S].pc = "read"
    /\ EndOfFile(S)
    /\ rd' = [rd EXCEPT ![S] = RdAt("done")]
    /\ UNCHANGED <<up, todo, tosend, arr, net, peer_known,
                   rebalance_requested, wr, cp, sm, reports>>

process_client ==
    transfer_handler \/ ProcessEof
    \/ state_handle(S, "read") \/ adaptor(S, "read") \/ ReadRebalance(S, "read")
-----------------------------------------------------------------------------
(* compute_worker                                                          *)

\* Mutant: the job stays in the queue while it is computed.
WorkerPullPeek ==
    /\ up[S] /\ cp[S].pc = "pull"
    /\ todo[S] # <<>>
    /\ cp' = [cp EXCEPT ![S] = Holding("compute", Head(todo[S]))]
    /\ UNCHANGED <<up, todo, tosend, arr, net, peer_known, rebalance_requested,
                   rd, wr, sm, reports>>

WorkerPull ==
    /\ up[S] /\ cp[S].pc = "pull"
    /\ todo[S] # <<>>
    /\ todo' = [todo EXCEPT ![S] = Tail(@)]
    /\ cp' = [cp EXCEPT ![S] = Holding("compute", Head(todo[S]))]
    /\ UNCHANGED <<up, tosend, arr, net, peer_known, rebalance_requested,
                   rd, wr, sm, reports>>

\* Mutant: the result is not queued for the client.
WorkerComputeOnly ==
    /\ up[S] /\ cp[S].pc = "compute"
    /\ arr' = [arr EXCEPT ![S][cp[S].id] = compute(@)]
    /\ cp' = [cp EXCEPT ![S] = At("pull")]
    /\ UNCHANGED <<up, todo, tosend, net, peer_known, rebalance_requested,
                   rd, wr, sm, reports>>

\* compute_with_throttle, then queue_push(job_tosend).
WorkerCompute ==
    /\ up[S] /\ cp[S].pc = "compute"
    /\ Len(tosend[S]) < N
    /\ arr' = [arr EXCEPT ![S][cp[S].id] = compute(@)]
    /\ tosend' = [tosend EXCEPT ![S] = Append(@, cp[S].id)]
    /\ cp' = [cp EXCEPT ![S] = At("pull")]
    /\ UNCHANGED <<up, todo, net, peer_known, rebalance_requested,
                   rd, wr, sm, reports>>

compute_worker == WorkerPull \/ WorkerCompute
-----------------------------------------------------------------------------
(* write_to_clients                                                        *)

ResultPull ==
    /\ up[S] /\ wr[S].pc = "pull"
    /\ tosend[S] # <<>>
    /\ tosend' = [tosend EXCEPT ![S] = Tail(@)]
    /\ wr' = [wr EXCEPT ![S] = Holding("send", Head(tosend[S]))]
    /\ UNCHANGED <<up, todo, arr, net, peer_known, rebalance_requested,
                   rd, cp, sm, reports>>

ResultSend ==
    /\ up[S] /\ wr[S].pc = "send"
    /\ transfer(S, wr[S].id)
    /\ wr' = [wr EXCEPT ![S] = At(IF wr[S].id = AllDone THEN "bye" ELSE "pull")]
    /\ UNCHANGED <<up, todo, tosend, arr, peer_known, rebalance_requested,
                   rd, cp, sm, reports>>

\* The SIGINT that the writer sends after the goodbye: the sockets are shut
\* down and the process ends.
close_server ==
    /\ up[S] /\ wr[S].pc = "bye"
    /\ up' = [up EXCEPT ![S] = FALSE]
    /\ UNCHANGED <<todo, tosend, arr, net, peer_known, rebalance_requested,
                   rd, wr, cp, sm, reports>>

write_to_clients == ResultPull \/ ResultSend \/ close_server
=============================================================================
