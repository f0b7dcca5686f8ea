------------------------- MODULE LoadBalancerProofs -------------------------
(***************************************************************************)
(* The load balancer for any number of jobs, any threshold, any size of    *)
(* the sockets and any number of reports.                                  *)
(*                                                                         *)
(* The inductive invariant says where every job is.  loc maps a key to its *)
(* place: a queue, the stream to a process, the hands of a thread, or one  *)
(* of three places outside of the programs.  The keys are the jobs and the *)
(* two signals that travel like jobs: Bye, the -1 that the client sends    *)
(* when all is done and the server sends back, and Wake, the -1 that the   *)
(* client's reader pushes to job_todo when it exits.                       *)
(***************************************************************************)
EXTENDS LoadBalancer, JobLists

Bye == -1
Wake == -2
Key == Wake .. N - 1

Place == {"todo", "tosend", "net", "rd", "wr", "cp"} \X Proc
Unborn  == <<"unborn", "nobody">>     \* a signal that was not given yet
Counted == <<"counted", "nobody">>    \* a job that job_finished counts
Gone    == <<"gone", "nobody">>       \* sent to a closed socket, or swallowed
Locs == [Key -> Place \cup {Unborn, Counted, Gone}]

In(loc, a) == {k \in Key : loc[k] = a}

\* The keys of what job_todo, job_tosend and the stream hold.
TodoKey == [id \in -1 .. N |-> IF id = AllDone THEN Wake ELSE JobOf(id)]
SendKey == [id \in -1 .. N |-> JobOf(id)]
MsgKey  == [msg \in Msg |-> IF msg.type = "data" THEN JobOf(msg.id) ELSE NoKey]

InQueue(q, f, kind, loc) == \A r \in Proc : Lists(q[r], f, In(loc, <<kind, r>>))

InTodo(loc)   == InQueue(todo, TodoKey, "todo", loc)
InTosend(loc) == InQueue(tosend, SendKey, "tosend", loc)
InNet(loc)    == InQueue(net, MsgKey, "net", loc)

\* A reader that has read the goodbye keeps it while it swallows.
RdHolds(p, k) ==
    \/ rd[p].pc = "send" /\ k = JobOf(rd[p].id)
    \/ rd[p].pc = "swallow" /\ k = Bye

InRd(loc) == \A p \in Proc, k \in Key : loc[k] = <<"rd", p>> <=> RdHolds(p, k)
InWr(loc) == \A p \in Proc, k \in Key :
    loc[k] = <<"wr", p>> <=> wr[p].pc = "send" /\ k = JobOf(wr[p].id)
InCp(loc) == \A p \in Proc, k \in Key :
    loc[k] = <<"cp", p>> <=> cp[p].pc = "compute" /\ k = JobOf(cp[p].id)

\* job_finished counts the jobs that are done, and while both processes run
\* no other job is missing.
CountOK(loc) ==
    /\ job_finished = Cardinality(Job \cap In(loc, Counted))
    /\ (\A p \in Proc : up[p]) => \A j \in Job : loc[j] \notin {Unborn, Gone}

Ended == {"continue", "finish", "join", "save", "saved"}

\* The signals are given once, and only after the last job.
SignalOK(loc) ==
    /\ loc[Bye] # Counted
    /\ loc[Bye] # Unborn => cp[C].pc \in {"join", "save", "saved"}
    /\ loc[Wake] \in {Unborn, Gone, <<"todo", C>>}
    /\ loc[Wake] # Unborn => rd[C].pc \in {"unlock", "done"} /\ job_finished = N
    /\ cp[C].pc \in Ended \/ stray => job_finished = N
    /\ cp[S].pc \in {"pull", "compute"}
    /\ wr[S].pc = "bye" => loc[Bye] \in {<<"net", C>>, <<"rd", C>>, Gone}

\* What the arrays and the messages hold of the jobs other than job 0: the
\* client's array has a result when the job is counted, and the server's array
\* holds the job's input before and its result after it is computed.
ArrayOK(loc) == \A j \in 1 .. N - 1 :
    /\ arr[C][j] = IF loc[j] = Counted THEN 1 ELSE 0
    /\ loc[j] \in {<<"todo", S>>, <<"rd", S>>, <<"cp", S>>} => arr[S][j] = 0
    /\ loc[j] \in {<<"tosend", S>>, <<"wr", S>>} => arr[S][j] = 1

MsgFine(p, msg) == msg.type = "data" =>
    /\ p = S /\ JobOf(msg.id) \in 1 .. N - 1 => msg.val = 0
    /\ p = C /\ msg.id \in 1 .. N - 1 => msg.val = 1

MsgOK == \A p \in Proc : \A i \in DOMAIN net[p] : MsgFine(p, net[p][i])

Bounded == \A p \in Proc : Len(todo[p]) <= N

IInv(loc) ==
    /\ TypeOK /\ Bounded
    /\ InTodo(loc) /\ InTosend(loc) /\ InNet(loc)
    /\ InRd(loc) /\ InWr(loc) /\ InCp(loc)
    /\ CountOK(loc) /\ SignalOK(loc) /\ ArrayOK(loc) /\ MsgOK

Inv == \E loc \in Locs : IInv(loc)
-----------------------------------------------------------------------------
(* Identifiers and keys.                                                   *)

LEMMA Constants ==
    /\ N \in Nat /\ N >= 2
    /\ Proc = {C, S} /\ C # S /\ C \in Proc /\ S \in Proc
    /\ Other(C) = S /\ Other(S) = C
BY PeerAssumption DEF Proc, C, S, Other

\* An identifier keeps its job when it is marked, unmarked or reduced, and a
\* job other than job 0 is found at its own place in job_array.
LEMMA JobOfFacts ==
    /\ \A id \in 0 .. 2 * N :
        /\ JobOf(id) \in Job /\ create_message(id) \in 0 .. N
        /\ JobOf(create_message(id)) = JobOf(id)
        /\ JobOf(id) # 0 => create_message(id) = JobOf(id)
    /\ \A id \in 0 .. N :
        /\ N + id \in 0 .. 2 * N /\ JobOf(N + id) = JobOf(id)
        /\ JobOf(id) # 0 => JobOf(id) = id
    /\ \A id \in N .. 2 * N : id - N \in 0 .. N /\ JobOf(id - N) = JobOf(id)
    /\ JobOf(AllDone) = Bye
BY PeerAssumption DEF JobOf, Job, create_message, AllDone, Bye

LEMMA KeyFacts ==
    /\ \A id \in -1 .. N :
        /\ SendKey[id] = JobOf(id) /\ SendKey[id] \in Job \cup {Bye}
        /\ TodoKey[id] = IF id = AllDone THEN Wake ELSE JobOf(id)
        /\ id # AllDone => JobOf(id) \in Job
    /\ \A msg \in Msg :
        /\ msg.type = "data" => MsgKey[msg] = JobOf(msg.id) /\ MsgKey[msg] \in Job \cup {Bye}
        /\ msg.type # "data" => MsgKey[msg] = NoKey
    /\ Key = Job \cup {Bye, Wake} /\ NoKey \notin Key
    /\ Bye \notin Job /\ Wake \notin Job /\ Wake # Bye
<1>1. /\ Key = Job \cup {Bye, Wake} /\ NoKey \notin Key
      /\ Bye \notin Job /\ Wake \notin Job /\ Wake # Bye
    BY PeerAssumption DEF Key, Job, Bye, Wake, NoKey
<1>2. ASSUME NEW id \in -1 .. N
      PROVE  id # AllDone => JobOf(id) \in Job
    <2>1. id # AllDone => id \in 0 .. 2 * N
        BY PeerAssumption DEF AllDone
    <2>2. QED BY <2>1, JobOfFacts
<1>3. ASSUME NEW id \in -1 .. N
      PROVE  SendKey[id] = JobOf(id) /\ SendKey[id] \in Job \cup {Bye}
    BY <1>2, JobOfFacts DEF SendKey
<1>4. ASSUME NEW id \in -1 .. N
      PROVE  TodoKey[id] = IF id = AllDone THEN Wake ELSE JobOf(id)
    BY DEF TodoKey
<1>5. ASSUME NEW msg \in Msg, msg.type = "data"
      PROVE  MsgKey[msg] = JobOf(msg.id) /\ MsgKey[msg] \in Job \cup {Bye}
    <2>1. msg.id = AllDone \/ msg.id \in 0 .. 2 * N
        BY PeerAssumption DEF Msg, Id, AllDone
    <2>2. MsgKey[msg] = JobOf(msg.id)
        BY <1>5 DEF MsgKey
    <2>3. QED BY <2>1, <2>2, JobOfFacts
<1>6. ASSUME NEW msg \in Msg, msg.type # "data"
      PROVE  MsgKey[msg] = NoKey
    BY <1>6 DEF MsgKey
<1>7. QED BY <1>1, <1>2, <1>3, <1>4, <1>5, <1>6

Anywhere == Place \cup {Unborn, Counted, Gone}

Move(loc, k, b) == [loc EXCEPT ![k] = b]

\* What moves leaves one place and enters another.
LEMMA Moved ==
    ASSUME NEW loc \in Locs, NEW k \in Key, NEW b \in Anywhere
    PROVE  /\ Move(loc, k, b) \in Locs
           /\ Move(loc, k, b)[k] = b
           /\ \A x \in Key : x # k => Move(loc, k, b)[x] = loc[x]
BY DEF Move, Locs, Anywhere

LEMMA MovedFrom ==
    ASSUME NEW loc \in Locs, NEW k \in Key, NEW b \in Anywhere, loc[k] # b
    PROVE  In(Move(loc, k, b), loc[k]) = In(loc, loc[k]) \ {k}
BY DEF Move, Locs, In

LEMMA MovedTo ==
    ASSUME NEW loc \in Locs, NEW k \in Key, NEW b \in Anywhere
    PROVE  In(Move(loc, k, b), b) = In(loc, b) \cup {k}
BY DEF Move, Locs, In

LEMMA NotMoved ==
    ASSUME NEW loc \in Locs, NEW k \in Key, NEW b \in Anywhere, NEW a, loc[k] # a, a # b
    PROVE  In(Move(loc, k, b), a) = In(loc, a)
BY DEF Move, Locs, In

\* A pull from the queue q[p], or the read of a message that carries a key.
Pulled(T, q, f, kind, loc, p, k, b) ==
    /\ k \in Key /\ loc[k] = <<kind, p>> /\ Move(loc, k, b) \in Locs
    /\ [q EXCEPT ![p] = Tail(@)] \in [Proc -> Seq(T)]
    /\ InQueue([q EXCEPT ![p] = Tail(@)], f, kind, Move(loc, k, b))

LEMMA QueuePull ==
    ASSUME NEW T, NEW q \in [Proc -> Seq(T)], NEW f, NEW kind,
           NEW loc \in Locs, InQueue(q, f, kind, loc),
           NEW p \in Proc, q[p] # <<>>,
           NEW k, k = f[Head(q[p])], k # NoKey,
           NEW b \in Anywhere, \A r \in Proc : b # <<kind, r>>
    PROVE  Pulled(T, q, f, kind, loc, p, k, b)
<1>1. NoKey \notin In(loc, <<kind, p>>)
    BY KeyFacts DEF In
<1>2. Lists(q[p], f, In(loc, <<kind, p>>))
    BY DEF InQueue
<1>3. /\ Tail(q[p]) \in Seq(T)
      /\ k \in In(loc, <<kind, p>>)
      /\ Lists(Tail(q[p]), f, In(loc, <<kind, p>>) \ {k})
    <2>1. q[p] \in Seq(T)
        OBVIOUS
    <2> HIDE DEF InQueue
    <2>2. QED BY <1>1, <1>2, <2>1, ListsTail
<1>4. k \in Key /\ loc[k] = <<kind, p>> /\ loc[k] # b
    BY <1>3 DEF In
<1>5. ASSUME NEW r \in Proc
      PROVE  Lists([q EXCEPT ![p] = Tail(@)][r], f, In(Move(loc, k, b), <<kind, r>>))
    <2>1. CASE r = p
        <3>1. In(Move(loc, k, b), loc[k]) = In(loc, loc[k]) \ {k}
            BY <1>4, MovedFrom
        <3>2. QED BY <1>3, <1>4, <2>1, <3>1
    <2>2. CASE r # p
        <3>1. <<kind, r>> # loc[k] /\ <<kind, r>> # b
            BY <1>4, <2>2
        <3>2. In(Move(loc, k, b), <<kind, r>>) = In(loc, <<kind, r>>)
            BY <1>4, <3>1, NotMoved
        <3>3. QED BY <2>2, <3>2 DEF InQueue
    <2>3. QED BY <2>1, <2>2
<1>6. QED BY <1>3, <1>4, <1>5, Moved DEF InQueue, Pulled

\* The read of a message that carries no key.
LEMMA QueueSkip ==
    ASSUME NEW T, NEW q \in [Proc -> Seq(T)], NEW f, NEW kind,
           NEW loc \in Locs, InQueue(q, f, kind, loc),
           NEW p \in Proc, q[p] # <<>>, f[Head(q[p])] = NoKey
    PROVE  /\ [q EXCEPT ![p] = Tail(@)] \in [Proc -> Seq(T)]
           /\ InQueue([q EXCEPT ![p] = Tail(@)], f, kind, loc)
<1>1. NoKey \notin In(loc, <<kind, p>>)
    BY KeyFacts DEF In
<1>2. Lists(q[p], f, In(loc, <<kind, p>>)) /\ q[p] \in Seq(T)
    BY DEF InQueue
<1>3. /\ Tail(q[p]) \in Seq(T)
      /\ Lists(Tail(q[p]), f, In(loc, <<kind, p>>) \ {NoKey})
    BY <1>1, <1>2, ListsTail
<1>4. In(loc, <<kind, p>>) \ {NoKey} = In(loc, <<kind, p>>)
    BY <1>1
<1>5. QED BY <1>3, <1>4 DEF InQueue

\* A push to the queue q[p], or the sending of a message that carries a key.
Pushed(T, q, f, kind, loc, p, k, e) ==
    /\ Move(loc, k, <<kind, p>>) \in Locs
    /\ [q EXCEPT ![p] = Append(@, e)] \in [Proc -> Seq(T)]
    /\ InQueue([q EXCEPT ![p] = Append(@, e)], f, kind, Move(loc, k, <<kind, p>>))

LEMMA QueuePush ==
    ASSUME NEW T, NEW q \in [Proc -> Seq(T)], NEW f, NEW kind,
           NEW loc \in Locs, InQueue(q, f, kind, loc),
           NEW p \in Proc, NEW e \in T, <<kind, p>> \in Place,
           NEW k \in Key, k = f[e], \A r \in Proc : loc[k] # <<kind, r>>
    PROVE  Pushed(T, q, f, kind, loc, p, k, e)
<1> DEFINE b == <<kind, p>>
<1>1. k \notin In(loc, b) /\ k # NoKey
    BY KeyFacts DEF In
<1>2. Lists(q[p], f, In(loc, b)) /\ q[p] \in Seq(T)
    BY DEF InQueue
<1>3. /\ Append(q[p], e) \in Seq(T)
      /\ Lists(Append(q[p], e), f, In(loc, b) \cup {k})
    BY <1>1, <1>2, ListsAppend
<1>4. b \in Anywhere /\ loc[k] # b
    BY DEF Anywhere
<1>5. ASSUME NEW r \in Proc
      PROVE  Lists([q EXCEPT ![p] = Append(@, e)][r], f, In(Move(loc, k, b), <<kind, r>>))
    <2>1. CASE r = p
        <3>1. In(Move(loc, k, b), b) = In(loc, b) \cup {k}
            BY <1>4, MovedTo
        <3>2. QED BY <1>3, <2>1, <3>1
    <2>2. CASE r # p
        <3>1. <<kind, r>> # loc[k] /\ <<kind, r>> # b
            BY <2>2
        <3>2. In(Move(loc, k, b), <<kind, r>>) = In(loc, <<kind, r>>)
            BY <1>4, <3>1, NotMoved
        <3>3. QED BY <2>2, <3>2 DEF InQueue
    <2>3. QED BY <2>1, <2>2
<1>6. QED BY <1>3, <1>4, <1>5, Moved DEF InQueue, Pushed

\* The sending of a message that carries no key.
LEMMA QueuePushOther ==
    ASSUME NEW T, NEW q \in [Proc -> Seq(T)], NEW f, NEW kind,
           NEW loc \in Locs, InQueue(q, f, kind, loc),
           NEW p \in Proc, NEW e \in T, f[e] = NoKey
    PROVE  /\ [q EXCEPT ![p] = Append(@, e)] \in [Proc -> Seq(T)]
           /\ InQueue([q EXCEPT ![p] = Append(@, e)], f, kind, loc)
<1>1. NoKey \notin In(loc, <<kind, p>>)
    BY KeyFacts DEF In
<1>2. Lists(q[p], f, In(loc, <<kind, p>>)) /\ q[p] \in Seq(T)
    BY DEF InQueue
<1>3. Append(q[p], e) \in Seq(T) /\ Lists(Append(q[p], e), f, In(loc, <<kind, p>>))
    BY <1>1, <1>2, ListsAppendOther
<1>4. QED BY <1>3 DEF InQueue

\* A queue that a move does not concern.
LEMMA QueueKept ==
    ASSUME NEW q, NEW f, NEW kind, NEW loc \in Locs, InQueue(q, f, kind, loc),
           NEW k \in Key, NEW b \in Anywhere, loc[k] # b,
           \A r \in Proc : loc[k] # <<kind, r>> /\ b # <<kind, r>>
    PROVE  InQueue(q, f, kind, Move(loc, k, b))
BY NotMoved DEF InQueue
-----------------------------------------------------------------------------
(* The count of the finished jobs.                                         *)

LEMMA JobFinite == IsFiniteSet(Job) /\ Cardinality(Job) = N
<1>1. 0 \in Int /\ N - 1 \in Int /\ N >= 1 /\ N \in Nat
    BY PeerAssumption
<1>2. /\ IsFiniteSet(0 .. N - 1)
      /\ Cardinality(0 .. N - 1) = IF 0 > N - 1 THEN 0 ELSE (N - 1) - 0 + 1
    BY <1>1, FS_Interval
<1>3. QED BY <1>1, <1>2 DEF Job

\* job_finished stays between 0 and N, and N means that every job is counted.
LEMMA CountFacts ==
    ASSUME NEW loc \in Locs, CountOK(loc)
    PROVE  /\ job_finished \in 0 .. N
           /\ job_finished = N => \A j \in Job : loc[j] = Counted
           /\ \A j \in Job : loc[j] # Counted => job_finished < N
<1> DEFINE D == Job \cap In(loc, Counted)
<1>1. D \in SUBSET Job
    OBVIOUS
<1>2. /\ IsFiniteSet(D) /\ Cardinality(D) <= N
      /\ N = Cardinality(D) => Job = D
    BY <1>1, JobFinite, FS_Subset
<1>3. Cardinality(D) \in Nat
    BY <1>2, FS_CardinalityType
<1>4. job_finished = Cardinality(D)
    BY DEF CountOK
<1>5. Job = D => \A j \in Job : loc[j] = Counted
    BY DEF In
<1> HIDE DEF D
<1>6. job_finished \in 0 .. N
    BY <1>2, <1>3, <1>4, PeerAssumption
<1>7. QED BY <1>2, <1>4, <1>5, <1>6, PeerAssumption

\* A job is counted once more ...
LEMMA CountMore ==
    ASSUME NEW loc \in Locs, NEW k \in Job, loc[k] # Counted
    PROVE  Cardinality(Job \cap In(Move(loc, k, Counted), Counted))
              = Cardinality(Job \cap In(loc, Counted)) + 1
<1> DEFINE D == Job \cap In(loc, Counted)
<1>1. k \in Key /\ Counted \in Anywhere
    BY KeyFacts DEF Anywhere
<1>2. In(Move(loc, k, Counted), Counted) = In(loc, Counted) \cup {k}
    BY <1>1, MovedTo
<1>3. Job \cap In(Move(loc, k, Counted), Counted) = D \cup {k}
    BY <1>2
<1>4. D \in SUBSET Job /\ k \notin D
    BY DEF In
<1>5. IsFiniteSet(D)
    BY <1>4, JobFinite, FS_Subset
<1>6. Cardinality(D \cup {k}) = Cardinality(D) + 1
    BY <1>4, <1>5, FS_AddElement
<1>7. QED BY <1>3, <1>6

\* ... and every other move leaves the count alone.
LEMMA CountSame ==
    ASSUME NEW loc \in Locs, NEW k \in Key, NEW b \in Anywhere,
           k \in Job => loc[k] # Counted /\ b # Counted
    PROVE  Job \cap In(Move(loc, k, b), Counted) = Job \cap In(loc, Counted)
BY DEF Move, Locs, In
-----------------------------------------------------------------------------
(* Steps that move no job and give no signal.                              *)

\* Such a step keeps the queues and the arrays; what is left to show is what it
\* does to the stream, to its thread and to the signals.
LEMMA Quiet ==
    ASSUME NEW loc \in Locs, IInv(loc), TypeOK',
           UNCHANGED <<todo, tosend, arr, job_finished>>,
           \A p \in Proc : up'[p] => up[p],
           InNet(loc)', MsgOK', InRd(loc)', InWr(loc)', InCp(loc)', SignalOK(loc)'
    PROVE  IInv(loc)'
<1>1. Bounded'
    BY DEF IInv, Bounded
<1>2. InTodo(loc)' /\ InTosend(loc)'
    BY DEF IInv, InTodo, InTosend, InQueue
<1>3. CountOK(loc)'
    BY DEF IInv, CountOK
<1>4. ArrayOK(loc)'
    BY DEF IInv, ArrayOK
<1>5. QED BY <1>1, <1>2, <1>3, <1>4 DEF IInv

\* The client's main thread between two jobs and after the last one.
LEMMA MainQuiet ==
    ASSUME NEW loc \in Locs, IInv(loc), MainLock \/ MainContinue \/ MainJoin \/ MainSave
    PROVE  IInv(loc)'
<1> USE Constants DEF IInv, MainLock, MainContinue, MainJoin, MainSave, MainGoto, clientVars, At
<1>1. PICK s \in CpState :
        /\ cp' = [cp EXCEPT ![C] = s]
        /\ s.pc \in {"pull", "finish", "save", "saved"}
        /\ s.pc = "finish" => job_finished = N
        /\ s.pc \in {"pull", "finish"} => cp[C].pc \in {"lock", "continue"}
        /\ s.pc \in {"save", "saved"} => cp[C].pc \in {"join", "save"}
    BY DEF TypeOK, CpState, JobsLeft
<1>2. cp \in [Proc -> CpState] /\ cp[C].pc \in {"lock", "continue", "join", "save"}
    BY DEF TypeOK
<1>3. /\ UNCHANGED <<todo, tosend, arr, net, peer_known, rebalance_requested,
                     rd, wr, sm, reports, job_finished>>
      /\ stray' => stray \/ cp[C].pc = "continue"
    OBVIOUS
<1>4. up' \in [Proc -> BOOLEAN] /\ \A p \in Proc : up'[p] => up[p]
    BY DEF TypeOK
<1>5. stray' \in BOOLEAN /\ mutex' \in {"nobody", "reader"}
    BY DEF TypeOK
<1>6. TypeOK'
    BY <1>1, <1>3, <1>4, <1>5 DEF TypeOK
<1> HIDE DEF MainLock, MainContinue, MainJoin, MainSave, MainGoto
<1>7. InNet(loc)' /\ MsgOK' /\ InRd(loc)' /\ InWr(loc)'
    BY <1>3 DEF InNet, InQueue, MsgOK, InRd, InWr, RdHolds
<1>8. InCp(loc)'
    BY <1>1, <1>2 DEF InCp
<1>9. SignalOK(loc)'
    <2>1. /\ cp'[C] = s /\ cp'[S] = cp[S]
          /\ loc[Bye] # Unborn => cp'[C].pc \in {"join", "save", "saved"}
          /\ cp'[C].pc \in Ended \/ stray' => job_finished = N
        BY <1>1, <1>2, <1>3 DEF SignalOK, Ended
    <2>2. QED BY <1>3, <2>1 DEF SignalOK
<1>10. QED BY <1>3, <1>4, <1>6, <1>7, <1>8, <1>9, Quiet

\* A message is read: what it says is known, and the others stay in order.
LEMMA MsgRead ==
    ASSUME TypeOK, MsgOK, NEW p \in Proc, net[p] # <<>>, Consume(p)
    PROVE  /\ Head(net[p]) \in Msg /\ MsgFine(p, Head(net[p]))
           /\ net' = [net EXCEPT ![p] = Tail(@)] /\ net' \in [Proc -> Seq(Msg)]
           /\ MsgOK'
<1>1. net \in [Proc -> Seq(Msg)] /\ net' = [net EXCEPT ![p] = Tail(@)]
    BY DEF TypeOK, Consume
<1>2. /\ net[p] \in Seq(Msg) /\ Head(net[p]) = net[p][1] /\ 1 \in DOMAIN net[p]
      /\ Head(net[p]) \in Msg /\ Tail(net[p]) \in Seq(Msg)
      /\ \A i \in DOMAIN Tail(net[p]) : i + 1 \in DOMAIN net[p] /\ Tail(net[p])[i] = net[p][i + 1]
    BY <1>1
<1>3. net' \in [Proc -> Seq(Msg)]
    BY <1>1, <1>2
<1>4. MsgFine(p, Head(net[p]))
    BY <1>2 DEF MsgOK
<1>5. ASSUME NEW r \in Proc, NEW i \in DOMAIN net'[r] PROVE MsgFine(r, net'[r][i])
    <2>1. CASE r = p
        <3>1. net'[r] = Tail(net[p])
            BY <1>1, <2>1
        <3>2. QED BY <1>2, <2>1, <3>1 DEF MsgOK
    <2>2. CASE r # p
        BY <1>1, <2>2 DEF MsgOK
    <2>3. QED BY <2>1, <2>2
<1>6. MsgOK'
    BY <1>5 DEF MsgOK, MsgFine
<1>7. QED BY <1>1, <1>2, <1>3, <1>4, <1>6

\* A message is sent, or lost because the other process has ended.
LEMMA MsgSent ==
    ASSUME TypeOK, MsgOK, NEW p \in Proc, NEW msg \in Msg,
           MsgFine(Other(p), msg), Put(p, msg)
    PROVE  net' \in [Proc -> Seq(Msg)] /\ MsgOK'
<1> DEFINE o == Other(p)
<1>1. o \in Proc /\ net \in [Proc -> Seq(Msg)]
    BY Constants DEF TypeOK, Other
<1>2. CASE up[o]
    <2>1. net' = [net EXCEPT ![o] = Append(@, msg)]
        BY <1>2 DEF Put
    <2>2. /\ Append(net[o], msg) \in Seq(Msg)
          /\ \A i \in DOMAIN Append(net[o], msg) :
                \/ Append(net[o], msg)[i] = msg
                \/ i \in DOMAIN net[o] /\ Append(net[o], msg)[i] = net[o][i]
        <3>1. net[o] \in Seq(Msg)
            BY <1>1
        <3> HIDE DEF o
        <3>2. QED BY <3>1
    <2>3. net' \in [Proc -> Seq(Msg)]
        BY <1>1, <2>1, <2>2
    <2>4. ASSUME NEW r \in Proc, NEW i \in DOMAIN net'[r] PROVE MsgFine(r, net'[r][i])
        <3>1. CASE r = o
            <4>1. net'[r] = Append(net[o], msg)
                BY <1>1, <2>1, <3>1
            <4>2. QED BY <2>2, <3>1, <4>1 DEF MsgOK
        <3>2. CASE r # o
            BY <1>1, <2>1, <3>2 DEF MsgOK
        <3>3. QED BY <3>1, <3>2
    <2>5. QED BY <2>3, <2>4 DEF MsgOK, MsgFine
<1>3. CASE ~up[o]
    BY <1>1, <1>3 DEF Put, MsgOK, MsgFine
<1>4. QED BY <1>2, <1>3

\* A report or a request is read.
LEMMA OtherRead ==
    ASSUME NEW loc \in Locs, IInv(loc), NEW p \in Proc,
           net[p] # <<>>, MsgKey[Head(net[p])] = NoKey, Consume(p)
    PROVE  net' \in [Proc -> Seq(Msg)] /\ InNet(loc)' /\ MsgOK'
<1>1. net' = [net EXCEPT ![p] = Tail(@)] /\ net' \in [Proc -> Seq(Msg)] /\ MsgOK'
    BY MsgRead DEF IInv
<1>2. InQueue(net, MsgKey, "net", loc) /\ net \in [Proc -> Seq(Msg)]
    BY DEF IInv, InNet, TypeOK
<1>3. InQueue([net EXCEPT ![p] = Tail(@)], MsgKey, "net", loc)
    BY <1>2, QueueSkip
<1>4. QED BY <1>1, <1>3 DEF InNet

\* A report or a request is sent.
LEMMA OtherSent ==
    ASSUME NEW loc \in Locs, IInv(loc), NEW p \in Proc, NEW msg \in Msg,
           msg.type # "data", Put(p, msg)
    PROVE  net' \in [Proc -> Seq(Msg)] /\ InNet(loc)' /\ MsgOK'
<1>1. net' \in [Proc -> Seq(Msg)] /\ MsgOK'
    BY MsgSent DEF IInv, MsgFine
<1>2. /\ InQueue(net, MsgKey, "net", loc) /\ net \in [Proc -> Seq(Msg)]
      /\ Other(p) \in Proc /\ MsgKey[msg] = NoKey
    BY Constants, KeyFacts DEF IInv, InNet, TypeOK, Other
<1>3. InQueue([net EXCEPT ![Other(p)] = Append(@, msg)], MsgKey, "net", loc)
    BY <1>2, QueuePushOther
<1>4. InQueue(net', MsgKey, "net", loc)
    BY <1>2, <1>3 DEF Put
<1>5. QED BY <1>1, <1>4 DEF InNet

\* A reader that has no job in hand goes on to a label where it has none.
LEMMA RdQuiet ==
    ASSUME NEW loc \in Locs, IInv(loc), NEW p \in Proc, NEW s \in RdState,
           rd' = [rd EXCEPT ![p] = s],
           rd[p].pc \notin {"send", "swallow"}, s.pc \notin {"send", "swallow"},
           rd[p].pc \in {"unlock", "done"} => s.pc \in {"unlock", "done"},
           UNCHANGED <<up, todo, tosend, arr, wr, cp, sm, reports, job_finished, stray>>,
           peer_known' \in [Proc -> BOOLEAN], rebalance_requested' \in [Proc -> BOOLEAN],
           mutex' \in {"nobody", "reader"},
           net' \in [Proc -> Seq(Msg)], InNet(loc)', MsgOK'
    PROVE  IInv(loc)'
<1>1. rd \in [Proc -> RdState] /\ rd' \in [Proc -> RdState]
    BY DEF IInv, TypeOK
<1>2. TypeOK'
    BY <1>1 DEF IInv, TypeOK
<1>3. InRd(loc)'
    BY <1>1 DEF IInv, InRd, RdHolds
<1>4. InWr(loc)' /\ InCp(loc)'
    BY DEF IInv, InWr, InCp
<1>5. SignalOK(loc)'
    <2>1. loc[Wake] # Unborn => rd'[C].pc \in {"unlock", "done"}
        BY <1>1, Constants DEF IInv, SignalOK
    <2>2. QED BY <2>1 DEF IInv, SignalOK
<1>6. \A r \in Proc : up'[r] => up[r]
    OBVIOUS
<1>7. QED BY <1>2, <1>3, <1>4, <1>5, <1>6, Quiet

LEMMA NetKept ==
    ASSUME NEW loc \in Locs, IInv(loc), UNCHANGED net
    PROVE  net' \in [Proc -> Seq(Msg)] /\ InNet(loc)' /\ MsgOK'
BY DEF IInv, TypeOK, InNet, InQueue, MsgOK, MsgFine

RdLabel == {"top", "read", "ask", "pull", "unlock", "done"}

LEMMA RdAtFacts ==
    ASSUME NEW pc \in RdLabel
    PROVE  RdAt(pc) \in RdState /\ RdAt(pc).pc = pc
BY Constants DEF RdAt, RdState, RdLabel

LEMMA ReaderTopQuiet ==
    ASSUME NEW loc \in Locs, IInv(loc), ReaderTop, job_finished # N
    PROVE  IInv(loc)'
<1>1. RdAt("read") \in RdState /\ RdAt("read").pc = "read"
    BY RdAtFacts DEF RdLabel
<1>2. /\ rd' = [rd EXCEPT ![C] = RdAt("read")] /\ rd[C].pc = "top"
      /\ UNCHANGED <<up, todo, tosend, arr, net, peer_known, rebalance_requested,
                     wr, cp, sm, reports, job_finished, mutex, stray>>
    BY DEF ReaderTop
<1>3. net' \in [Proc -> Seq(Msg)] /\ InNet(loc)' /\ MsgOK'
    BY <1>2, NetKept
<1>4. /\ peer_known' \in [Proc -> BOOLEAN] /\ rebalance_requested' \in [Proc -> BOOLEAN]
      /\ mutex' \in {"nobody", "reader"}
    BY <1>2 DEF IInv, TypeOK
<1>5. QED BY <1>1, <1>2, <1>3, <1>4, Constants, RdQuiet

LEMMA ReaderUnlockStep ==
    ASSUME NEW loc \in Locs, IInv(loc), ReaderUnlock
    PROVE  IInv(loc)'
<1>1. RdAt("done") \in RdState /\ RdAt("done").pc = "done"
    BY RdAtFacts DEF RdLabel
<1>2. /\ rd' = [rd EXCEPT ![C] = RdAt("done")] /\ rd[C].pc = "unlock"
      /\ UNCHANGED <<up, todo, tosend, arr, net, peer_known, rebalance_requested,
                     wr, cp, sm, reports, job_finished, stray>>
      /\ mutex' = "nobody"
    BY DEF ReaderUnlock
<1>3. net' \in [Proc -> Seq(Msg)] /\ InNet(loc)' /\ MsgOK'
    BY <1>2, NetKept
<1>4. peer_known' \in [Proc -> BOOLEAN] /\ rebalance_requested' \in [Proc -> BOOLEAN]
    BY <1>2 DEF IInv, TypeOK
<1>5. QED BY <1>1, <1>2, <1>3, <1>4, Constants, RdQuiet

\* The reader finds the socket closed.
LEMMA EofQuiet ==
    ASSUME NEW loc \in Locs, IInv(loc), UNCHANGED clientVars,
           (ReaderEof /\ rd[C].pc = "read") \/ ProcessEof
    PROVE  IInv(loc)'
<1>1. PICK p \in Proc, pc \in RdLabel :
        /\ rd' = [rd EXCEPT ![p] = RdAt(pc)] /\ rd[p].pc = "read"
        /\ UNCHANGED <<up, todo, tosend, arr, net, peer_known, rebalance_requested,
                       wr, cp, sm, reports, job_finished, mutex, stray>>
    BY Constants DEF ReaderEof, ProcessEof, clientVars, RdLabel
<1>2. RdAt(pc) \in RdState /\ RdAt(pc).pc = pc
    BY RdAtFacts
<1>3. net' \in [Proc -> Seq(Msg)] /\ InNet(loc)' /\ MsgOK'
    BY <1>1, NetKept
<1>4. /\ peer_known' \in [Proc -> BOOLEAN] /\ rebalance_requested' \in [Proc -> BOOLEAN]
      /\ mutex' \in {"nobody", "reader"}
    BY <1>1 DEF IInv, TypeOK
<1>5. pc \notin {"send", "swallow"}
    BY DEF RdLabel
<1>6. QED BY <1>1, <1>2, <1>3, <1>4, <1>5, RdQuiet

\* The adaptor asks for at most as many jobs as job_todo can hold.
LEMMA DecideFacts ==
    ASSUME Bounded, TypeOK, NEW p \in Proc, NEW n \in Id, NEW loop \in {"top", "read"}
    PROVE  /\ Decide(p, n, loop) \in RdState
           /\ Decide(p, n, loop).pc \in {"ask", "pull", "top", "read"}
<1> DEFINE diff == Len(todo[p]) - n
<1>1. diff \in Int /\ diff <= N + 1
    BY Constants DEF Bounded, TypeOK, Id
<1>2. diff \div 2 > 0 => diff \div 2 \in 0 .. N
    <2> HIDE DEF diff
    <2>1. QED BY <1>1, Constants
<1>3. /\ RdAt("ask") \in RdState /\ RdAt("ask").pc = "ask"
      /\ RdAt(loop) \in RdState /\ RdAt(loop).pc = loop
    BY RdAtFacts DEF RdLabel
<1>4. diff \div 2 > 0 =>
        Moving("pull", 0, diff \div 2) \in RdState /\ Moving("pull", 0, diff \div 2).pc = "pull"
    <2> HIDE DEF diff
    <2>1. QED BY <1>2, Constants DEF Moving, RdState
<1>5. Decide(p, n, loop) \in
        {RdAt("ask"), RdAt(loop)} \cup
        {x \in {Moving("pull", 0, diff \div 2)} : diff \div 2 > 0}
    BY DEF Decide
<1>6. QED BY <1>3, <1>4, <1>5

LEMMA StateHandleStep ==
    ASSUME NEW loc \in Locs, IInv(loc), UNCHANGED clientVars,
           NEW p \in Proc, NEW loop \in {"top", "read"}, state_handle(p, loop)
    PROVE  IInv(loc)'
<1>1. net[p] # <<>> /\ Head(net[p]).type = "state" /\ Consume(p)
    BY DEF state_handle, Arrived
<1>2. Head(net[p]) \in Msg
    BY <1>1, MsgRead DEF IInv
<1>3. MsgKey[Head(net[p])] = NoKey /\ Head(net[p]).id \in Id
    BY <1>1, <1>2, KeyFacts DEF Msg
<1>4. net' \in [Proc -> Seq(Msg)] /\ InNet(loc)' /\ MsgOK'
    BY <1>1, <1>3, OtherRead
<1>5. /\ RdAt(loop) \in RdState /\ RdAt(loop).pc = loop
      /\ Decide(p, Head(net[p]).id, loop) \in RdState
      /\ Decide(p, Head(net[p]).id, loop).pc \in {"ask", "pull", "top", "read"}
    BY <1>3, RdAtFacts, DecideFacts DEF RdLabel, IInv
<1>6. PICK s \in RdState :
        rd' = [rd EXCEPT ![p] = s] /\ s.pc \in {"ask", "pull", "top", "read"}
    BY <1>5 DEF state_handle
<1>7. peer_known' \in [Proc -> BOOLEAN]
    BY DEF state_handle, IInv, TypeOK
<1>8. /\ rd[p].pc = "read" /\ UNCHANGED <<up, todo, tosend, arr, rebalance_requested,
                     wr, cp, sm, reports, job_finished, mutex, stray>>
    BY DEF state_handle, clientVars
<1>9. rebalance_requested' \in [Proc -> BOOLEAN] /\ mutex' \in {"nobody", "reader"}
    BY <1>8 DEF IInv, TypeOK
<1>10. QED BY <1>4, <1>6, <1>7, <1>8, <1>9, RdQuiet

LEMMA AskStep ==
    ASSUME NEW loc \in Locs, IInv(loc), UNCHANGED clientVars,
           NEW p \in Proc, NEW loop \in {"top", "read"}, AdaptorAsk(p, loop)
    PROVE  IInv(loc)'
<1>1. RebalanceMsg \in Msg /\ RebalanceMsg.type # "data" /\ Put(p, RebalanceMsg)
    BY Constants DEF AdaptorAsk, RebalanceMsg, Msg, Id, Value
<1>2. net' \in [Proc -> Seq(Msg)] /\ InNet(loc)' /\ MsgOK'
    BY <1>1, OtherSent
<1>3. RdAt(loop) \in RdState /\ RdAt(loop).pc = loop
    BY RdAtFacts DEF RdLabel
<1>4. /\ rd' = [rd EXCEPT ![p] = RdAt(loop)] /\ rd[p].pc = "ask"
      /\ UNCHANGED <<up, todo, tosend, arr, peer_known, rebalance_requested,
                     wr, cp, sm, reports, job_finished, mutex, stray>>
    BY DEF AdaptorAsk, clientVars
<1>5. /\ peer_known' \in [Proc -> BOOLEAN] /\ rebalance_requested' \in [Proc -> BOOLEAN]
      /\ mutex' \in {"nobody", "reader"}
    BY <1>4 DEF IInv, TypeOK
<1>6. QED BY <1>2, <1>3, <1>4, <1>5, RdQuiet

LEMMA RebalanceStep ==
    ASSUME NEW loc \in Locs, IInv(loc), UNCHANGED clientVars,
           NEW p \in Proc, NEW loop \in {"top", "read"}, ReadRebalance(p, loop)
    PROVE  IInv(loc)'
<1>1. net[p] # <<>> /\ Head(net[p]).type = "rebalance" /\ Consume(p)
    BY DEF ReadRebalance, Arrived
<1>2. Head(net[p]) \in Msg
    BY <1>1, MsgRead DEF IInv
<1>3. MsgKey[Head(net[p])] = NoKey
    BY <1>1, <1>2, KeyFacts
<1>4. net' \in [Proc -> Seq(Msg)] /\ InNet(loc)' /\ MsgOK'
    BY <1>1, <1>3, OtherRead
<1>5. RdAt(loop) \in RdState /\ RdAt(loop).pc = loop
    BY RdAtFacts DEF RdLabel
<1>6. /\ rd' = [rd EXCEPT ![p] = RdAt(loop)] /\ rd[p].pc = "read"
      /\ UNCHANGED <<up, todo, tosend, arr, peer_known,
                     wr, cp, sm, reports, job_finished, mutex, stray>>
    BY DEF ReadRebalance, clientVars
<1>7. rebalance_requested' \in [Proc -> BOOLEAN]
    BY DEF ReadRebalance, IInv, TypeOK
<1>8. peer_known' \in [Proc -> BOOLEAN] /\ mutex' \in {"nobody", "reader"}
    BY <1>6 DEF IInv, TypeOK
<1>9. QED BY <1>4, <1>5, <1>6, <1>7, <1>8, RdQuiet

\* After the goodbye the stream holds no job: nothing is lost by swallowing it.
LEMMA SwallowedIsOther ==
    ASSUME NEW loc \in Locs, IInv(loc), rd[C].pc = "swallow",
           NEW i \in DOMAIN net[C]
    PROVE  MsgKey[net[C][i]] = NoKey /\ net[C][i].type # "data"
<1>1. loc[Bye] = <<"rd", C>>
    BY Constants, KeyFacts DEF IInv, InRd, RdHolds
<1>2. job_finished = N
    BY <1>1 DEF IInv, SignalOK, Unborn, Ended
<1>3. \A j \in Job : loc[j] = Counted
    BY <1>2, CountFacts DEF IInv
<1>4. net[C][i] \in Msg
    BY Constants DEF IInv, TypeOK
<1>5. Lists(net[C], MsgKey, In(loc, <<"net", C>>))
    BY Constants DEF IInv, InNet, InQueue
<1>6. SUFFICES ASSUME net[C][i].type = "data" PROVE FALSE
    BY <1>4, KeyFacts
<1>7. MsgKey[net[C][i]] \in Job \cup {Bye} /\ MsgKey[net[C][i]] # NoKey
    BY <1>4, <1>6, KeyFacts
<1>8. loc[MsgKey[net[C][i]]] = <<"net", C>>
    BY <1>5, <1>7 DEF Lists, In
<1>9. QED BY <1>1, <1>3, <1>7, <1>8 DEF Counted

LEMMA SwallowStep ==
    ASSUME NEW loc \in Locs, IInv(loc), ReaderSwallow
    PROVE  /\ net' \in [Proc -> Seq(Msg)] /\ InNet(loc)' /\ MsgOK'
           /\ UNCHANGED rd => IInv(loc)'
<1>1. net[C] # <<>> /\ Consume(C) /\ rd[C].pc = "swallow"
    BY DEF ReaderSwallow
<1>2. net[C] \in Seq(Msg)
    BY Constants DEF IInv, TypeOK
<1>3. 1 \in DOMAIN net[C] /\ Head(net[C]) = net[C][1]
    BY <1>1, <1>2
<1>4. MsgKey[Head(net[C])] = NoKey
    BY <1>1, <1>3, SwallowedIsOther
<1>5. net' \in [Proc -> Seq(Msg)] /\ InNet(loc)' /\ MsgOK'
    BY <1>1, <1>4, Constants, OtherRead
<1> SUFFICES ASSUME UNCHANGED rd PROVE IInv(loc)'
    BY <1>5
<1>6. UNCHANGED <<up, todo, tosend, arr, peer_known, rebalance_requested,
                  rd, wr, cp, sm, reports, job_finished, mutex, stray>>
    BY DEF ReaderSwallow, clientVars
<1>7. TypeOK'
    BY <1>5, <1>6 DEF IInv, TypeOK
<1>8. InRd(loc)' /\ InWr(loc)' /\ InCp(loc)' /\ SignalOK(loc)'
    BY <1>6 DEF IInv, InRd, RdHolds, InWr, InCp, SignalOK
<1>9. \A p \in Proc : up'[p] => up[p]
    BY <1>6
<1>10. QED BY <1>5, <1>6, <1>7, <1>8, <1>9, Quiet

LEMMA WriterTopStep ==
    ASSUME NEW loc \in Locs, IInv(loc), WriterTop
    PROVE  IInv(loc)'
<1>0. PICK pc \in {"done", "pull"} : wr' = [wr EXCEPT ![C] = At(pc)] /\ wr[C].pc = "top"
    BY DEF WriterTop
<1>1. PICK s \in WrState :
        wr' = [wr EXCEPT ![C] = s] /\ s.pc \in {"done", "pull"} /\ wr[C].pc = "top"
    <2>1. At(pc) \in WrState /\ At(pc).pc = pc
        BY Constants DEF At, WrState
    <2>2. QED BY <1>0, <2>1
<1>2. UNCHANGED <<up, todo, tosend, arr, net, peer_known, rebalance_requested,
                  rd, cp, sm, reports, job_finished, mutex, stray>>
    BY DEF WriterTop, clientVars
<1>3. wr \in [Proc -> WrState] /\ wr' \in [Proc -> WrState]
    BY <1>1 DEF IInv, TypeOK
<1>4. TypeOK'
    BY <1>2, <1>3 DEF IInv, TypeOK
<1>5. InNet(loc)' /\ MsgOK'
    BY <1>2, NetKept
<1>6. InRd(loc)' /\ InCp(loc)'
    BY <1>2 DEF IInv, InRd, RdHolds, InCp
<1>7. InWr(loc)'
    BY <1>1, <1>3 DEF IInv, InWr
<1>8. wr'[S] = wr[S]
    BY <1>1, <1>3, Constants
<1>9. SignalOK(loc)'
    BY <1>2, <1>8 DEF IInv, SignalOK
<1>10. \A p \in Proc : up'[p] => up[p]
    BY <1>2
<1>11. QED BY <1>2, <1>4, <1>5, <1>6, <1>7, <1>9, <1>10, Quiet

\* A process ends.
LEMMA EndStep ==
    ASSUME NEW loc \in Locs, IInv(loc), UNCHANGED clientVars,
           close_server \/ \E p \in Proc : Killed(p)
    PROVE  IInv(loc)'
<1>1. PICK p \in Proc :
        /\ up' = [up EXCEPT ![p] = FALSE]
        /\ UNCHANGED <<todo, tosend, arr, net, peer_known, rebalance_requested,
                       rd, wr, cp, sm, reports, job_finished, mutex, stray>>
    BY Constants DEF close_server, Killed, clientVars
<1>2. up' \in [Proc -> BOOLEAN] /\ \A r \in Proc : up'[r] => up[r]
    BY <1>1 DEF IInv, TypeOK
<1>3. TypeOK'
    BY <1>1, <1>2 DEF IInv, TypeOK
<1>4. InNet(loc)' /\ MsgOK'
    BY <1>1, NetKept
<1>5. InRd(loc)' /\ InWr(loc)' /\ InCp(loc)' /\ SignalOK(loc)'
    BY <1>1 DEF IInv, InRd, RdHolds, InWr, InCp, SignalOK
<1>6. QED BY <1>1, <1>2, <1>3, <1>4, <1>5, Quiet

\* The state manager reads the size of job_todo and sends it later.
LEMMA ReportStep ==
    ASSUME NEW loc \in Locs, IInv(loc), UNCHANGED clientVars,
           NEW p \in Proc, state_manager(p) \/ send_state(p)
    PROVE  IInv(loc)'
<1>1. UNCHANGED <<up, todo, tosend, arr, peer_known, rebalance_requested,
                  rd, wr, cp, job_finished, mutex, stray>>
    BY DEF state_manager, send_state, clientVars
<1>2. /\ sm' \in [Proc -> -1 .. N] /\ reports' \in [Proc -> Nat]
      /\ net' \in [Proc -> Seq(Msg)] /\ InNet(loc)' /\ MsgOK'
    <2>1. CASE state_manager(p)
        <3>1. Len(todo[p]) \in -1 .. N
            BY Constants DEF IInv, Bounded, TypeOK
        <3>2. sm' \in [Proc -> -1 .. N] /\ reports' \in [Proc -> Nat] /\ UNCHANGED net
            BY <2>1, <3>1 DEF IInv, TypeOK, state_manager
        <3>3. QED BY <3>2, NetKept
    <2>2. CASE send_state(p)
        <3>1. StateMsg(sm[p]) \in Msg /\ StateMsg(sm[p]).type # "data"
            BY Constants DEF IInv, TypeOK, StateMsg, Msg, Id, Value
        <3>2. net' \in [Proc -> Seq(Msg)] /\ InNet(loc)' /\ MsgOK'
            BY <2>2, <3>1, OtherSent DEF send_state
        <3>3. sm' \in [Proc -> -1 .. N] /\ reports' \in [Proc -> Nat]
            BY <2>2, Constants DEF IInv, TypeOK, send_state, NoReport
        <3>4. QED BY <3>2, <3>3
    <2>3. QED BY <2>1, <2>2
<1>3. TypeOK'
    BY <1>1, <1>2 DEF IInv, TypeOK
<1>4. InRd(loc)' /\ InWr(loc)' /\ InCp(loc)' /\ SignalOK(loc)'
    BY <1>1 DEF IInv, InRd, RdHolds, InWr, InCp, SignalOK
<1>5. \A r \in Proc : up'[r] => up[r]
    BY <1>1
<1>6. QED BY <1>1, <1>2, <1>3, <1>4, <1>5, Quiet
-----------------------------------------------------------------------------
(* Steps that move a job or a signal.                                      *)

Off(loc, k, b, kind) == \A r \in Proc : loc[k] # <<kind, r>> /\ b # <<kind, r>>

LEMMA OffKept ==
    ASSUME NEW loc \in Locs, NEW k \in Key, NEW b \in Anywhere,
           NEW kind, Off(loc, k, b, kind), NEW p \in Proc, NEW x \in Key
    PROVE  Move(loc, k, b)[x] = <<kind, p>> <=> loc[x] = <<kind, p>>
<1>1. CASE x = k
    BY <1>1, Moved DEF Off
<1>2. CASE x # k
    BY <1>2, Moved
<1>3. QED BY <1>1, <1>2

\* The queues and threads that a move does not concern.
LEMMA MoveKept ==
    ASSUME NEW loc \in Locs, IInv(loc), NEW k \in Key, NEW b \in Anywhere, loc[k] # b
    PROVE  /\ UNCHANGED todo /\ Off(loc, k, b, "todo") => InTodo(Move(loc, k, b))'
           /\ UNCHANGED tosend /\ Off(loc, k, b, "tosend") => InTosend(Move(loc, k, b))'
           /\ UNCHANGED net /\ Off(loc, k, b, "net") => InNet(Move(loc, k, b))'
           /\ UNCHANGED rd /\ Off(loc, k, b, "rd") => InRd(Move(loc, k, b))'
           /\ UNCHANGED wr /\ Off(loc, k, b, "wr") => InWr(Move(loc, k, b))'
           /\ UNCHANGED cp /\ Off(loc, k, b, "cp") => InCp(Move(loc, k, b))'
<1>1. ASSUME UNCHANGED todo, Off(loc, k, b, "todo") PROVE InTodo(Move(loc, k, b))'
    <2>1. InQueue(todo, TodoKey, "todo", Move(loc, k, b))
        BY <1>1, QueueKept DEF IInv, InTodo, Off
    <2>2. QED BY <1>1, <2>1 DEF InTodo, InQueue
<1>2. ASSUME UNCHANGED tosend, Off(loc, k, b, "tosend") PROVE InTosend(Move(loc, k, b))'
    <2>1. InQueue(tosend, SendKey, "tosend", Move(loc, k, b))
        BY <1>2, QueueKept DEF IInv, InTosend, Off
    <2>2. QED BY <1>2, <2>1 DEF InTosend, InQueue
<1>3. ASSUME UNCHANGED net, Off(loc, k, b, "net") PROVE InNet(Move(loc, k, b))'
    <2>1. InQueue(net, MsgKey, "net", Move(loc, k, b))
        BY <1>3, QueueKept DEF IInv, InNet, Off
    <2>2. QED BY <1>3, <2>1 DEF InNet, InQueue
<1>4. ASSUME UNCHANGED rd, Off(loc, k, b, "rd") PROVE InRd(Move(loc, k, b))'
    BY <1>4, OffKept DEF IInv, InRd, RdHolds
<1>5. ASSUME UNCHANGED wr, Off(loc, k, b, "wr") PROVE InWr(Move(loc, k, b))'
    BY <1>5, OffKept DEF IInv, InWr
<1>6. ASSUME UNCHANGED cp, Off(loc, k, b, "cp") PROVE InCp(Move(loc, k, b))'
    BY <1>6, OffKept DEF IInv, InCp
<1>7. QED BY <1>1, <1>2, <1>3, <1>4, <1>5, <1>6

\* A move between two places of the programs, or into a closed socket.
LEMMA MoveCount ==
    ASSUME NEW loc \in Locs, IInv(loc), NEW k \in Key, loc[k] \in Place,
           NEW b \in Place \cup {Gone}, UNCHANGED <<up, job_finished>>,
           k \in Job /\ b = Gone => \E p \in Proc : ~up[p]
    PROVE  CountOK(Move(loc, k, b))'
<1>1. b \in Anywhere /\ b # Counted /\ loc[k] # Counted
    BY DEF Anywhere, Place, Counted, Gone, Proc
<1>2. Job \cap In(Move(loc, k, b), Counted) = Job \cap In(loc, Counted)
    BY <1>1, CountSame
<1>3. ASSUME \A p \in Proc : up[p], NEW j \in Job
      PROVE  Move(loc, k, b)[j] \notin {Unborn, Gone}
    <2>1. j \in Key /\ loc[j] \notin {Unborn, Gone}
        BY <1>3, KeyFacts DEF IInv, CountOK
    <2>2. CASE j # k
        BY <1>1, <2>1, <2>2, Moved
    <2>3. CASE j = k
        <3>1. b \in Place
            BY <1>3, <2>3
        <3>2. b # Unborn /\ b # Gone
            BY <3>1 DEF Place, Unborn, Gone
        <3>3. QED BY <1>1, <2>1, <2>3, <3>2, Moved
    <2>4. QED BY <2>2, <2>3
<1>4. job_finished' = Cardinality(Job \cap In(Move(loc, k, b), Counted))
    BY <1>2 DEF IInv, CountOK
<1>5. QED BY <1>3, <1>4 DEF CountOK

Uncomputed == {<<"todo", S>>, <<"rd", S>>, <<"cp", S>>}
Computed == {<<"tosend", S>>, <<"wr", S>>}

\* A move that leaves the arrays alone, and what the server's array holds true.
LEMMA MoveArrays ==
    ASSUME NEW loc \in Locs, IInv(loc), NEW k \in Key, loc[k] \in Place,
           NEW b \in Place \cup {Gone}, UNCHANGED arr,
           b \in Uncomputed => loc[k] \in Uncomputed,
           b \in Computed => loc[k] \in Computed
    PROVE  ArrayOK(Move(loc, k, b))'
<1>1. b \in Anywhere /\ b # Counted /\ loc[k] # Counted
    BY DEF Anywhere, Place, Counted, Gone, Proc
<1>2. ASSUME NEW j \in 1 .. N - 1
      PROVE  LET m == Move(loc, k, b)
             IN  /\ arr[C][j] = IF m[j] = Counted THEN 1 ELSE 0
                 /\ m[j] \in Uncomputed => arr[S][j] = 0
                 /\ m[j] \in Computed => arr[S][j] = 1
    <2>1. j \in Key
        BY Constants DEF Key, Wake
    <2>2. /\ arr[C][j] = IF loc[j] = Counted THEN 1 ELSE 0
          /\ loc[j] \in Uncomputed => arr[S][j] = 0
          /\ loc[j] \in Computed => arr[S][j] = 1
        BY DEF IInv, ArrayOK, Uncomputed, Computed
    <2>3. CASE j = k
        BY <1>1, <2>1, <2>2, <2>3, Moved
    <2>4. CASE j # k
        BY <1>1, <2>1, <2>2, <2>4, Moved
    <2>5. QED BY <2>3, <2>4
<1>3. QED BY <1>2 DEF ArrayOK, Uncomputed, Computed

\* A signal that moves goes on along its way, and jobs do not disturb it.
LEMMA MoveSignals ==
    ASSUME NEW loc \in Locs, IInv(loc), NEW k \in Key, loc[k] \in Place, k # Wake,
           NEW b \in Place \cup {Gone}, UNCHANGED <<job_finished, stray>>,
           cp'[C].pc \in Ended => cp[C].pc \in Ended \/ job_finished = N,
           cp[C].pc \in {"join", "save", "saved"} => UNCHANGED cp[C],
           cp'[S].pc \in {"pull", "compute"},
           rd[C].pc \in {"unlock", "done"} => UNCHANGED rd[C],
           wr'[S].pc = "bye" => Move(loc, k, b)[Bye] \in {<<"net", C>>, <<"rd", C>>, Gone}
    PROVE  SignalOK(Move(loc, k, b))'
<1>1. b \in Anywhere /\ b # Counted /\ loc[k] # Unborn
    BY DEF Anywhere, Place, Counted, Gone, Unborn
<1>2. Bye \in Key /\ Wake \in Key /\ Move(loc, k, b)[Wake] = loc[Wake]
    BY <1>1, KeyFacts, Moved
<1>3. /\ Move(loc, k, b)[Bye] # Counted
      /\ Move(loc, k, b)[Bye] # Unborn => loc[Bye] # Unborn
    <2>1. CASE k = Bye
        BY <1>1, <1>2, <2>1, Moved
    <2>2. CASE k # Bye
        BY <1>1, <1>2, <2>2, Moved DEF IInv, SignalOK
    <2>3. QED BY <2>1, <2>2
<1>4. cp'[C].pc \in Ended \/ stray' => job_finished' = N
    BY DEF IInv, SignalOK
<1>5. Move(loc, k, b)[Bye] # Unborn => cp'[C].pc \in {"join", "save", "saved"}
    BY <1>3 DEF IInv, SignalOK
<1>6. /\ Move(loc, k, b)[Wake] \in {Unborn, Gone, <<"todo", C>>}
      /\ Move(loc, k, b)[Wake] # Unborn =>
            rd'[C].pc \in {"unlock", "done"} /\ job_finished' = N
    BY <1>2 DEF IInv, SignalOK
<1>7. QED BY <1>3, <1>4, <1>5, <1>6 DEF SignalOK

\* A thread takes a key into its hands, and gives one away.
LEMMA RdTake ==
    ASSUME NEW loc \in Locs, IInv(loc), NEW p \in Proc, NEW k \in Key, NEW s,
           \A r \in Proc : loc[k] # <<"rd", r>>, rd[p].pc \notin {"send", "swallow"},
           rd' = [rd EXCEPT ![p] = s], 
           \/ s.pc = "send" /\ k = JobOf(s.id)
           \/ s.pc = "swallow" /\ k = Bye
    PROVE  InRd(Move(loc, k, <<"rd", p>>))'
<1>1. <<"rd", p>> \in Anywhere
    BY DEF Anywhere, Place
<1>2. DOMAIN rd = Proc
    BY DEF IInv, TypeOK
<1>3. ASSUME NEW r \in Proc, NEW x \in Key
      PROVE  Move(loc, k, <<"rd", p>>)[x] = <<"rd", r>> <=> RdHolds(r, x)'
    <2>1. CASE x = k /\ r = p
        BY <1>1, <1>2, <2>1, Moved DEF RdHolds
    <2>2. CASE x = k /\ r # p
        <3>1. Move(loc, k, <<"rd", p>>)[x] # <<"rd", r>> /\ loc[x] # <<"rd", r>>
            BY <1>1, <2>2, Moved
        <3>2. QED BY <1>2, <2>2, <3>1 DEF IInv, InRd, RdHolds
    <2>3. CASE x # k
        <3>1. Move(loc, k, <<"rd", p>>)[x] = loc[x]
            BY <1>1, <2>3, Moved
        <3>2. QED BY <1>2, <2>3, <3>1 DEF IInv, InRd, RdHolds
    <2>4. QED BY <2>1, <2>2, <2>3
<1>4. QED BY <1>3 DEF InRd

LEMMA WrTake ==
    ASSUME NEW loc \in Locs, IInv(loc), NEW p \in Proc, NEW k \in Key, NEW s,
           \A r \in Proc : loc[k] # <<"wr", r>>, wr[p].pc \notin {"send"},
           wr' = [wr EXCEPT ![p] = s], s.pc = "send", k = JobOf(s.id)
    PROVE  InWr(Move(loc, k, <<"wr", p>>))'
<1>1. <<"wr", p>> \in Anywhere
    BY DEF Anywhere, Place
<1>2. DOMAIN wr = Proc
    BY DEF IInv, TypeOK
<1>3. ASSUME NEW r \in Proc, NEW x \in Key
      PROVE  Move(loc, k, <<"wr", p>>)[x] = <<"wr", r>> <=> wr'[r].pc = "send" /\ x = JobOf(wr'[r].id)
    <2>1. CASE x = k /\ r = p
        BY <1>1, <1>2, <2>1, Moved
    <2>2. CASE x = k /\ r # p
        <3>1. Move(loc, k, <<"wr", p>>)[x] # <<"wr", r>> /\ loc[x] # <<"wr", r>>
            BY <1>1, <2>2, Moved
        <3>2. QED BY <1>2, <2>2, <3>1 DEF IInv, InWr
    <2>3. CASE x # k
        <3>1. Move(loc, k, <<"wr", p>>)[x] = loc[x]
            BY <1>1, <2>3, Moved
        <3>2. QED BY <1>2, <2>3, <3>1 DEF IInv, InWr
    <2>4. QED BY <2>1, <2>2, <2>3
<1>4. QED BY <1>3 DEF InWr

LEMMA CpTake ==
    ASSUME NEW loc \in Locs, IInv(loc), NEW p \in Proc, NEW k \in Key, NEW s,
           \A r \in Proc : loc[k] # <<"cp", r>>, cp[p].pc \notin {"compute"},
           cp' = [cp EXCEPT ![p] = s], s.pc = "compute", k = JobOf(s.id)
    PROVE  InCp(Move(loc, k, <<"cp", p>>))'
<1>1. <<"cp", p>> \in Anywhere
    BY DEF Anywhere, Place
<1>2. DOMAIN cp = Proc
    BY DEF IInv, TypeOK
<1>3. ASSUME NEW r \in Proc, NEW x \in Key
      PROVE  Move(loc, k, <<"cp", p>>)[x] = <<"cp", r>> <=> cp'[r].pc = "compute" /\ x = JobOf(cp'[r].id)
    <2>1. CASE x = k /\ r = p
        BY <1>1, <1>2, <2>1, Moved
    <2>2. CASE x = k /\ r # p
        <3>1. Move(loc, k, <<"cp", p>>)[x] # <<"cp", r>> /\ loc[x] # <<"cp", r>>
            BY <1>1, <2>2, Moved
        <3>2. QED BY <1>2, <2>2, <3>1 DEF IInv, InCp
    <2>3. CASE x # k
        <3>1. Move(loc, k, <<"cp", p>>)[x] = loc[x]
            BY <1>1, <2>3, Moved
        <3>2. QED BY <1>2, <2>3, <3>1 DEF IInv, InCp
    <2>4. QED BY <2>1, <2>2, <2>3
<1>4. QED BY <1>3 DEF InCp

LEMMA RdLeave ==
    ASSUME NEW loc \in Locs, IInv(loc), NEW p \in Proc, NEW k \in Key, NEW s,
           RdHolds(p, k), rd' = [rd EXCEPT ![p] = s], s.pc \notin {"send", "swallow"},
           NEW b \in Anywhere, \A r \in Proc : b # <<"rd", r>>
    PROVE  loc[k] = <<"rd", p>> /\ InRd(Move(loc, k, b))'
<1>1. DOMAIN rd = Proc
    BY DEF IInv, TypeOK
<1>2. loc[k] = <<"rd", p>>
    BY DEF IInv, InRd, RdHolds
<1>3. ASSUME NEW r \in Proc, NEW x \in Key
      PROVE  Move(loc, k, b)[x] = <<"rd", r>> <=> RdHolds(r, x)'
    <2>1. CASE x = k
        <3>1. Move(loc, k, b)[x] # <<"rd", r>>
            BY <2>1, Moved
        <3>2. r # p => loc[x] # <<"rd", r>>
            BY <1>2, <2>1
        <3>3. QED BY <1>1, <3>1, <3>2 DEF IInv, InRd, RdHolds
    <2>2. CASE x # k
        <3>1. Move(loc, k, b)[x] = loc[x]
            BY <2>2, Moved
        <3>2. QED BY <1>1, <2>2, <3>1 DEF IInv, InRd, RdHolds
    <2>3. QED BY <2>1, <2>2
<1>4. QED BY <1>2, <1>3 DEF InRd

LEMMA WrLeave ==
    ASSUME NEW loc \in Locs, IInv(loc), NEW p \in Proc, NEW k \in Key, NEW s,
           wr[p].pc = "send" /\ k = JobOf(wr[p].id), wr' = [wr EXCEPT ![p] = s], s.pc \notin {"send"},
           NEW b \in Anywhere, \A r \in Proc : b # <<"wr", r>>
    PROVE  loc[k] = <<"wr", p>> /\ InWr(Move(loc, k, b))'
<1>1. DOMAIN wr = Proc
    BY DEF IInv, TypeOK
<1>2. loc[k] = <<"wr", p>>
    BY DEF IInv, InWr
<1>3. ASSUME NEW r \in Proc, NEW x \in Key
      PROVE  Move(loc, k, b)[x] = <<"wr", r>> <=> wr'[r].pc = "send" /\ x = JobOf(wr'[r].id)
    <2>1. CASE x = k
        <3>1. Move(loc, k, b)[x] # <<"wr", r>>
            BY <2>1, Moved
        <3>2. r # p => loc[x] # <<"wr", r>>
            BY <1>2, <2>1
        <3>3. QED BY <1>1, <3>1, <3>2 DEF IInv, InWr
    <2>2. CASE x # k
        <3>1. Move(loc, k, b)[x] = loc[x]
            BY <2>2, Moved
        <3>2. QED BY <1>1, <2>2, <3>1 DEF IInv, InWr
    <2>3. QED BY <2>1, <2>2
<1>4. QED BY <1>2, <1>3 DEF InWr

LEMMA CpLeave ==
    ASSUME NEW loc \in Locs, IInv(loc), NEW p \in Proc, NEW k \in Key, NEW s,
           cp[p].pc = "compute" /\ k = JobOf(cp[p].id), cp' = [cp EXCEPT ![p] = s], s.pc \notin {"compute"},
           NEW b \in Anywhere, \A r \in Proc : b # <<"cp", r>>
    PROVE  loc[k] = <<"cp", p>> /\ InCp(Move(loc, k, b))'
<1>1. DOMAIN cp = Proc
    BY DEF IInv, TypeOK
<1>2. loc[k] = <<"cp", p>>
    BY DEF IInv, InCp
<1>3. ASSUME NEW r \in Proc, NEW x \in Key
      PROVE  Move(loc, k, b)[x] = <<"cp", r>> <=> cp'[r].pc = "compute" /\ x = JobOf(cp'[r].id)
    <2>1. CASE x = k
        <3>1. Move(loc, k, b)[x] # <<"cp", r>>
            BY <2>1, Moved
        <3>2. r # p => loc[x] # <<"cp", r>>
            BY <1>2, <2>1
        <3>3. QED BY <1>1, <3>1, <3>2 DEF IInv, InCp
    <2>2. CASE x # k
        <3>1. Move(loc, k, b)[x] = loc[x]
            BY <2>2, Moved
        <3>2. QED BY <1>1, <2>2, <3>1 DEF IInv, InCp
    <2>3. QED BY <2>1, <2>2
<1>4. QED BY <1>2, <1>3 DEF InCp

\* A reader that has nothing in hand before and after the move of a key.
LEMMA RdIdle ==
    ASSUME NEW loc \in Locs, IInv(loc), NEW p \in Proc, NEW k \in Key, NEW s \in RdState,
           rd[p].pc \notin {"send", "swallow"}, s.pc \notin {"send", "swallow"},
           rd' = [rd EXCEPT ![p] = s], NEW b \in Anywhere, Off(loc, k, b, "rd")
    PROVE  rd' \in [Proc -> RdState] /\ InRd(Move(loc, k, b))'
<1> DEFINE m == Move(loc, k, b)
<1>1. rd \in [Proc -> RdState]
    BY DEF IInv, TypeOK
<1>2. ASSUME NEW r \in Proc, NEW x \in Key
      PROVE  m[x] = <<"rd", r>> <=> RdHolds(r, x)'
    <2>1. m[x] = <<"rd", r>> <=> loc[x] = <<"rd", r>>
        BY OffKept
    <2>2. RdHolds(r, x)' <=> RdHolds(r, x)
        BY <1>1 DEF RdHolds
    <2>3. QED BY <2>1, <2>2 DEF IInv, InRd
<1>3. QED BY <1>1, <1>2 DEF InRd

\* The queues of the programs: a pull and a push of job_todo and of job_tosend,
\* and a message that carries a job or the goodbye.
TodoPulled(loc, p, k, b) ==
    /\ Head(todo[p]) \in -1 .. N /\ k \in Key /\ loc[k] = <<"todo", p>>
    /\ Move(loc, k, b) \in Locs
    /\ todo' \in [Proc -> Seq(-1 .. N)] /\ Bounded' /\ InTodo(Move(loc, k, b))'

LEMMA TodoPull ==
    ASSUME NEW loc \in Locs, IInv(loc), NEW p \in Proc, todo[p] # <<>>,
           todo' = [todo EXCEPT ![p] = Tail(@)],
           NEW k, k = TodoKey[Head(todo[p])],
           NEW b \in Anywhere, \A r \in Proc : b # <<"todo", r>>
    PROVE  TodoPulled(loc, p, k, b)
<1>1. todo \in [Proc -> Seq(-1 .. N)] /\ InQueue(todo, TodoKey, "todo", loc)
    BY DEF IInv, TypeOK, InTodo
<1>2. todo[p] \in Seq(-1 .. N) /\ Len(todo[p]) <= N
    BY <1>1 DEF IInv, Bounded
<1>3. Head(todo[p]) \in -1 .. N /\ Len(Tail(todo[p])) <= N
    BY <1>2, Constants
<1>4. k # NoKey
    BY <1>3, KeyFacts
<1>5. /\ k \in Key /\ loc[k] = <<"todo", p>> /\ Move(loc, k, b) \in Locs
      /\ todo' \in [Proc -> Seq(-1 .. N)]
      /\ InQueue(todo', TodoKey, "todo", Move(loc, k, b))
    <2>1. Pulled(-1 .. N, todo, TodoKey, "todo", loc, p, k, b)
        BY <1>1, <1>4, QueuePull
    <2>2. QED BY <2>1 DEF Pulled
<1>6. Bounded'
    BY <1>1, <1>3 DEF IInv, Bounded
<1>7. QED BY <1>3, <1>5, <1>6 DEF InTodo, TodoPulled

TodoPushed(loc, p, k) ==
    /\ Move(loc, k, <<"todo", p>>) \in Locs
    /\ todo' \in [Proc -> Seq(-1 .. N)] /\ Bounded'
    /\ InTodo(Move(loc, k, <<"todo", p>>))'

LEMMA TodoPush ==
    ASSUME NEW loc \in Locs, IInv(loc), NEW p \in Proc, NEW e \in -1 .. N,
           Len(todo[p]) < N, todo' = [todo EXCEPT ![p] = Append(@, e)],
           NEW k \in Key, k = TodoKey[e], \A r \in Proc : loc[k] # <<"todo", r>>
    PROVE  TodoPushed(loc, p, k)
<1>1. todo \in [Proc -> Seq(-1 .. N)] /\ InQueue(todo, TodoKey, "todo", loc)
    BY DEF IInv, TypeOK, InTodo
<1>2. <<"todo", p>> \in Place
    BY DEF Place
<1>3. /\ Move(loc, k, <<"todo", p>>) \in Locs
      /\ todo' \in [Proc -> Seq(-1 .. N)]
      /\ InQueue(todo', TodoKey, "todo", Move(loc, k, <<"todo", p>>))
    <2>1. Pushed(-1 .. N, todo, TodoKey, "todo", loc, p, k, e)
        BY <1>1, <1>2, QueuePush
    <2>2. QED BY <2>1 DEF Pushed
<1>4. Len(Append(todo[p], e)) <= N
    BY <1>1, Constants
<1>5. Bounded'
    BY <1>1, <1>4 DEF IInv, Bounded
<1>6. QED BY <1>3, <1>5 DEF InTodo, TodoPushed

TosendPulled(loc, p, k, b) ==
    /\ Head(tosend[p]) \in -1 .. N /\ k \in Key /\ loc[k] = <<"tosend", p>>
    /\ Move(loc, k, b) \in Locs
    /\ tosend' \in [Proc -> Seq(-1 .. N)] /\ InTosend(Move(loc, k, b))'

LEMMA TosendPull ==
    ASSUME NEW loc \in Locs, IInv(loc), NEW p \in Proc, tosend[p] # <<>>,
           tosend' = [tosend EXCEPT ![p] = Tail(@)],
           NEW k, k = JobOf(Head(tosend[p])),
           NEW b \in Anywhere, \A r \in Proc : b # <<"tosend", r>>
    PROVE  TosendPulled(loc, p, k, b)
<1>1. tosend \in [Proc -> Seq(-1 .. N)] /\ InQueue(tosend, SendKey, "tosend", loc)
    BY DEF IInv, TypeOK, InTosend
<1>2. tosend[p] \in Seq(-1 .. N)
    BY <1>1
<1>3. Head(tosend[p]) \in -1 .. N
    BY <1>2, Constants
<1>4. k # NoKey /\ k = SendKey[Head(tosend[p])]
    BY <1>3, KeyFacts
<1>5. /\ k \in Key /\ loc[k] = <<"tosend", p>> /\ Move(loc, k, b) \in Locs
      /\ tosend' \in [Proc -> Seq(-1 .. N)]
      /\ InQueue(tosend', SendKey, "tosend", Move(loc, k, b))
    <2>1. Pulled(-1 .. N, tosend, SendKey, "tosend", loc, p, k, b)
        BY <1>1, <1>4, QueuePull
    <2>2. QED BY <2>1 DEF Pulled
<1>6. QED BY <1>3, <1>5 DEF InTosend, TosendPulled

TosendPushed(loc, p, k) ==
    /\ Move(loc, k, <<"tosend", p>>) \in Locs
    /\ tosend' \in [Proc -> Seq(-1 .. N)]
    /\ InTosend(Move(loc, k, <<"tosend", p>>))'

LEMMA TosendPush ==
    ASSUME NEW loc \in Locs, IInv(loc), NEW p \in Proc, NEW e \in -1 .. N,
           tosend' = [tosend EXCEPT ![p] = Append(@, e)],
           NEW k \in Key, k = JobOf(e), \A r \in Proc : loc[k] # <<"tosend", r>>
    PROVE  TosendPushed(loc, p, k)
<1>1. tosend \in [Proc -> Seq(-1 .. N)] /\ InQueue(tosend, SendKey, "tosend", loc)
    BY DEF IInv, TypeOK, InTosend
<1>2. <<"tosend", p>> \in Place /\ k = SendKey[e]
    BY KeyFacts DEF Place
<1>3. /\ Move(loc, k, <<"tosend", p>>) \in Locs
      /\ tosend' \in [Proc -> Seq(-1 .. N)]
      /\ InQueue(tosend', SendKey, "tosend", Move(loc, k, <<"tosend", p>>))
    <2>1. Pushed(-1 .. N, tosend, SendKey, "tosend", loc, p, k, e)
        BY <1>1, <1>2, QueuePush
    <2>2. QED BY <2>1 DEF Pushed
<1>4. QED BY <1>3 DEF InTosend, TosendPushed

DataIsRead(loc, p, k, b) ==
    /\ Head(net[p]) \in Msg /\ MsgFine(p, Head(net[p]))
    /\ k \in Key /\ loc[k] = <<"net", p>> /\ Move(loc, k, b) \in Locs
    /\ net' \in [Proc -> Seq(Msg)] /\ InNet(Move(loc, k, b))' /\ MsgOK'

LEMMA DataRead ==
    ASSUME NEW loc \in Locs, IInv(loc), NEW p \in Proc, Arrived(p, "data"), Consume(p),
           NEW k, k = JobOf(Head(net[p]).id),
           NEW b \in Anywhere, \A r \in Proc : b # <<"net", r>>
    PROVE  DataIsRead(loc, p, k, b)
<1>1. net \in [Proc -> Seq(Msg)] /\ InQueue(net, MsgKey, "net", loc)
    BY DEF IInv, TypeOK, InNet
<1>2. net[p] # <<>> /\ Head(net[p]).type = "data"
    BY DEF Arrived
<1>3. /\ Head(net[p]) \in Msg /\ MsgFine(p, Head(net[p]))
      /\ net' = [net EXCEPT ![p] = Tail(@)] /\ net' \in [Proc -> Seq(Msg)] /\ MsgOK'
    BY <1>2, MsgRead DEF IInv
<1>4. k = MsgKey[Head(net[p])] /\ k # NoKey
    BY <1>2, <1>3, KeyFacts
<1>5. /\ k \in Key /\ loc[k] = <<"net", p>> /\ Move(loc, k, b) \in Locs
      /\ InQueue(net', MsgKey, "net", Move(loc, k, b))
    <2>1. Pulled(Msg, net, MsgKey, "net", loc, p, k, b)
        BY <1>1, <1>2, <1>4, QueuePull
    <2>2. QED BY <1>3, <2>1 DEF Pulled
<1>6. QED BY <1>3, <1>5 DEF InNet, DataIsRead

\* Where a message goes: to the peer, or nowhere when the peer has ended.
Sent(p, b) == b = IF up[Other(p)] THEN <<"net", Other(p)>> ELSE Gone

DataIsSent(loc, p, k, b) ==
    /\ b \in Place \cup {Gone} /\ b \in {<<"net", Other(p)>>, Gone}
    /\ b = Gone => \E r \in Proc : ~up[r]
    /\ Move(loc, k, b) \in Locs
    /\ net' \in [Proc -> Seq(Msg)] /\ InNet(Move(loc, k, b))' /\ MsgOK'

LEMMA DataSent ==
    ASSUME NEW loc \in Locs, IInv(loc), NEW p \in Proc, NEW msg \in Msg,
           msg.type = "data", MsgFine(Other(p), msg), Put(p, msg),
           NEW k \in Key, k = JobOf(msg.id), \A r \in Proc : loc[k] # <<"net", r>>,
           loc[k] # Gone, NEW b, Sent(p, b)
    PROVE  DataIsSent(loc, p, k, b)
<1>1. net \in [Proc -> Seq(Msg)] /\ InQueue(net, MsgKey, "net", loc) /\ Other(p) \in Proc
    BY Constants DEF IInv, TypeOK, InNet, Other
<1>2. net' \in [Proc -> Seq(Msg)] /\ MsgOK'
    BY MsgSent DEF IInv
<1>3. k = MsgKey[msg]
    BY KeyFacts
<1>4. /\ b \in Place \cup {Gone} /\ b \in {<<"net", Other(p)>>, Gone}
      /\ b = Gone => ~up[Other(p)]
    BY <1>1 DEF Sent, Place, Gone
<1>5. /\ Move(loc, k, b) \in Locs
      /\ InQueue(net', MsgKey, "net", Move(loc, k, b))
    <2>1. CASE up[Other(p)]
        <3>1. b = <<"net", Other(p)>> /\ b \in Place
            BY <1>1, <2>1 DEF Sent, Place
        <3>2. net' = [net EXCEPT ![Other(p)] = Append(@, msg)]
            BY <2>1 DEF Put
        <3>3. /\ Move(loc, k, <<"net", Other(p)>>) \in Locs
              /\ InQueue([net EXCEPT ![Other(p)] = Append(@, msg)], MsgKey, "net",
                         Move(loc, k, <<"net", Other(p)>>))
            <4>1. Pushed(Msg, net, MsgKey, "net", loc, Other(p), k, msg)
                BY <1>1, <1>3, <3>1, QueuePush
            <4>2. QED BY <4>1 DEF Pushed
        <3>4. QED BY <3>1, <3>2, <3>3
    <2>2. CASE ~up[Other(p)]
        <3>1. b = Gone /\ net' = net /\ b \in Anywhere
            BY <2>2 DEF Sent, Put, Anywhere
        <3>2. \A r \in Proc : b # <<"net", r>>
            BY <3>1 DEF Gone
        <3>3. InQueue(net, MsgKey, "net", Move(loc, k, b))
            BY <1>1, <3>1, <3>2, QueueKept
        <3>4. QED BY <3>1, <3>3, Moved
    <2>3. QED BY <2>1, <2>2
<1>6. QED BY <1>1, <1>2, <1>4, <1>5 DEF InNet, DataIsSent

LEMMA Assemble ==
    ASSUME NEW m \in Locs, TypeOK', Bounded', InTodo(m)', InTosend(m)', InNet(m)',
           InRd(m)', InWr(m)', InCp(m)', CountOK(m)', SignalOK(m)', ArrayOK(m)', MsgOK'
    PROVE  Inv'
<1>1. IInv(m)'
    BY DEF IInv
<1>2. QED BY <1>1 DEF Inv

\* A step that moves a key from one place to another, or to a closed socket.
LEMMA Hop ==
    ASSUME NEW loc \in Locs, IInv(loc), NEW k \in Key, loc[k] \in Place, k # Wake,
           NEW b \in Place \cup {Gone}, k \in Job /\ b = Gone => \E p \in Proc : ~up[p],
           UNCHANGED <<up, job_finished, stray>>, TypeOK', Bounded', MsgOK',
           LET m == Move(loc, k, b)
           IN  /\ InTodo(m)' /\ InTosend(m)' /\ InNet(m)'
               /\ InRd(m)' /\ InWr(m)' /\ InCp(m)' /\ ArrayOK(m)'
               /\ wr'[S].pc = "bye" => m[Bye] \in {<<"net", C>>, <<"rd", C>>, Gone},
           cp'[C].pc \in Ended => cp[C].pc \in Ended \/ job_finished = N,
           cp[C].pc \in {"join", "save", "saved"} => UNCHANGED cp[C],
           cp'[S].pc \in {"pull", "compute"},
           rd[C].pc \in {"unlock", "done"} => UNCHANGED rd[C]
    PROVE  Inv'
<1>1. CountOK(Move(loc, k, b))'
    BY MoveCount
<1>2. SignalOK(Move(loc, k, b))'
    BY MoveSignals
<1>3. Move(loc, k, b) \in Locs
    BY Moved DEF Anywhere
<1>4. QED BY <1>1, <1>2, <1>3, Assemble

\* The client's main thread pulls a job, or the reader's -1.
LEMMA MainPullStep ==
    ASSUME NEW loc \in Locs, IInv(loc), MainPull
    PROVE  Inv'
<1>1. PICK k : k = TodoKey[Head(todo[C])]
    OBVIOUS
<1>2. /\ todo[C] # <<>> /\ todo' = [todo EXCEPT ![C] = Tail(@)] /\ cp[C].pc = "pull"
      /\ cp' = [cp EXCEPT ![C] = IF Head(todo[C]) = AllDone THEN At("continue")
                                 ELSE Holding("compute", Head(todo[C]))]
      /\ UNCHANGED <<up, tosend, arr, net, peer_known, rebalance_requested,
                     rd, wr, sm, reports, job_finished, mutex, stray>>
    BY DEF MainPull, MainGoto, clientVars
<1>3. cp \in [Proc -> CpState] /\ MsgOK'
    BY <1>2, NetKept DEF IInv, TypeOK
<1>4. CASE Head(todo[C]) = AllDone
    <2>0. PICK b : b = Gone
        OBVIOUS
    <2> DEFINE m == Move(loc, k, b)
    <2>1. b \in Anywhere /\ (\A r \in Proc : b # <<"todo", r>>)
        BY <2>0 DEF Anywhere, Gone
    <2>2. /\ Head(todo[C]) \in -1 .. N /\ k \in Key /\ loc[k] = <<"todo", C>>
          /\ m \in Locs
          /\ todo' \in [Proc -> Seq(-1 .. N)] /\ Bounded' /\ InTodo(m)'
        <3>1. TodoPulled(loc, C, k, b)
            BY <1>1, <1>2, <2>1, Constants, TodoPull
        <3>2. QED BY <3>1 DEF TodoPulled
    <2>3. k = Wake
        BY <1>1, <1>4, <2>2, KeyFacts
    <2>4. /\ Off(loc, k, b, "tosend") /\ Off(loc, k, b, "net") /\ Off(loc, k, b, "rd")
          /\ Off(loc, k, b, "wr") /\ Off(loc, k, b, "cp") /\ loc[k] # b
        BY <2>0, <2>2 DEF Off, Gone
    <2>5. InTosend(m)' /\ InNet(m)' /\ InRd(m)' /\ InWr(m)'
        BY <1>2, <2>1, <2>2, <2>4, MoveKept
    <2>6. At("continue") \in CpState /\ At("continue").pc = "continue"
        BY Constants DEF At, CpState
    <2>7. cp' = [cp EXCEPT ![C] = At("continue")] /\ cp' \in [Proc -> CpState]
        BY <1>2, <1>3, <1>4, <2>6
    <2>8. TypeOK'
        BY <1>2, <2>2, <2>7 DEF IInv, TypeOK
    <2>9. InCp(m)'
        <3>1. ASSUME NEW r \in Proc, NEW x \in Key
              PROVE  m[x] = <<"cp", r>> <=> cp'[r].pc = "compute" /\ x = JobOf(cp'[r].id)
            <4>1. m[x] = <<"cp", r>> <=> loc[x] = <<"cp", r>>
                BY <2>1, <2>2, <2>4, OffKept
            <4>2. cp'[r].pc = "compute" /\ x = JobOf(cp'[r].id)
                    <=> cp[r].pc = "compute" /\ x = JobOf(cp[r].id)
                BY <1>2, <1>3, <2>6, <2>7
            <4>3. QED BY <4>1, <4>2 DEF IInv, InCp
        <3>2. QED BY <3>1 DEF InCp
    <2>10. job_finished = N /\ rd[C].pc \in {"unlock", "done"}
        BY <2>2, <2>3 DEF IInv, SignalOK, Unborn
    <2>11. CountOK(m)'
        <3>1. loc[k] \in Place
            BY <2>2, Constants DEF Place
        <3>2. k \notin Job /\ b \in Place \cup {Gone}
            BY <2>0, <2>3, KeyFacts
        <3>3. QED BY <1>2, <2>2, <3>1, <3>2, MoveCount
    <2>12. SignalOK(m)'
        <3>1. m[Bye] = loc[Bye] /\ m[Wake] = Gone
            BY <2>0, <2>1, <2>2, <2>3, KeyFacts, Moved
        <3>2. cp'[C].pc = "continue" /\ cp'[S] = cp[S]
            BY <1>3, <2>6, <2>7, Constants
        <3>3. loc[Bye] = Unborn
            BY <1>2 DEF IInv, SignalOK
        <3> HIDE DEF m
        <3>4. QED BY <1>2, <2>10, <3>1, <3>2, <3>3 DEF IInv, SignalOK
    <2>13. ArrayOK(m)'
        <3>1. loc[k] \in Place
            BY <2>2, Constants DEF Place
        <3>2. b \notin Uncomputed /\ b \notin Computed /\ b \in Place \cup {Gone}
            BY <2>0 DEF Gone, Uncomputed, Computed
        <3>3. QED BY <1>2, <2>2, <3>1, <3>2, MoveArrays
    <2> HIDE DEF m
    <2>14. QED BY <1>3, <2>2, <2>5, <2>8, <2>9, <2>11, <2>12, <2>13, Assemble
<1>5. CASE Head(todo[C]) # AllDone
    <2> DEFINE b == <<"cp", C>>
               m == Move(loc, k, b)
    <2>1. b \in Place /\ b \in Anywhere /\ (\A r \in Proc : b # <<"todo", r>>)
        BY Constants DEF Anywhere, Place
    <2>2. /\ Head(todo[C]) \in -1 .. N /\ k \in Key /\ loc[k] = <<"todo", C>>
          /\ m \in Locs
          /\ todo' \in [Proc -> Seq(-1 .. N)] /\ Bounded' /\ InTodo(m)'
        <3>1. TodoPulled(loc, C, k, b)
            BY <1>1, <1>2, <2>1, Constants, TodoPull
        <3>2. QED BY <3>1 DEF TodoPulled
    <2>3. k \in Job /\ k = JobOf(Head(todo[C])) /\ k # Wake /\ k # Bye /\ Head(todo[C]) \in 0 .. N
        <3>1. Head(todo[C]) \in 0 .. N
            BY <1>5, <2>2, Constants DEF AllDone
        <3>2. QED BY <1>1, <1>5, <2>2, <3>1, KeyFacts
    <2>4. /\ Off(loc, k, b, "tosend") /\ Off(loc, k, b, "net") /\ Off(loc, k, b, "rd")
          /\ Off(loc, k, b, "wr") /\ loc[k] # b /\ \A r \in Proc : loc[k] # <<"cp", r>>
        BY <2>2 DEF Off
    <2>5. InTosend(m)' /\ InNet(m)' /\ InRd(m)' /\ InWr(m)'
        BY <1>2, <2>1, <2>2, <2>4, MoveKept
    <2>6. PICK s \in CpState : s.pc = "compute" /\ s.id = Head(todo[C]) /\ cp' = [cp EXCEPT ![C] = s]
        <3>1. Holding("compute", Head(todo[C])) \in CpState
            BY <2>3 DEF Holding, CpState
        <3>2. QED BY <1>2, <1>5, <3>1 DEF Holding
    <2>7. cp' \in [Proc -> CpState] /\ cp'[C] = s /\ cp'[S] = cp[S]
        BY <1>3, <2>6, Constants
    <2>8. TypeOK'
        BY <1>2, <2>2, <2>7 DEF IInv, TypeOK
    <2>9. InCp(m)'
        BY <1>2, <2>2, <2>3, <2>4, <2>6, Constants, CpTake
    <2>10. loc[k] \in Place /\ b # Gone
        BY <2>2, Constants DEF Place, Gone
    <2>11. ArrayOK(m)'
        <3>1. b \notin Uncomputed /\ b \notin Computed
            BY Constants DEF Uncomputed, Computed
        <3>2. QED BY <1>2, <2>1, <2>2, <2>10, <3>1, MoveArrays
    <2>12. wr'[S].pc = "bye" => m[Bye] \in {<<"net", C>>, <<"rd", C>>, Gone}
        <3>1. m[Bye] = loc[Bye]
            BY <2>1, <2>2, <2>3, KeyFacts, Moved
        <3>2. QED BY <1>2, <3>1 DEF IInv, SignalOK
    <2>13. cp'[C].pc \notin Ended /\ cp'[S].pc \in {"pull", "compute"}
        BY <2>6, <2>7 DEF Ended, IInv, SignalOK
    <2>14. UNCHANGED rd[C] /\ cp[C].pc \notin {"join", "save", "saved"}
        BY <1>2
    <2>15. QED BY <1>2, <1>3, <2>1, <2>2, <2>3, <2>5, <2>8, <2>9, <2>10, <2>11, <2>12,
                  <2>13, <2>14, Hop
<1>6. QED BY <1>4, <1>5

\* A writer pulls a job, or the goodbye.
LEMMA WriterPullStep ==
    ASSUME NEW loc \in Locs, IInv(loc), UNCHANGED clientVars, WriterPull \/ ResultPull
    PROVE  Inv'
<1>1. PICK p \in Proc :
        /\ tosend[p] # <<>> /\ tosend' = [tosend EXCEPT ![p] = Tail(@)] /\ wr[p].pc = "pull"
        /\ wr' = [wr EXCEPT ![p] = Holding("send", Head(tosend[p]))]
        /\ UNCHANGED <<up, todo, arr, net, peer_known, rebalance_requested,
                       rd, cp, sm, reports, job_finished, mutex, stray>>
    BY Constants DEF WriterPull, ResultPull, clientVars
<1>2. PICK k : k = JobOf(Head(tosend[p]))
    OBVIOUS
<1> DEFINE b == <<"wr", p>>
           m == Move(loc, k, b)
<1>3. b \in Place /\ b \in Anywhere /\ (\A r \in Proc : b # <<"tosend", r>>) /\ b # Gone
    BY DEF Anywhere, Place, Gone
<1>4. TosendPulled(loc, p, k, b)
    BY <1>1, <1>2, <1>3, TosendPull
<1>5. /\ Head(tosend[p]) \in -1 .. N /\ k \in Key /\ loc[k] = <<"tosend", p>>
      /\ tosend' \in [Proc -> Seq(-1 .. N)] /\ InTosend(m)'
    BY <1>4 DEF TosendPulled
<1>6. /\ Off(loc, k, b, "todo") /\ Off(loc, k, b, "net") /\ Off(loc, k, b, "rd")
      /\ Off(loc, k, b, "cp") /\ loc[k] # b /\ \A r \in Proc : loc[k] # <<"wr", r>>
    BY <1>5 DEF Off
<1>7. InTodo(m)' /\ InNet(m)' /\ InRd(m)' /\ InCp(m)'
    BY <1>1, <1>3, <1>5, <1>6, MoveKept
<1>8. PICK s \in WrState :
        s.pc = "send" /\ k = JobOf(s.id) /\ wr' = [wr EXCEPT ![p] = s]
    <2>1. Holding("send", Head(tosend[p])) \in WrState
        BY <1>5 DEF Holding, WrState
    <2>2. QED BY <1>1, <1>2, <2>1 DEF Holding
<1>9. wr \in [Proc -> WrState] /\ wr' \in [Proc -> WrState]
    BY <1>8 DEF IInv, TypeOK
<1>10. TypeOK' /\ Bounded' /\ MsgOK'
    BY <1>1, <1>5, <1>9, NetKept DEF IInv, TypeOK, Bounded
<1>11. InWr(m)'
    <2>1. wr[p].pc \notin {"send"}
        BY <1>1
    <2>2. QED BY <1>5, <1>6, <1>8, <2>1, WrTake
<1>12. loc[k] \in Place /\ loc[k] \notin {Unborn, Gone}
    BY <1>5 DEF Place, Unborn, Gone
<1>13. k # Wake
    BY <1>5, <1>6 DEF IInv, SignalOK, Unborn, Gone
<1>14. ArrayOK(m)'
    <2>1. b \in Computed => loc[k] \in Computed
        BY <1>5 DEF Computed
    <2>2. b \notin Uncomputed
        BY DEF Uncomputed
    <2>3. QED BY <1>1, <1>3, <1>5, <1>12, <2>1, <2>2, MoveArrays
<1>15. wr'[S].pc = "bye" => m[Bye] \in {<<"net", C>>, <<"rd", C>>, Gone}
    <2>1. wr'[S].pc = "bye" => wr[S].pc = "bye"
        BY <1>8, <1>9, Constants
    <2>2. k = Bye => wr[S].pc # "bye"
        BY <1>5 DEF IInv, SignalOK, Gone
    <2>3. k # Bye => m[Bye] = loc[Bye]
        BY <1>3, <1>5, KeyFacts, Moved
    <2>4. QED BY <2>1, <2>2, <2>3 DEF IInv, SignalOK
<1>16. UNCHANGED <<cp[C], rd[C]>> /\ cp'[S].pc \in {"pull", "compute"}
    BY <1>1 DEF IInv, SignalOK
<1>17. QED BY <1>1, <1>3, <1>5, <1>7, <1>10, <1>11, <1>12, <1>13, <1>14, <1>15, <1>16, Hop

\* transfer: what is sent to the server was not computed, and a result that is
\* sent to the client was computed once.
LEMMA Transfer ==
    ASSUME NEW loc \in Locs, IInv(loc), NEW p \in Proc, NEW id \in Id, transfer(p, id),
           NEW k \in Key, k = JobOf(id), loc[k] \in {<<"wr", p>>, <<"rd", p>>},
           p = S /\ id \in 1 .. N - 1 => loc[k] = <<"wr", p>>,
           NEW b, Sent(p, b)
    PROVE  DataIsSent(loc, p, k, b)
<1>1. PICK msg : msg = IF id = AllDone THEN DataMsg(AllDone, 0)
                       ELSE DataMsg(id, arr[p][create_message(id)])
    OBVIOUS
<1>2. Put(p, msg)
    BY <1>1 DEF transfer
<1>3. arr \in [Proc -> [0 .. N -> Value]]
    BY DEF IInv, TypeOK
<1>4. id # AllDone => id \in 0 .. 2 * N /\ create_message(id) \in 0 .. N
    <2>1. id # AllDone => id \in 0 .. 2 * N
        BY Constants DEF Id, AllDone
    <2>2. QED BY <2>1, JobOfFacts
<1>5. msg.type = "data" /\ msg.id = id /\ (id # AllDone => msg.val = arr[p][create_message(id)])
    BY <1>1 DEF DataMsg
<1>6. msg \in Msg
    <2>1. CASE id = AllDone
        BY <1>1, <2>1 DEF DataMsg, Msg, Value
    <2>2. CASE id # AllDone
        <3>1. arr[p][create_message(id)] \in Value
            BY <1>3, <1>4, <2>2
        <3>2. QED BY <1>1, <2>2, <3>1 DEF DataMsg, Msg
    <2>3. QED BY <2>1, <2>2
<1>7. MsgFine(Other(p), msg)
    <2>1. SUFFICES ASSUME k \in 1 .. N - 1, id # AllDone
                   PROVE  /\ p = C => arr[C][k] = 0
                          /\ p = S /\ id \in 1 .. N - 1 => arr[S][k] = 1
        <3>1. id = AllDone => k \notin 1 .. N - 1 /\ id \notin 1 .. N - 1
            BY JobOfFacts DEF AllDone, Bye
        <3>2. id # AllDone /\ k \in 1 .. N - 1 => create_message(id) = k
            BY <1>4, JobOfFacts
        <3>3. id \in 1 .. N - 1 => k = id
            BY Constants DEF JobOf
        <3>4. p = C \/ p = S
            BY Constants
        <3>5. QED BY <1>5, <3>1, <3>2, <3>3, <3>4, Constants DEF MsgFine
    <2>2. loc[k] # Counted
        BY DEF Counted
    <2>3. QED BY <2>1, <2>2 DEF IInv, ArrayOK
<1>8. (\A r \in Proc : loc[k] # <<"net", r>>) /\ loc[k] # Gone
    BY DEF Gone
<1>9. QED BY <1>2, <1>5, <1>6, <1>7, <1>8, DataSent

LEMMA TransferLoc ==
    ASSUME NEW loc \in Locs, NEW p \in Proc, NEW k, loc[k] \in {<<"wr", p>>, <<"rd", p>>},
           NEW b, Sent(p, b)
    PROVE  /\ b \in Anywhere /\ b \notin Uncomputed /\ b \notin Computed /\ loc[k] # b
           /\ loc[k] \in Place /\ loc[k] \notin {Unborn, Gone, <<"todo", C>>}
           /\ Off(loc, k, b, "todo") /\ Off(loc, k, b, "tosend") /\ Off(loc, k, b, "cp")
           /\ loc[k] = <<"wr", p>> => Off(loc, k, b, "rd")
           /\ loc[k] = <<"rd", p>> => Off(loc, k, b, "wr")
           /\ \A r \in Proc : b # <<"rd", r>> /\ b # <<"wr", r>>
<1>1. Other(p) \in Proc
    BY Constants DEF Other
<1>2. b = <<"net", Other(p)>> \/ b = Gone
    BY DEF Sent
<1>3. b \in Anywhere /\ b \notin Uncomputed /\ b \notin Computed
    BY <1>1, <1>2 DEF Anywhere, Place, Uncomputed, Computed, Gone
<1>4. loc[k] \in Place /\ loc[k] \notin {Unborn, Gone, <<"todo", C>>} /\ loc[k] # b
    BY <1>2 DEF Place, Unborn, Gone
<1>5. /\ Off(loc, k, b, "todo") /\ Off(loc, k, b, "tosend") /\ Off(loc, k, b, "cp")
      /\ loc[k] = <<"wr", p>> => Off(loc, k, b, "rd")
      /\ loc[k] = <<"rd", p>> => Off(loc, k, b, "wr")
      /\ \A r \in Proc : b # <<"rd", r>> /\ b # <<"wr", r>>
    BY <1>2 DEF Off, Gone
<1>6. QED BY <1>3, <1>4, <1>5

\* A writer sends what it has in hand.
LEMMA WriterSendStep ==
    ASSUME NEW loc \in Locs, IInv(loc), UNCHANGED clientVars, WriterSend \/ ResultSend
    PROVE  Inv'
<1>1. PICK p \in Proc, pc \in {"top", "pull", "bye"} :
        /\ wr[p].pc = "send" /\ transfer(p, wr[p].id) /\ wr' = [wr EXCEPT ![p] = At(pc)]
        /\ pc = "bye" => p = S /\ wr[p].id = AllDone
        /\ UNCHANGED <<up, todo, tosend, arr, peer_known, rebalance_requested,
                       rd, cp, sm, reports, job_finished, mutex, stray>>
    BY Constants DEF WriterSend, ResultSend, clientVars
<1>2. PICK k : k = JobOf(wr[p].id)
    OBVIOUS
<1>3. PICK b : Sent(p, b)
    BY DEF Sent
<1> DEFINE m == Move(loc, k, b)
<1>4. wr \in [Proc -> WrState] /\ wr[p].id \in -1 .. N /\ wr[p].id \in Id
    <2>1. wr \in [Proc -> WrState]
        BY DEF IInv, TypeOK
    <2>2. wr[p].id \in -1 .. N
        BY <2>1 DEF WrState
    <2>3. QED BY <2>1, <2>2, Constants DEF Id
<1>5. k \in Key
    BY <1>2, <1>4, KeyFacts
<1>6. loc[k] = <<"wr", p>>
    BY <1>1, <1>2, <1>5 DEF IInv, InWr
<1>7. DataIsSent(loc, p, k, b)
    BY <1>1, <1>2, <1>3, <1>4, <1>5, <1>6, Transfer
<1>8. /\ b \in Place \cup {Gone} /\ b \in {<<"net", Other(p)>>, Gone}
      /\ b = Gone => \E r \in Proc : ~up[r]
      /\ net' \in [Proc -> Seq(Msg)] /\ InNet(m)' /\ MsgOK'
    BY <1>7 DEF DataIsSent
<1>9. /\ b \in Anywhere /\ b \notin Uncomputed /\ b \notin Computed /\ loc[k] # b
      /\ loc[k] \in Place /\ loc[k] \notin {Unborn, Gone, <<"todo", C>>}
      /\ Off(loc, k, b, "todo") /\ Off(loc, k, b, "tosend") /\ Off(loc, k, b, "cp")
      /\ Off(loc, k, b, "rd") /\ \A r \in Proc : b # <<"wr", r>>
    BY <1>3, <1>6, TransferLoc
<1>10. InTodo(m)' /\ InTosend(m)' /\ InRd(m)' /\ InCp(m)'
    BY <1>1, <1>5, <1>9, MoveKept
<1>11. At(pc) \in WrState /\ At(pc).pc = pc
    BY Constants DEF At, WrState
<1>12. wr' \in [Proc -> WrState]
    BY <1>1, <1>4, <1>11
<1>13. TypeOK' /\ Bounded'
    BY <1>1, <1>8, <1>12 DEF IInv, TypeOK, Bounded
<1>14. InWr(m)'
    <2>1. At(pc).pc \notin {"send"}
        BY <1>11
    <2>2. QED BY <1>1, <1>2, <1>5, <1>9, <2>1, WrLeave
<1>15. ArrayOK(m)'
    BY <1>1, <1>5, <1>8, <1>9, MoveArrays
<1>16. k # Wake
    BY <1>9 DEF IInv, SignalOK
<1>17. wr'[S].pc = "bye" => m[Bye] \in {<<"net", C>>, <<"rd", C>>, Gone}
    <2>1. CASE p = S
        <3>1. wr'[S].pc = pc
            BY <1>1, <1>4, <1>11, <2>1
        <3>2. pc = "bye" => k = Bye
            BY <1>1, <1>2, JobOfFacts
        <3>3. b \in {<<"net", C>>, Gone}
            BY <1>8, <2>1, Constants
        <3>4. k = Bye => m[Bye] = b
            BY <1>5, <1>9, Moved
        <3>5. QED BY <3>1, <3>2, <3>3, <3>4
    <2>2. CASE p # S
        <3>1. wr'[S] = wr[S]
            BY <1>1, <1>4, <2>2, Constants
        <3>2. k = Bye => wr[S].pc # "bye"
            BY <1>6, <1>9 DEF IInv, SignalOK
        <3>3. k # Bye => m[Bye] = loc[Bye]
            BY <1>5, <1>9, KeyFacts, Moved
        <3>4. QED BY <3>1, <3>2, <3>3 DEF IInv, SignalOK
    <2>3. QED BY <2>1, <2>2
<1>18. UNCHANGED <<cp[C], rd[C]>> /\ cp'[S].pc \in {"pull", "compute"}
    BY <1>1 DEF IInv, SignalOK
<1>19. QED BY <1>1, <1>5, <1>8, <1>9, <1>10, <1>13, <1>14, <1>15, <1>16, <1>17, <1>18, Hop

\* What the adaptor and the server's worker pull is a job: the reader's -1 is in
\* the client's job_todo only after the reader has left its loop.
LEMMA PulledIsJob ==
    ASSUME NEW loc \in Locs, IInv(loc), NEW p \in Proc, NEW id \in -1 .. N,
           loc[TodoKey[id]] = <<"todo", p>>,
           p = S \/ rd[C].pc \notin {"unlock", "done"}
    PROVE  id \in 0 .. N /\ TodoKey[id] = JobOf(id) /\ JobOf(id) \in Job
<1>1. id # AllDone
    <2>1. SUFFICES ASSUME id = AllDone PROVE FALSE
        OBVIOUS
    <2>2. TodoKey[id] = Wake
        BY <2>1, KeyFacts
    <2>3. QED BY <2>2, Constants DEF IInv, SignalOK, Unborn, Gone
<1>2. id \in 0 .. N
    BY <1>1, Constants DEF AllDone
<1>3. QED BY <1>1, <1>2, KeyFacts

\* The adaptor pulls a job that it will send.
LEMMA AdaptorPullStep ==
    ASSUME NEW loc \in Locs, IInv(loc), UNCHANGED clientVars,
           NEW p \in Proc, AdaptorPull(p)
    PROVE  Inv'
<1>1. /\ todo[p] # <<>> /\ todo' = [todo EXCEPT ![p] = Tail(@)] /\ rd[p].pc = "pull"
      /\ rd' = [rd EXCEPT ![p] = Moving("send", Head(todo[p]), @.k)]
      /\ UNCHANGED <<up, tosend, arr, net, peer_known, rebalance_requested,
                     wr, cp, sm, reports, job_finished, mutex, stray>>
    BY DEF AdaptorPull, clientVars
<1>2. PICK k : k = TodoKey[Head(todo[p])]
    OBVIOUS
<1> DEFINE b == <<"rd", p>>
           m == Move(loc, k, b)
<1>3. b \in Place /\ b \in Anywhere /\ (\A r \in Proc : b # <<"todo", r>>) /\ b # Gone
    BY DEF Anywhere, Place, Gone
<1>4. TodoPulled(loc, p, k, b)
    BY <1>1, <1>2, <1>3, TodoPull
<1>5. /\ Head(todo[p]) \in -1 .. N /\ k \in Key /\ loc[k] = <<"todo", p>>
      /\ todo' \in [Proc -> Seq(-1 .. N)] /\ Bounded' /\ InTodo(m)'
    BY <1>4 DEF TodoPulled
<1>6. Head(todo[p]) \in 0 .. N /\ k = JobOf(Head(todo[p])) /\ k \in Job
    <2>1. p = S \/ rd[C].pc \notin {"unlock", "done"}
        BY <1>1, Constants
    <2>2. QED BY <1>2, <1>5, <2>1, PulledIsJob
<1>7. k # Wake /\ k # Bye
    BY <1>6, KeyFacts
<1>8. /\ Off(loc, k, b, "tosend") /\ Off(loc, k, b, "net") /\ Off(loc, k, b, "wr")
      /\ Off(loc, k, b, "cp") /\ loc[k] # b /\ \A r \in Proc : loc[k] # <<"rd", r>>
    BY <1>5 DEF Off
<1>9. InTosend(m)' /\ InNet(m)' /\ InWr(m)' /\ InCp(m)'
    BY <1>1, <1>3, <1>5, <1>8, MoveKept
<1>10. rd \in [Proc -> RdState]
    BY DEF IInv, TypeOK
<1>11. PICK s \in RdState :
        s.pc = "send" /\ k = JobOf(s.id) /\ rd' = [rd EXCEPT ![p] = s]
    <2>1. rd[p].k \in 0 .. N
        BY <1>10 DEF RdState
    <2>2. Moving("send", Head(todo[p]), rd[p].k) \in RdState
        BY <1>6, <2>1 DEF Moving, RdState
    <2>3. rd' = [rd EXCEPT ![p] = Moving("send", Head(todo[p]), rd[p].k)]
        BY <1>1, <1>10
    <2>4. QED BY <1>6, <2>2, <2>3 DEF Moving
<1>12. rd' \in [Proc -> RdState]
    BY <1>10, <1>11
<1>13. TypeOK' /\ MsgOK'
    BY <1>1, <1>5, <1>12, NetKept DEF IInv, TypeOK
<1>14. InRd(m)'
    <2>1. rd[p].pc \notin {"send", "swallow"}
        BY <1>1
    <2>2. QED BY <1>5, <1>8, <1>11, <2>1, RdTake
<1>15. loc[k] \in Place
    BY <1>5 DEF Place
<1>16. ArrayOK(m)'
    <2>1. b \in Uncomputed => loc[k] \in Uncomputed
        BY <1>5 DEF Uncomputed
    <2>2. b \notin Computed
        BY DEF Computed
    <2>3. QED BY <1>1, <1>3, <1>5, <1>15, <2>1, <2>2, MoveArrays
<1>17. wr'[S].pc = "bye" => m[Bye] \in {<<"net", C>>, <<"rd", C>>, Gone}
    <2>1. m[Bye] = loc[Bye]
        BY <1>3, <1>5, <1>7, KeyFacts, Moved
    <2>2. QED BY <1>1, <2>1 DEF IInv, SignalOK
<1>18. UNCHANGED cp[C] /\ cp'[S].pc \in {"pull", "compute"}
    BY <1>1 DEF IInv, SignalOK
<1>19. rd[C].pc \in {"unlock", "done"} => UNCHANGED rd[C]
    BY <1>1, <1>10, <1>11, Constants
<1>20. QED BY <1>1, <1>3, <1>5, <1>7, <1>9, <1>13, <1>14, <1>15, <1>16, <1>17, <1>18, <1>19, Hop

\* The adaptor sends the job, marked as "not computed".
LEMMA AdaptorSendStep ==
    ASSUME NEW loc \in Locs, IInv(loc), UNCHANGED clientVars,
           NEW p \in Proc, NEW loop \in {"top", "read"}, AdaptorSend(p, loop)
    PROVE  Inv'
<1>1. /\ rd[p].pc = "send" /\ transfer(p, N + rd[p].id)
      /\ rd' = [rd EXCEPT ![p] =
                    IF @.k > 1 THEN Moving("pull", 0, @.k - 1) ELSE RdAt(loop)]
      /\ UNCHANGED <<up, todo, tosend, arr, peer_known, rebalance_requested,
                     wr, cp, sm, reports, job_finished, mutex, stray>>
    BY DEF AdaptorSend, clientVars
<1>2. rd \in [Proc -> RdState] /\ rd[p].id \in 0 .. N /\ rd[p].k \in 0 .. N
    BY DEF IInv, TypeOK, RdState
<1>3. PICK k : k = JobOf(rd[p].id)
    OBVIOUS
<1>4. PICK b : Sent(p, b)
    BY DEF Sent
<1> DEFINE m == Move(loc, k, b)
<1>5. N + rd[p].id \in 0 .. 2 * N /\ k = JobOf(N + rd[p].id) /\ k \in Job
    BY <1>2, <1>3, JobOfFacts
<1>6. N + rd[p].id \in Id /\ k \in Key /\ k # Wake /\ k # Bye
    BY <1>5, Constants, KeyFacts DEF Id
<1>7. RdHolds(p, k) /\ loc[k] = <<"rd", p>>
    BY <1>1, <1>3, <1>6 DEF IInv, InRd, RdHolds
<1>8. DataIsSent(loc, p, k, b)
    <2>1. N + rd[p].id \notin 1 .. N - 1
        BY <1>2, Constants
    <2>2. QED BY <1>1, <1>4, <1>5, <1>6, <1>7, <2>1, Transfer
<1>9. /\ b \in Place \cup {Gone}
      /\ b = Gone => \E r \in Proc : ~up[r]
      /\ net' \in [Proc -> Seq(Msg)] /\ InNet(m)' /\ MsgOK'
    BY <1>8 DEF DataIsSent
<1>10. /\ b \in Anywhere /\ b \notin Uncomputed /\ b \notin Computed /\ loc[k] # b
       /\ loc[k] \in Place
       /\ Off(loc, k, b, "todo") /\ Off(loc, k, b, "tosend") /\ Off(loc, k, b, "cp")
       /\ Off(loc, k, b, "wr") /\ \A r \in Proc : b # <<"rd", r>>
    BY <1>4, <1>7, TransferLoc
<1>11. InTodo(m)' /\ InTosend(m)' /\ InWr(m)' /\ InCp(m)'
    BY <1>1, <1>6, <1>10, MoveKept
<1>12. PICK s \in RdState :
        s.pc \in {"pull", "top", "read"} /\ rd' = [rd EXCEPT ![p] = s]
    <2>1. RdAt(loop) \in RdState /\ RdAt(loop).pc = loop
        BY RdAtFacts DEF RdLabel
    <2>2. CASE rd[p].k > 1
        <3>1. rd[p].k - 1 \in 0 .. N
            BY <1>2, <2>2, Constants
        <3>2. Moving("pull", 0, rd[p].k - 1) \in RdState
            BY <3>1, Constants DEF Moving, RdState
        <3>3. rd' = [rd EXCEPT ![p] = Moving("pull", 0, rd[p].k - 1)]
            BY <1>1, <1>2, <2>2
        <3>4. QED BY <3>2, <3>3 DEF Moving
    <2>3. CASE ~(rd[p].k > 1)
        <3>1. rd' = [rd EXCEPT ![p] = RdAt(loop)]
            BY <1>1, <1>2, <2>3
        <3>2. QED BY <2>1, <3>1
    <2>4. QED BY <2>2, <2>3
<1>13. rd' \in [Proc -> RdState]
    BY <1>2, <1>12
<1>14. TypeOK' /\ Bounded'
    BY <1>1, <1>9, <1>13 DEF IInv, TypeOK, Bounded
<1>15. InRd(m)'
    <2>1. s.pc \notin {"send", "swallow"}
        BY <1>12
    <2>2. QED BY <1>6, <1>7, <1>10, <1>12, <2>1, RdLeave
<1>16. ArrayOK(m)'
    BY <1>1, <1>6, <1>9, <1>10, MoveArrays
<1>17. wr'[S].pc = "bye" => m[Bye] \in {<<"net", C>>, <<"rd", C>>, Gone}
    <2>1. m[Bye] = loc[Bye]
        BY <1>6, <1>10, KeyFacts, Moved
    <2>2. QED BY <1>1, <2>1 DEF IInv, SignalOK
<1>18. UNCHANGED cp[C] /\ cp'[S].pc \in {"pull", "compute"}
    BY <1>1 DEF IInv, SignalOK
<1>19. rd[C].pc \in {"unlock", "done"} => UNCHANGED rd[C]
    BY <1>1, <1>2, <1>12, Constants
<1>20. QED BY <1>1, <1>6, <1>9, <1>10, <1>11, <1>14, <1>15, <1>16, <1>17, <1>18, <1>19, Hop

\* The server's worker pulls a job that it will compute.
LEMMA WorkerPullStep ==
    ASSUME NEW loc \in Locs, IInv(loc), UNCHANGED clientVars, WorkerPull
    PROVE  Inv'
<1>1. /\ todo[S] # <<>> /\ todo' = [todo EXCEPT ![S] = Tail(@)] /\ cp[S].pc = "pull"
      /\ cp' = [cp EXCEPT ![S] = Holding("compute", Head(todo[S]))]
      /\ UNCHANGED <<up, tosend, arr, net, peer_known, rebalance_requested,
                     rd, wr, sm, reports, job_finished, mutex, stray>>
    BY DEF WorkerPull, clientVars
<1>2. PICK k : k = TodoKey[Head(todo[S])]
    OBVIOUS
<1> DEFINE b == <<"cp", S>>
           m == Move(loc, k, b)
<1>3. b \in Place /\ b \in Anywhere /\ (\A r \in Proc : b # <<"todo", r>>) /\ b # Gone
    BY Constants DEF Anywhere, Place, Gone
<1>4. TodoPulled(loc, S, k, b)
    BY <1>1, <1>2, <1>3, Constants, TodoPull
<1>5. /\ Head(todo[S]) \in -1 .. N /\ k \in Key /\ loc[k] = <<"todo", S>>
      /\ todo' \in [Proc -> Seq(-1 .. N)] /\ Bounded' /\ InTodo(m)'
    BY <1>4 DEF TodoPulled
<1>6. Head(todo[S]) \in 0 .. N /\ k = JobOf(Head(todo[S])) /\ k \in Job
    BY <1>2, <1>5, Constants, PulledIsJob
<1>7. k # Wake /\ k # Bye
    BY <1>6, KeyFacts
<1>8. /\ Off(loc, k, b, "tosend") /\ Off(loc, k, b, "net") /\ Off(loc, k, b, "wr")
      /\ Off(loc, k, b, "rd") /\ loc[k] # b /\ \A r \in Proc : loc[k] # <<"cp", r>>
    BY <1>5 DEF Off
<1>9. InTosend(m)' /\ InNet(m)' /\ InWr(m)' /\ InRd(m)'
    BY <1>1, <1>3, <1>5, <1>8, MoveKept
<1>10. cp \in [Proc -> CpState]
    BY DEF IInv, TypeOK
<1>11. PICK s \in CpState :
        s.pc = "compute" /\ k = JobOf(s.id) /\ cp' = [cp EXCEPT ![S] = s]
    <2>1. Holding("compute", Head(todo[S])) \in CpState
        BY <1>6 DEF Holding, CpState
    <2>2. QED BY <1>1, <1>6, <2>1 DEF Holding
<1>12. cp' \in [Proc -> CpState] /\ cp'[C] = cp[C] /\ cp'[S] = s
    BY <1>10, <1>11, Constants
<1>13. TypeOK' /\ MsgOK'
    BY <1>1, <1>5, <1>12, NetKept DEF IInv, TypeOK
<1>14. InCp(m)'
    <2>1. cp[S].pc \notin {"compute"}
        BY <1>1
    <2>2. QED BY <1>5, <1>8, <1>11, <2>1, Constants, CpTake
<1>15. loc[k] \in Place
    BY <1>5, Constants DEF Place
<1>16. ArrayOK(m)'
    <2>1. loc[k] \in Uncomputed /\ b \notin Computed
        BY <1>5 DEF Uncomputed, Computed
    <2>2. QED BY <1>1, <1>3, <1>5, <1>15, <2>1, MoveArrays
<1>17. wr'[S].pc = "bye" => m[Bye] \in {<<"net", C>>, <<"rd", C>>, Gone}
    <2>1. m[Bye] = loc[Bye]
        BY <1>3, <1>5, <1>7, KeyFacts, Moved
    <2>2. QED BY <1>1, <2>1 DEF IInv, SignalOK
<1>18. UNCHANGED <<cp[C], rd[C]>> /\ cp'[S].pc \in {"pull", "compute"}
    BY <1>1, <1>11, <1>12
<1>19. QED BY <1>1, <1>3, <1>5, <1>7, <1>9, <1>13, <1>14, <1>15, <1>16, <1>17, <1>18, Hop

\* ... computes it, and hands the result to the writer.
LEMMA WorkerComputeStep ==
    ASSUME NEW loc \in Locs, IInv(loc), UNCHANGED clientVars, WorkerCompute
    PROVE  Inv'
<1>1. /\ cp[S].pc = "compute" /\ arr' = [arr EXCEPT ![S][cp[S].id] = compute(@)]
      /\ tosend' = [tosend EXCEPT ![S] = Append(@, cp[S].id)]
      /\ cp' = [cp EXCEPT ![S] = At("pull")]
      /\ UNCHANGED <<up, todo, net, peer_known, rebalance_requested,
                     rd, wr, sm, reports, job_finished, mutex, stray>>
    BY DEF WorkerCompute, clientVars
<1>2. /\ cp \in [Proc -> CpState] /\ cp[S].id \in 0 .. N /\ cp[S].id \in -1 .. N
      /\ cp[S].id # AllDone
    BY Constants DEF IInv, TypeOK, CpState, AllDone
<1>3. PICK k : k = JobOf(cp[S].id)
    OBVIOUS
<1> DEFINE b == <<"tosend", S>>
           m == Move(loc, k, b)
<1>4. k \in Job /\ k \in Key /\ k # Wake /\ k # Bye
    BY <1>2, <1>3, KeyFacts
<1>5. loc[k] = <<"cp", S>>
    BY <1>1, <1>3, <1>4, Constants DEF IInv, InCp
<1>6. /\ b \in Place /\ b \in Anywhere /\ b # Gone /\ loc[k] \in Place /\ loc[k] # b
      /\ (\A r \in Proc : b # <<"cp", r>>) /\ \A r \in Proc : loc[k] # <<"tosend", r>>
    BY <1>5, Constants DEF Anywhere, Place, Gone
<1>7. TosendPushed(loc, S, k)
    BY <1>1, <1>2, <1>3, <1>4, <1>6, Constants, TosendPush
<1>8. tosend' \in [Proc -> Seq(-1 .. N)] /\ InTosend(m)'
    BY <1>7 DEF TosendPushed
<1>9. /\ Off(loc, k, b, "todo") /\ Off(loc, k, b, "net") /\ Off(loc, k, b, "wr")
      /\ Off(loc, k, b, "rd")
    BY <1>5 DEF Off
<1>10. InTodo(m)' /\ InNet(m)' /\ InWr(m)' /\ InRd(m)'
    BY <1>1, <1>4, <1>6, <1>9, MoveKept
<1>11. At("pull") \in CpState /\ At("pull").pc = "pull"
    BY Constants DEF At, CpState
<1>12. cp' \in [Proc -> CpState] /\ cp'[C] = cp[C] /\ cp'[S] = At("pull")
    BY <1>1, <1>2, <1>11, Constants
<1>13. InCp(m)'
    <2>1. At("pull").pc \notin {"compute"}
        BY <1>11
    <2>2. QED BY <1>1, <1>3, <1>4, <1>6, <2>1, Constants, CpLeave
<1>14. arr \in [Proc -> [0 .. N -> Value]]
    BY DEF IInv, TypeOK
<1>15. arr' \in [Proc -> [0 .. N -> Value]]
    <2>1. arr[S][cp[S].id] \in Value
        BY <1>2, <1>14, Constants
    <2>2. compute(arr[S][cp[S].id]) \in Value
        BY <2>1 DEF compute, Value
    <2>3. QED BY <1>1, <1>2, <1>14, <2>2, Constants
<1>16. ArrayOK(m)'
    <2> SUFFICES ASSUME NEW j \in 1 .. N - 1
                 PROVE  /\ arr'[C][j] = IF m[j] = Counted THEN 1 ELSE 0
                        /\ m[j] \in {<<"todo", S>>, <<"rd", S>>, <<"cp", S>>} => arr'[S][j] = 0
                        /\ m[j] \in {<<"tosend", S>>, <<"wr", S>>} => arr'[S][j] = 1
        BY DEF ArrayOK
    <2>1. j \in Job /\ j \in Key /\ j \in 0 .. N
        BY Constants, KeyFacts DEF Job
    <2>2. /\ arr[C][j] = IF loc[j] = Counted THEN 1 ELSE 0
          /\ loc[j] \in {<<"todo", S>>, <<"rd", S>>, <<"cp", S>>} => arr[S][j] = 0
          /\ loc[j] \in {<<"tosend", S>>, <<"wr", S>>} => arr[S][j] = 1
        BY DEF IInv, ArrayOK
    <2>3. arr'[C] = arr[C]
        BY <1>1, <1>14, Constants
    <2>4. CASE j = k
        <3>1. m[j] = b /\ b # Counted /\ loc[j] # Counted
            BY <1>4, <1>5, <1>6, <2>4, Moved DEF Counted
        <3>2. cp[S].id = j
            BY <1>2, <1>3, <2>4, JobOfFacts
        <3>3. arr[S][j] = 0
            BY <1>5, <2>2, <2>4
        <3>4. arr'[S][j] = compute(0)
            BY <1>1, <1>14, <2>1, <3>2, <3>3, Constants
        <3>5. compute(0) = 1
            BY PeerAssumption DEF compute
        <3>6. QED BY <2>2, <2>3, <3>1, <3>4, <3>5
    <2>5. CASE j # k
        <3>1. m[j] = loc[j]
            BY <1>4, <1>6, <2>1, <2>5, Moved
        <3>2. cp[S].id # j
            BY <1>3, <2>5, Constants DEF JobOf
        <3>3. arr'[S][j] = arr[S][j]
            BY <1>1, <1>2, <1>14, <2>1, <3>2, Constants
        <3>4. QED BY <2>2, <2>3, <3>1, <3>3
    <2>6. QED BY <2>4, <2>5
<1>17. TypeOK' /\ Bounded' /\ MsgOK'
    BY <1>1, <1>8, <1>12, <1>15, NetKept DEF IInv, TypeOK, Bounded
<1>18. wr'[S].pc = "bye" => m[Bye] \in {<<"net", C>>, <<"rd", C>>, Gone}
    <2>1. m[Bye] = loc[Bye]
        BY <1>4, <1>6, KeyFacts, Moved
    <2>2. QED BY <1>1, <2>1 DEF IInv, SignalOK
<1>19. UNCHANGED <<cp[C], rd[C]>> /\ cp'[S].pc \in {"pull", "compute"}
    BY <1>1, <1>11, <1>12
<1>20. QED BY <1>1, <1>4, <1>6, <1>8, <1>10, <1>13, <1>16, <1>17, <1>18, <1>19, Hop

\* The server's reader puts a job and its numbers where the worker finds them.
LEMMA HandlerJobStep ==
    ASSUME NEW loc \in Locs, IInv(loc), UNCHANGED clientVars,
           transfer_handler, Head(net[S]).id # AllDone
    PROVE  Inv'
<1>1. PICK msg : msg = Head(net[S])
    OBVIOUS
<1>2. PICK job : job = create_message(msg.id)
    OBVIOUS
<1>3. PICK k : k = JobOf(msg.id)
    OBVIOUS
<1> DEFINE b == <<"todo", S>>
           m == Move(loc, k, b)
<1>4. /\ Arrived(S, "data") /\ Consume(S) /\ Len(todo[S]) < N
      /\ arr' = [arr EXCEPT ![S][job] = msg.val]
      /\ todo' = [todo EXCEPT ![S] = Append(@, job)]
      /\ UNCHANGED <<up, tosend, peer_known, rebalance_requested,
                     rd, wr, cp, sm, reports, job_finished, mutex, stray>>
    BY <1>1, <1>2 DEF transfer_handler, clientVars
<1>5. b \in Place /\ b \in Anywhere /\ b # Gone /\ \A r \in Proc : b # <<"net", r>>
    BY Constants DEF Place, Anywhere, Gone
<1>6. DataIsRead(loc, S, k, b)
    BY <1>1, <1>3, <1>4, <1>5, Constants, DataRead
<1>7. /\ msg \in Msg /\ MsgFine(S, msg) /\ k \in Key /\ loc[k] = <<"net", S>>
      /\ net' \in [Proc -> Seq(Msg)] /\ InNet(m)' /\ MsgOK'
    BY <1>1, <1>6 DEF DataIsRead
<1>8. msg.type = "data" /\ msg.val \in Value /\ msg.id \in 0 .. 2 * N
    <2>1. msg.type = "data" /\ msg.val \in Value /\ msg.id \in Id
        BY <1>1, <1>4, <1>7 DEF Arrived, Msg
    <2>2. msg.id # -1
        BY <1>1 DEF AllDone
    <2>3. QED BY <2>1, <2>2, Constants DEF Id
<1>9. /\ k \in Job /\ k # Wake /\ k # Bye
      /\ job \in 0 .. N /\ job \in -1 .. N /\ JobOf(job) = k
      /\ k # 0 => job = k
    <2>1. k \in Job /\ job \in 0 .. N /\ JobOf(job) = k
        BY <1>2, <1>3, <1>8, JobOfFacts
    <2>2. k # 0 => job = k
        BY <1>2, <1>3, <1>8, JobOfFacts
    <2>3. job \in -1 .. N
        BY <2>1, Constants
    <2>4. QED BY <2>1, <2>2, <2>3, KeyFacts
<1>10. k = TodoKey[job]
    <2>1. job # AllDone
        BY <1>9, Constants DEF AllDone
    <2>2. QED BY <1>9, <2>1, KeyFacts
<1>11. loc[k] # b /\ loc[k] \in Place /\ \A r \in Proc : loc[k] # <<"todo", r>>
    BY <1>7, Constants DEF Place
<1>12. TodoPushed(loc, S, k)
    BY <1>4, <1>7, <1>9, <1>10, <1>11, Constants, TodoPush
<1>13. todo' \in [Proc -> Seq(-1 .. N)] /\ Bounded' /\ InTodo(m)'
    BY <1>12 DEF TodoPushed
<1>14. /\ Off(loc, k, b, "tosend") /\ Off(loc, k, b, "rd") /\ Off(loc, k, b, "wr")
       /\ Off(loc, k, b, "cp")
    BY <1>7 DEF Off
<1>15. InTosend(m)' /\ InRd(m)' /\ InWr(m)' /\ InCp(m)'
    BY <1>4, <1>5, <1>7, <1>11, <1>14, MoveKept
<1>16. arr \in [Proc -> [0 .. N -> Value]]
    BY DEF IInv, TypeOK
<1>17. arr' \in [Proc -> [0 .. N -> Value]]
    BY <1>4, <1>8, <1>9, <1>16, Constants
<1>18. ArrayOK(m)'
    <2> SUFFICES ASSUME NEW j \in 1 .. N - 1
                 PROVE  /\ arr'[C][j] = IF m[j] = Counted THEN 1 ELSE 0
                        /\ m[j] \in {<<"todo", S>>, <<"rd", S>>, <<"cp", S>>} => arr'[S][j] = 0
                        /\ m[j] \in {<<"tosend", S>>, <<"wr", S>>} => arr'[S][j] = 1
        BY DEF ArrayOK
    <2>1. j \in Job /\ j \in Key /\ j \in 0 .. N
        BY Constants, KeyFacts DEF Job
    <2>2. /\ arr[C][j] = IF loc[j] = Counted THEN 1 ELSE 0
          /\ loc[j] \in {<<"todo", S>>, <<"rd", S>>, <<"cp", S>>} => arr[S][j] = 0
          /\ loc[j] \in {<<"tosend", S>>, <<"wr", S>>} => arr[S][j] = 1
        BY DEF IInv, ArrayOK
    <2>3. arr'[C] = arr[C]
        BY <1>4, <1>16, Constants
    <2>4. CASE j = k
        <3>1. m[j] = b /\ b # Counted /\ loc[j] # Counted
            <4>1. m[k] = b
                BY <1>5, <1>7, Moved
            <4>2. b # Counted /\ loc[k] # Counted
                BY <1>7 DEF Counted
            <4>3. QED BY <2>4, <4>1, <4>2
        <3>2. job = j
            BY <1>9, <2>4, Constants
        <3>3. msg.val = 0
            <4>1. JobOf(msg.id) \in 1 .. N - 1
                BY <1>3, <2>4
            <4>2. QED BY <1>7, <1>8, <4>1 DEF MsgFine
        <3>4. arr'[S][j] = 0
            BY <1>4, <1>16, <2>1, <3>2, <3>3, Constants
        <3>5. QED BY <2>2, <2>3, <3>1, <3>4
    <2>5. CASE j # k
        <3>1. m[j] = loc[j]
            BY <1>5, <1>7, <2>1, <2>5, Moved
        <3>2. job # j
            BY <1>9, <2>5, Constants DEF JobOf
        <3>3. arr'[S][j] = arr[S][j]
            BY <1>4, <1>9, <1>16, <2>1, <3>2, Constants
        <3>4. QED BY <2>2, <2>3, <3>1, <3>3
    <2>6. QED BY <2>4, <2>5
<1>19. TypeOK'
    BY <1>4, <1>7, <1>13, <1>17 DEF IInv, TypeOK
<1>20. wr'[S].pc = "bye" => m[Bye] \in {<<"net", C>>, <<"rd", C>>, Gone}
    <2>1. m[Bye] = loc[Bye]
        BY <1>5, <1>7, <1>9, KeyFacts, Moved
    <2>2. QED BY <1>4, <2>1 DEF IInv, SignalOK
<1>21. UNCHANGED <<cp[C], rd[C]>> /\ cp'[S].pc \in {"pull", "compute"}
    BY <1>4 DEF IInv, SignalOK
<1>22. QED BY <1>4, <1>5, <1>7, <1>9, <1>11, <1>13, <1>15, <1>18, <1>19, <1>20, <1>21, Hop

\* The goodbye that the client has sent is on its way back through job_tosend.
LEMMA HandlerByeStep ==
    ASSUME NEW loc \in Locs, IInv(loc), UNCHANGED clientVars,
           transfer_handler, Head(net[S]).id = AllDone
    PROVE  Inv'
<1>1. PICK k : k = JobOf(Head(net[S]).id)
    OBVIOUS
<1> DEFINE b == <<"tosend", S>>
           m == Move(loc, k, b)
<1>2. /\ Arrived(S, "data") /\ Consume(S)
      /\ tosend' = [tosend EXCEPT ![S] = Append(@, AllDone)]
      /\ UNCHANGED <<up, todo, arr, peer_known, rebalance_requested,
                     rd, wr, cp, sm, reports, job_finished, mutex, stray>>
    BY DEF transfer_handler, clientVars
<1>3. b \in Place /\ b \in Anywhere /\ b # Gone /\ \A r \in Proc : b # <<"net", r>>
    BY Constants DEF Place, Anywhere, Gone
<1>4. DataIsRead(loc, S, k, b)
    BY <1>1, <1>2, <1>3, Constants, DataRead
<1>5. /\ k \in Key /\ loc[k] = <<"net", S>>
      /\ net' \in [Proc -> Seq(Msg)] /\ InNet(m)' /\ MsgOK'
    BY <1>4 DEF DataIsRead
<1>6. k = Bye /\ k = JobOf(AllDone) /\ k # Wake /\ AllDone \in -1 .. N
    BY <1>1, JobOfFacts, KeyFacts, Constants DEF AllDone
<1>7. loc[k] # b /\ loc[k] \in Place /\ \A r \in Proc : loc[k] # <<"tosend", r>>
    BY <1>5, Constants DEF Place
<1>8. TosendPushed(loc, S, k)
    BY <1>2, <1>5, <1>6, <1>7, Constants, TosendPush
<1>9. tosend' \in [Proc -> Seq(-1 .. N)] /\ InTosend(m)'
    BY <1>8 DEF TosendPushed
<1>10. /\ Off(loc, k, b, "todo") /\ Off(loc, k, b, "rd") /\ Off(loc, k, b, "wr")
       /\ Off(loc, k, b, "cp")
    BY <1>5 DEF Off
<1>11. InTodo(m)' /\ InRd(m)' /\ InWr(m)' /\ InCp(m)'
    BY <1>2, <1>3, <1>5, <1>7, <1>10, MoveKept
<1>12. TypeOK' /\ Bounded'
    BY <1>2, <1>5, <1>9 DEF IInv, TypeOK, Bounded
<1>13. ArrayOK(m)'
    <2> SUFFICES ASSUME NEW j \in 1 .. N - 1
                 PROVE  m[j] = loc[j]
        BY <1>2 DEF IInv, ArrayOK
    <2>1. j \in Key /\ j # k
        BY <1>6, Constants, KeyFacts DEF Job, Bye
    <2>2. QED BY <1>3, <1>5, <2>1, Moved
<1>14. wr'[S].pc # "bye"
    <2>1. loc[Bye] \notin {<<"net", C>>, <<"rd", C>>, Gone}
        BY <1>5, <1>6, Constants DEF Gone
    <2>2. QED BY <1>2, <2>1 DEF IInv, SignalOK
<1>15. UNCHANGED <<cp[C], rd[C]>> /\ cp'[S].pc \in {"pull", "compute"}
    BY <1>2 DEF IInv, SignalOK
<1>16. QED BY <1>2, <1>3, <1>5, <1>6, <1>7, <1>9, <1>11, <1>12, <1>13, <1>14, <1>15, Hop
-----------------------------------------------------------------------------
(* Steps that count a job.                                                 *)

\* Before a job is counted no signal was given.
LEMMA Counting ==
    ASSUME NEW loc \in Locs, IInv(loc), NEW k \in Job, loc[k] \in Place
    PROVE  /\ k \in Key /\ loc[k] # Counted
           /\ job_finished \in Nat /\ job_finished + 1 \in 0 .. N
           /\ loc[Wake] = Unborn /\ loc[Bye] = Unborn
           /\ cp[C].pc \notin Ended /\ ~stray /\ wr[S].pc # "bye"
<1>1. k \in Key
    BY KeyFacts
<1>2. loc[k] # Counted
    BY DEF Place, Counted
<1>3. job_finished \in 0 .. N /\ job_finished < N
    BY <1>2, CountFacts DEF IInv
<1>4. job_finished \in Nat /\ job_finished + 1 \in 0 .. N /\ job_finished # N
    BY <1>3, Constants
<1>5. loc[Wake] = Unborn /\ cp[C].pc \notin Ended /\ ~stray
    BY <1>4 DEF IInv, SignalOK
<1>6. loc[Bye] = Unborn
    BY <1>5 DEF IInv, SignalOK, Ended
<1>7. wr[S].pc # "bye"
    BY <1>6 DEF IInv, SignalOK, Unborn, Gone
<1>8. QED BY <1>1, <1>2, <1>4, <1>5, <1>6, <1>7

LEMMA Count ==
    ASSUME NEW loc \in Locs, IInv(loc), NEW k \in Job, loc[k] \in Place,
           NEW b, b = Counted,
           UNCHANGED <<up, stray, wr>>, job_finished' = job_finished + 1,
           arr'[S] = arr[S],
           \A j \in 1 .. N - 1 : arr'[C][j] = IF j = k THEN 1 ELSE arr[C][j],
           cp'[C].pc \in Ended => job_finished' = N, cp'[S].pc \in {"pull", "compute"},
           TypeOK', Bounded', MsgOK',
           LET m == Move(loc, k, b)
           IN  /\ InTodo(m)' /\ InTosend(m)' /\ InNet(m)'
               /\ InRd(m)' /\ InWr(m)' /\ InCp(m)'
    PROVE  Inv'
<1> DEFINE m == Move(loc, k, b)
<1>1. b \in Anywhere
    BY DEF Anywhere
<1>2. /\ k \in Key /\ loc[k] # Counted
      /\ job_finished \in Nat /\ job_finished + 1 \in 0 .. N
      /\ loc[Wake] = Unborn /\ loc[Bye] = Unborn
      /\ cp[C].pc \notin Ended /\ ~stray /\ wr[S].pc # "bye"
    BY Counting
<1>3. m \in Locs /\ m[k] = Counted /\ \A x \in Key : x # k => m[x] = loc[x]
    BY <1>1, <1>2, Moved
<1>4. CountOK(m)'
    <2>1. job_finished' = Cardinality(Job \cap In(m, Counted))
        <3>1. Cardinality(Job \cap In(m, Counted)) = Cardinality(Job \cap In(loc, Counted)) + 1
            BY <1>2, CountMore
        <3>2. job_finished = Cardinality(Job \cap In(loc, Counted))
            BY DEF IInv, CountOK
        <3>3. QED BY <3>1, <3>2
    <2>2. ASSUME \A p \in Proc : up[p], NEW j \in Job
          PROVE  m[j] \notin {Unborn, Gone}
        <3>1. loc[j] \notin {Unborn, Gone} /\ j \in Key
            BY <2>2, KeyFacts DEF IInv, CountOK
        <3>2. Counted \notin {Unborn, Gone}
            BY DEF Counted, Unborn, Gone
        <3>3. QED BY <1>3, <3>1, <3>2
    <2> HIDE DEF m
    <2>3. QED BY <2>1, <2>2 DEF CountOK
<1>5. SignalOK(m)'
    <2>1. m[Bye] = Unborn /\ m[Wake] = Unborn
        BY <1>2, <1>3, KeyFacts
    <2>2. Unborn # Counted
        BY DEF Unborn, Counted
    <2> HIDE DEF m
    <2>3. QED BY <1>2, <2>1, <2>2 DEF SignalOK
<1>6. ArrayOK(m)'
    <2> SUFFICES ASSUME NEW j \in 1 .. N - 1
                 PROVE  /\ arr'[C][j] = IF m[j] = Counted THEN 1 ELSE 0
                        /\ m[j] \in {<<"todo", S>>, <<"rd", S>>, <<"cp", S>>} => arr'[S][j] = 0
                        /\ m[j] \in {<<"tosend", S>>, <<"wr", S>>} => arr'[S][j] = 1
        BY DEF ArrayOK
    <2>1. j \in Key
        BY Constants, KeyFacts DEF Job
    <2>2. /\ arr[C][j] = IF loc[j] = Counted THEN 1 ELSE 0
          /\ loc[j] \in {<<"todo", S>>, <<"rd", S>>, <<"cp", S>>} => arr[S][j] = 0
          /\ loc[j] \in {<<"tosend", S>>, <<"wr", S>>} => arr[S][j] = 1
        BY DEF IInv, ArrayOK
    <2>3. CASE j = k
        <3>1. Counted \notin {<<"todo", S>>, <<"rd", S>>, <<"cp", S>>, <<"tosend", S>>, <<"wr", S>>}
            BY DEF Counted
        <3>2. m[j] = Counted /\ arr'[C][j] = 1
            BY <1>3, <2>3
        <3>3. QED BY <3>1, <3>2
    <2>4. CASE j # k
        <3>1. m[j] = loc[j] /\ arr'[C][j] = arr[C][j]
            BY <1>3, <2>1, <2>4
        <3>2. QED BY <2>2, <3>1
    <2>5. QED BY <2>3, <2>4
<1> HIDE DEF m
<1>7. QED BY <1>3, <1>4, <1>5, <1>6, Assemble DEF m

\* The client's main thread computes a job.
LEMMA MainComputeStep ==
    ASSUME NEW loc \in Locs, IInv(loc), MainCompute
    PROVE  Inv'
<1>1. /\ cp[C].pc = "compute" /\ arr' = [arr EXCEPT ![C][cp[C].id] = compute(@)]
      /\ job_finished' = job_finished + 1
      /\ cp' = [cp EXCEPT ![C] = At(IF JobsLeft(job_finished') THEN "pull" ELSE "finish")]
      /\ UNCHANGED <<mutex, stray, up, todo, tosend, net, peer_known,
                     rebalance_requested, rd, wr, sm, reports>>
    BY DEF MainCompute, MainGoto
<1>2. /\ cp \in [Proc -> CpState] /\ cp[C].id \in 0 .. N /\ cp[C].id \in -1 .. N
      /\ cp[C].id # AllDone
    BY Constants DEF IInv, TypeOK, CpState, AllDone
<1>3. PICK k : k = JobOf(cp[C].id)
    OBVIOUS
<1>4. PICK b : b = Counted
    OBVIOUS
<1> DEFINE m == Move(loc, k, b)
<1>5. k \in Job /\ k \in Key
    BY <1>2, <1>3, KeyFacts
<1>6. loc[k] = <<"cp", C>>
    BY <1>1, <1>3, <1>5, Constants DEF IInv, InCp
<1>7. b \in Anywhere /\ loc[k] \in Place /\ loc[k] # b /\ \A r \in Proc : b # <<"cp", r>>
    BY <1>4, <1>6, Constants DEF Anywhere, Place, Counted
<1>8. /\ Off(loc, k, b, "todo") /\ Off(loc, k, b, "tosend") /\ Off(loc, k, b, "net")
      /\ Off(loc, k, b, "wr") /\ Off(loc, k, b, "rd")
    BY <1>4, <1>6 DEF Off, Counted
<1>9. InTodo(m)' /\ InTosend(m)' /\ InNet(m)' /\ InWr(m)' /\ InRd(m)'
    BY <1>1, <1>5, <1>7, <1>8, MoveKept
<1>10. job_finished \in Nat /\ job_finished' \in 0 .. N
    BY <1>1, <1>5, <1>7, Counting
<1>11. PICK s \in CpState : /\ cp' = [cp EXCEPT ![C] = s] /\ s.pc \in {"pull", "finish"}
                            /\ s.pc = "finish" => job_finished' = N
    <2>1. /\ At("pull") \in CpState /\ At("pull").pc = "pull"
          /\ At("finish") \in CpState /\ At("finish").pc = "finish"
        BY Constants DEF At, CpState
    <2>2. CASE JobsLeft(job_finished')
        BY <1>1, <2>1, <2>2
    <2>3. CASE ~JobsLeft(job_finished')
        <3>1. job_finished' = N
            BY <1>10, <2>3, Constants DEF JobsLeft
        <3>2. QED BY <1>1, <2>1, <2>3, <3>1
    <2>4. QED BY <2>2, <2>3
<1>12. cp' \in [Proc -> CpState] /\ cp'[C] = s /\ cp'[S] = cp[S]
    BY <1>2, <1>11, Constants
<1>13. InCp(m)'
    <2>1. s.pc \notin {"compute"}
        BY <1>11
    <2>2. QED BY <1>1, <1>3, <1>5, <1>7, <1>11, <2>1, Constants, CpLeave
<1>14. arr \in [Proc -> [0 .. N -> Value]]
    BY DEF IInv, TypeOK
<1>15. arr' \in [Proc -> [0 .. N -> Value]]
    <2>1. arr[C][cp[C].id] \in Value
        BY <1>2, <1>14, Constants
    <2>2. compute(arr[C][cp[C].id]) \in Value
        BY <2>1 DEF compute, Value
    <2>3. QED BY <1>1, <1>2, <1>14, <2>2, Constants
<1>16. arr'[S] = arr[S]
    BY <1>1, <1>14, Constants
<1>17. ASSUME NEW j \in 1 .. N - 1
       PROVE  arr'[C][j] = IF j = k THEN 1 ELSE arr[C][j]
    <2>1. j \in 0 .. N
        BY Constants
    <2>2. CASE j = k
        <3>1. cp[C].id = j
            BY <1>2, <1>3, <2>2, JobOfFacts
        <3>2. loc[j] # Counted
            BY <1>6, <2>2 DEF Counted
        <3>3. arr[C][j] = 0
            BY <3>2 DEF IInv, ArrayOK
        <3>4. arr'[C][j] = compute(0)
            BY <1>1, <1>14, <2>1, <3>1, <3>3, Constants
        <3>5. compute(0) = 1
            BY PeerAssumption DEF compute
        <3>6. QED BY <2>2, <3>4, <3>5
    <2>3. CASE j # k
        <3>1. cp[C].id # j
            BY <1>3, <2>3, Constants DEF JobOf
        <3>2. QED BY <1>1, <1>2, <1>14, <2>1, <2>3, <3>1, Constants
    <2>4. QED BY <2>2, <2>3
<1>18. TypeOK' /\ Bounded' /\ MsgOK'
    BY <1>1, <1>10, <1>12, <1>15, NetKept DEF IInv, TypeOK, Bounded
<1>19. cp'[C].pc \in Ended => job_finished' = N
    BY <1>11, <1>12 DEF Ended
<1>20. cp'[S].pc \in {"pull", "compute"}
    BY <1>12 DEF IInv, SignalOK
<1>21. QED BY <1>1, <1>4, <1>5, <1>7, <1>9, <1>13, <1>16, <1>17, <1>18, <1>19, <1>20, Count

\* The client's reader receives a result, whose numbers were computed once.
LEMMA ReaderResultStep ==
    ASSUME NEW loc \in Locs, IInv(loc), ReaderData, Head(net[C]).id \in 0 .. N - 1
    PROVE  Inv'
<1>1. PICK msg : msg = Head(net[C])
    OBVIOUS
<1>2. PICK k : k = JobOf(msg.id)
    OBVIOUS
<1>3. PICK b : b = Counted
    OBVIOUS
<1> DEFINE m == Move(loc, k, b)
<1>4. msg.id \in 0 .. N - 1 /\ msg.id # AllDone /\ ~(msg.id >= N) /\ msg.id \in 0 .. N
    BY <1>1, Constants DEF AllDone
<1>5. /\ rd[C].pc = "read" /\ Arrived(C, "data") /\ Consume(C)
      /\ arr' = [arr EXCEPT ![C][msg.id] = msg.val]
      /\ job_finished' = job_finished + 1 /\ rd' = [rd EXCEPT ![C] = RdAt("top")]
      /\ UNCHANGED <<mutex, stray, up, todo, tosend, peer_known,
                     rebalance_requested, wr, cp, sm, reports>>
    BY <1>1, <1>4 DEF ReaderData
<1>6. k = msg.id /\ k \in Job /\ k \in Key
    <2>1. k = msg.id
        BY <1>2, <1>4, Constants DEF JobOf
    <2>2. QED BY <1>4, <2>1, KeyFacts DEF Job
<1>7. b \in Anywhere /\ \A r \in Proc : b # <<"net", r>>
    BY <1>3 DEF Anywhere, Counted
<1>8. DataIsRead(loc, C, k, b)
    BY <1>1, <1>2, <1>5, <1>7, Constants, DataRead
<1>9. /\ msg \in Msg /\ MsgFine(C, msg) /\ loc[k] = <<"net", C>>
      /\ net' \in [Proc -> Seq(Msg)] /\ InNet(m)' /\ MsgOK'
    BY <1>1, <1>8 DEF DataIsRead
<1>10. msg.type = "data" /\ msg.val \in Value
    BY <1>1, <1>5, <1>9 DEF Arrived, Msg
<1>11. loc[k] \in Place /\ loc[k] # b
    BY <1>3, <1>9, Constants DEF Place, Counted
<1>12. /\ Off(loc, k, b, "todo") /\ Off(loc, k, b, "tosend") /\ Off(loc, k, b, "rd")
       /\ Off(loc, k, b, "wr") /\ Off(loc, k, b, "cp")
    BY <1>3, <1>9 DEF Off, Counted
<1>13. InTodo(m)' /\ InTosend(m)' /\ InWr(m)' /\ InCp(m)'
    BY <1>5, <1>6, <1>7, <1>11, <1>12, MoveKept
<1>14. rd' \in [Proc -> RdState] /\ InRd(m)'
    <2>1. RdAt("top") \in RdState /\ RdAt("top").pc \notin {"send", "swallow"}
        BY RdAtFacts DEF RdLabel
    <2>2. rd[C].pc \notin {"send", "swallow"}
        BY <1>5
    <2>3. QED BY <1>5, <1>6, <1>7, <1>12, <2>1, <2>2, Constants, RdIdle
<1>15. arr \in [Proc -> [0 .. N -> Value]]
    BY DEF IInv, TypeOK
<1>16. arr' \in [Proc -> [0 .. N -> Value]] /\ arr'[S] = arr[S]
    BY <1>4, <1>5, <1>10, <1>15, Constants
<1>17. ASSUME NEW j \in 1 .. N - 1
       PROVE  arr'[C][j] = IF j = k THEN 1 ELSE arr[C][j]
    <2>1. j \in 0 .. N
        BY Constants
    <2>2. j = k => msg.val = 1
        BY <1>6, <1>9, <1>10, Constants DEF MsgFine
    <2>3. QED BY <1>4, <1>5, <1>6, <1>15, <2>1, <2>2, Constants
<1>18. job_finished' \in 0 .. N /\ cp'[C].pc \notin Ended
    BY <1>5, <1>6, <1>11, Counting
<1>19. TypeOK' /\ Bounded'
    BY <1>5, <1>9, <1>14, <1>16, <1>18 DEF IInv, TypeOK, Bounded
<1>20. cp'[S].pc \in {"pull", "compute"}
    BY <1>5 DEF IInv, SignalOK
<1>21. QED BY <1>3, <1>5, <1>6, <1>9, <1>11, <1>13, <1>14, <1>16, <1>17, <1>18, <1>19, <1>20, Count

\* The client's reader receives a job that the server gave back.
LEMMA ReaderJobStep ==
    ASSUME NEW loc \in Locs, IInv(loc), ReaderData, Head(net[C]).id >= N
    PROVE  Inv'
<1>1. PICK msg : msg = Head(net[C])
    OBVIOUS
<1>2. PICK k : k = JobOf(msg.id)
    OBVIOUS
<1> DEFINE b == <<"todo", C>>
           m == Move(loc, k, b)
<1>3. Arrived(C, "data") /\ Consume(C)
    BY DEF ReaderData
<1>4. b \in Place /\ b \in Anywhere /\ b # Gone /\ \A r \in Proc : b # <<"net", r>>
    BY Constants DEF Place, Anywhere, Gone
<1>5. DataIsRead(loc, C, k, b)
    BY <1>1, <1>2, <1>3, <1>4, Constants, DataRead
<1>6. /\ msg \in Msg /\ k \in Key /\ loc[k] = <<"net", C>>
      /\ net' \in [Proc -> Seq(Msg)] /\ InNet(m)' /\ MsgOK'
    BY <1>1, <1>5 DEF DataIsRead
<1>7. /\ msg.id \in N .. 2 * N /\ msg.id \in 0 .. 2 * N
      /\ ~(msg.id \in 0 .. N - 1) /\ msg.id # AllDone
    <2>1. msg.id \in Id
        BY <1>6 DEF Msg
    <2>2. QED BY <1>1, <2>1, Constants DEF Id, AllDone
<1>8. PICK job : job = Unmarked(msg.id)
    OBVIOUS
<1>9. /\ rd[C].pc = "read" /\ Len(todo[C]) < N
      /\ todo' = [todo EXCEPT ![C] = Append(@, job)] /\ rd' = [rd EXCEPT ![C] = RdAt("top")]
      /\ UNCHANGED <<arr, job_finished, mutex, stray, up, tosend, peer_known,
                     rebalance_requested, wr, cp, sm, reports>>
    BY <1>1, <1>7, <1>8 DEF ReaderData
<1>10. /\ k \in Job /\ k # Wake /\ k # Bye
       /\ job \in 0 .. N /\ job \in -1 .. N /\ job # AllDone /\ JobOf(job) = k
    <2>1. k \in Job /\ job \in 0 .. N /\ JobOf(job) = k
        BY <1>2, <1>7, <1>8, JobOfFacts DEF Unmarked
    <2>2. job \in -1 .. N /\ job # AllDone
        BY <2>1, Constants DEF AllDone
    <2>3. QED BY <2>1, <2>2, KeyFacts
<1>11. k = TodoKey[job]
    BY <1>10, KeyFacts
<1>12. loc[k] # b /\ loc[k] \in Place /\ \A r \in Proc : loc[k] # <<"todo", r>>
    BY <1>6, Constants DEF Place
<1>13. TodoPushed(loc, C, k)
    BY <1>6, <1>9, <1>10, <1>11, <1>12, Constants, TodoPush
<1>14. todo' \in [Proc -> Seq(-1 .. N)] /\ Bounded' /\ InTodo(m)'
    BY <1>13 DEF TodoPushed
<1>15. /\ Off(loc, k, b, "tosend") /\ Off(loc, k, b, "rd") /\ Off(loc, k, b, "wr")
       /\ Off(loc, k, b, "cp")
    BY <1>6 DEF Off
<1>16. InTosend(m)' /\ InWr(m)' /\ InCp(m)'
    BY <1>4, <1>6, <1>9, <1>12, <1>15, MoveKept
<1>17. rd' \in [Proc -> RdState] /\ InRd(m)'
    <2>1. RdAt("top") \in RdState /\ RdAt("top").pc \notin {"send", "swallow"}
        BY RdAtFacts DEF RdLabel
    <2>2. rd[C].pc \notin {"send", "swallow"}
        BY <1>9
    <2>3. QED BY <1>4, <1>6, <1>9, <1>15, <2>1, <2>2, Constants, RdIdle
<1>18. TypeOK'
    BY <1>6, <1>9, <1>14, <1>17 DEF IInv, TypeOK
<1>19. ArrayOK(m)'
    <2>1. b \notin Uncomputed /\ b \notin Computed
        BY Constants DEF Uncomputed, Computed
    <2>2. QED BY <1>4, <1>6, <1>9, <1>12, <2>1, MoveArrays
<1>20. wr'[S].pc = "bye" => m[Bye] \in {<<"net", C>>, <<"rd", C>>, Gone}
    <2>1. m[Bye] = loc[Bye]
        BY <1>4, <1>6, <1>10, KeyFacts, Moved
    <2>2. QED BY <1>9, <2>1 DEF IInv, SignalOK
<1>21. UNCHANGED cp[C] /\ cp'[S].pc \in {"pull", "compute"} /\ rd[C].pc \notin {"unlock", "done"}
    BY <1>9 DEF IInv, SignalOK
<1>22. QED BY <1>4, <1>6, <1>9, <1>10, <1>12, <1>14, <1>16, <1>17, <1>18, <1>19, <1>20, <1>21, Hop

\* The client's reader receives the goodbye ...
LEMMA ReaderByeStep ==
    ASSUME NEW loc \in Locs, IInv(loc), ReaderData, Head(net[C]).id = AllDone
    PROVE  Inv'
<1>1. PICK k : k = JobOf(Head(net[C]).id)
    OBVIOUS
<1> DEFINE b == <<"rd", C>>
           m == Move(loc, k, b)
<1>2. Head(net[C]).id \notin 0 .. N - 1 /\ ~(Head(net[C]).id >= N)
    BY Constants DEF AllDone
<1>3. /\ Arrived(C, "data") /\ Consume(C) /\ rd[C].pc = "read"
      /\ rd' = [rd EXCEPT ![C] = RdAt("swallow")]
      /\ UNCHANGED <<arr, job_finished, todo, mutex, stray, up, tosend, peer_known,
                     rebalance_requested, wr, cp, sm, reports>>
    BY <1>2 DEF ReaderData
<1>4. b \in Place /\ b \in Anywhere /\ b # Gone /\ \A r \in Proc : b # <<"net", r>>
    BY Constants DEF Place, Anywhere, Gone
<1>5. DataIsRead(loc, C, k, b)
    BY <1>1, <1>3, <1>4, Constants, DataRead
<1>6. /\ k \in Key /\ loc[k] = <<"net", C>>
      /\ net' \in [Proc -> Seq(Msg)] /\ InNet(m)' /\ MsgOK'
    BY <1>5 DEF DataIsRead
<1>7. k = Bye /\ k # Wake /\ k \notin Job
    BY <1>1, JobOfFacts, KeyFacts
<1>8. loc[k] # b /\ loc[k] \in Place /\ \A r \in Proc : loc[k] # <<"rd", r>>
    BY <1>6, Constants DEF Place
<1>9. /\ Off(loc, k, b, "todo") /\ Off(loc, k, b, "tosend") /\ Off(loc, k, b, "wr")
      /\ Off(loc, k, b, "cp")
    BY <1>6 DEF Off
<1>10. InTodo(m)' /\ InTosend(m)' /\ InWr(m)' /\ InCp(m)'
    BY <1>3, <1>4, <1>6, <1>8, <1>9, MoveKept
<1>11. RdAt("swallow") \in RdState /\ RdAt("swallow").pc = "swallow"
    BY Constants DEF RdAt, RdState
<1>12. rd \in [Proc -> RdState]
    BY DEF IInv, TypeOK
<1>13. rd' \in [Proc -> RdState]
    BY <1>3, <1>11, <1>12
<1>14. InRd(m)'
    <2>1. rd[C].pc \notin {"send", "swallow"}
        BY <1>3
    <2>2. QED BY <1>3, <1>6, <1>7, <1>8, <1>11, <2>1, Constants, RdTake
<1>15. TypeOK' /\ Bounded'
    BY <1>3, <1>6, <1>13 DEF IInv, TypeOK, Bounded
<1>16. ArrayOK(m)'
    <2>1. b \notin Uncomputed /\ b \notin Computed
        BY Constants DEF Uncomputed, Computed
    <2>2. QED BY <1>3, <1>4, <1>6, <1>8, <2>1, MoveArrays
<1>17. m[Bye] = <<"rd", C>>
    BY <1>4, <1>6, <1>7, Moved
<1>18. UNCHANGED cp[C] /\ cp'[S].pc \in {"pull", "compute"} /\ rd[C].pc \notin {"unlock", "done"}
    BY <1>3 DEF IInv, SignalOK
<1>19. QED BY <1>3, <1>4, <1>6, <1>7, <1>8, <1>10, <1>14, <1>15, <1>16, <1>17, <1>18, Hop

\* ... and, after it has swallowed what follows, finds the socket closed or
\* has read the count of bytes that it wants.
LEMMA SwallowedStep ==
    ASSUME NEW loc \in Locs, IInv(loc), rd[C].pc = "swallow",
           rd' = [rd EXCEPT ![C] = RdAt("top")],
           net' \in [Proc -> Seq(Msg)], InNet(loc)', MsgOK',
           UNCHANGED <<job_finished, mutex, stray, up, todo, tosend, arr, peer_known,
                       rebalance_requested, wr, cp, sm, reports>>
    PROVE  Inv'
<1>1. PICK k : k = Bye
    OBVIOUS
<1>2. PICK b : b = Gone
    OBVIOUS
<1> DEFINE m == Move(loc, k, b)
<1>3. /\ rd' = [rd EXCEPT ![C] = RdAt("top")]
      /\ UNCHANGED <<job_finished, mutex, stray, up, todo, tosend, arr, peer_known,
                     rebalance_requested, wr, cp, sm, reports>>
    OBVIOUS
<1>4. k \in Key /\ k # Wake /\ k \notin Job /\ RdHolds(C, k)
    BY <1>1, KeyFacts DEF RdHolds
<1>5. b \in Anywhere /\ b \in Place \cup {Gone} /\ (\A r \in Proc : b # <<"rd", r>>)
    BY <1>2 DEF Anywhere, Gone
<1>6. RdAt("top") \in RdState /\ RdAt("top").pc \notin {"send", "swallow"}
    BY RdAtFacts DEF RdLabel
<1>7. loc[k] = <<"rd", C>> /\ InRd(m)'
    BY <1>3, <1>4, <1>5, <1>6, Constants, RdLeave
<1>8. loc[k] # b /\ loc[k] \in Place
    BY <1>2, <1>7, Constants DEF Place, Gone
<1>9. /\ Off(loc, k, b, "todo") /\ Off(loc, k, b, "tosend") /\ Off(loc, k, b, "wr")
      /\ Off(loc, k, b, "cp") /\ Off(loc, k, b, "net")
    BY <1>2, <1>7 DEF Off, Gone
<1>10. InTodo(m)' /\ InTosend(m)' /\ InNet(m)' /\ InWr(m)' /\ InCp(m)'
    <2>1. InQueue(net', MsgKey, "net", loc)
        BY DEF InNet
    <2>2. InQueue(net', MsgKey, "net", m)
        BY <1>4, <1>5, <1>8, <1>9, <2>1, QueueKept DEF Off
    <2>3. InNet(m)'
        BY <2>2 DEF InNet
    <2>4. QED BY <1>3, <1>4, <1>5, <1>8, <1>9, <2>3, MoveKept
<1>11. rd \in [Proc -> RdState]
    BY DEF IInv, TypeOK
<1>12. rd' \in [Proc -> RdState]
    BY <1>3, <1>6, <1>11
<1>13. TypeOK' /\ Bounded' /\ MsgOK'
    BY <1>3, <1>12 DEF IInv, TypeOK, Bounded
<1>14. ArrayOK(m)'
    <2>1. b \notin Uncomputed /\ b \notin Computed
        BY <1>2 DEF Uncomputed, Computed, Gone
    <2>2. QED BY <1>3, <1>4, <1>5, <1>8, <2>1, MoveArrays
<1>15. m[Bye] = Gone
    BY <1>1, <1>2, <1>4, <1>5, Moved
<1>16. UNCHANGED cp[C] /\ cp'[S].pc \in {"pull", "compute"} /\ rd[C].pc \notin {"unlock", "done"}
    BY <1>3 DEF IInv, SignalOK
<1>17. QED BY <1>3, <1>4, <1>5, <1>7, <1>8, <1>10, <1>13, <1>14, <1>15, <1>16, Hop
-----------------------------------------------------------------------------
(* Steps that give a signal.                                               *)

LEMMA Signalled ==
    ASSUME NEW loc \in Locs, IInv(loc), NEW k \in {Bye, Wake}, NEW b \in Place,
           UNCHANGED <<up, job_finished, arr>>
    PROVE  CountOK(Move(loc, k, b))' /\ ArrayOK(Move(loc, k, b))'
<1> DEFINE m == Move(loc, k, b)
<1>1. k \in Key /\ k \notin Job /\ b \in Anywhere
    BY KeyFacts DEF Anywhere
<1>2. \A j \in Job : m[j] = loc[j]
    BY <1>1, KeyFacts, Moved
<1>3. CountOK(m)'
    <2>1. Job \cap In(m, Counted) = Job \cap In(loc, Counted)
        BY <1>1, CountSame
    <2> HIDE DEF m
    <2>2. QED BY <1>2, <2>1 DEF IInv, CountOK
<1>4. ArrayOK(m)'
    <2> SUFFICES ASSUME NEW j \in 1 .. N - 1
                 PROVE  m[j] = loc[j]
        BY DEF IInv, ArrayOK
    <2>1. QED BY <1>2, Constants DEF Job
<1>5. QED BY <1>3, <1>4

\* The client's main thread says goodbye.
LEMMA MainGoodbyeStep ==
    ASSUME NEW loc \in Locs, IInv(loc), MainGoodbye
    PROVE  Inv'
<1>1. PICK k : k = Bye
    OBVIOUS
<1> DEFINE b == <<"tosend", C>>
           m == Move(loc, k, b)
<1>2. /\ cp[C].pc = "finish" /\ tosend' = [tosend EXCEPT ![C] = Append(@, AllDone)]
      /\ cp' = [cp EXCEPT ![C] = At("join")]
      /\ UNCHANGED <<job_finished, mutex, stray, up, todo, arr, net, peer_known,
                     rebalance_requested, rd, wr, sm, reports>>
    BY DEF MainGoodbye, MainGoto, clientVars
<1>3. loc[Bye] = Unborn /\ job_finished = N /\ wr[S].pc # "bye"
    <2>1. loc[Bye] = Unborn /\ job_finished = N
        BY <1>2 DEF IInv, SignalOK, Ended
    <2>2. QED BY <2>1 DEF IInv, SignalOK, Unborn, Gone
<1>4. /\ k \in Key /\ k \in {Bye, Wake} /\ k = JobOf(AllDone) /\ AllDone \in -1 .. N
      /\ \A r \in Proc : loc[k] # <<"tosend", r>>
    BY <1>1, <1>3, KeyFacts, JobOfFacts, Constants DEF AllDone, Unborn
<1>5. b \in Place /\ b \in Anywhere /\ loc[k] # b
    BY <1>1, <1>3, Constants DEF Place, Anywhere, Unborn
<1>6. TosendPushed(loc, C, k)
    BY <1>2, <1>4, Constants, TosendPush
<1>7. tosend' \in [Proc -> Seq(-1 .. N)] /\ InTosend(m)' /\ m \in Locs
    BY <1>6 DEF TosendPushed
<1>8. /\ Off(loc, k, b, "todo") /\ Off(loc, k, b, "net") /\ Off(loc, k, b, "rd")
      /\ Off(loc, k, b, "wr") /\ Off(loc, k, b, "cp")
    BY <1>1, <1>3 DEF Off, Unborn
<1>9. InTodo(m)' /\ InNet(m)' /\ InRd(m)' /\ InWr(m)'
    BY <1>2, <1>4, <1>5, <1>8, MoveKept
<1>10. At("join") \in CpState /\ At("join").pc = "join" /\ cp \in [Proc -> CpState]
    BY Constants DEF IInv, TypeOK, At, CpState
<1>11. cp' \in [Proc -> CpState] /\ cp'[C].pc = "join" /\ cp'[S] = cp[S]
    BY <1>2, <1>10, Constants
<1>12. InCp(m)'
    <2>1. ASSUME NEW r \in Proc, NEW x \in Key
          PROVE  m[x] = <<"cp", r>> <=> cp'[r].pc = "compute" /\ x = JobOf(cp'[r].id)
        <3>1. m[x] = <<"cp", r>> <=> loc[x] = <<"cp", r>>
            BY <1>4, <1>5, <1>8, OffKept
        <3>2. cp'[r].pc = "compute" /\ x = JobOf(cp'[r].id)
                <=> cp[r].pc = "compute" /\ x = JobOf(cp[r].id)
            BY <1>2, <1>11, Constants
        <3>3. QED BY <3>1, <3>2 DEF IInv, InCp
    <2>2. QED BY <2>1 DEF InCp
<1>13. TypeOK' /\ Bounded' /\ MsgOK'
    BY <1>2, <1>7, <1>11, NetKept DEF IInv, TypeOK, Bounded
<1>14. CountOK(m)' /\ ArrayOK(m)'
    BY <1>2, <1>4, <1>5, Signalled
<1>15. SignalOK(m)'
    <2>1. m[Bye] = b /\ b # Counted /\ m[Wake] = loc[Wake]
        BY <1>1, <1>4, <1>5, KeyFacts, Moved DEF Counted
    <2> HIDE DEF m
    <2>2. QED BY <1>2, <1>3, <1>11, <2>1 DEF IInv, SignalOK
<1> HIDE DEF m
<1>16. QED BY <1>7, <1>9, <1>12, <1>13, <1>14, <1>15, Assemble

\* The client's reader wakes the main thread when it exits.
LEMMA ReaderWakeStep ==
    ASSUME NEW loc \in Locs, IInv(loc), ReaderTop, job_finished = N
    PROVE  Inv'
<1>1. PICK k : k = Wake
    OBVIOUS
<1> DEFINE b == <<"todo", C>>
           m == Move(loc, k, b)
<1>2. /\ rd[C].pc = "top" /\ Len(todo[C]) < N
      /\ todo' = [todo EXCEPT ![C] = Append(@, AllDone)] /\ mutex' = "reader"
      /\ rd' = [rd EXCEPT ![C] = RdAt("unlock")]
      /\ UNCHANGED <<job_finished, stray, up, tosend, arr, net, peer_known,
                     rebalance_requested, wr, cp, sm, reports>>
    BY DEF ReaderTop
<1>3. loc[Wake] = Unborn
    BY <1>2 DEF IInv, SignalOK
<1>4. /\ k \in Key /\ k \in {Bye, Wake} /\ k = TodoKey[AllDone] /\ AllDone \in -1 .. N
      /\ \A r \in Proc : loc[k] # <<"todo", r>>
    <2>1. AllDone \in -1 .. N
        BY Constants DEF AllDone
    <2>2. QED BY <1>1, <1>3, <2>1, KeyFacts DEF Unborn
<1>5. b \in Place /\ b \in Anywhere /\ loc[k] # b
    BY <1>1, <1>3, Constants DEF Place, Anywhere, Unborn
<1>6. TodoPushed(loc, C, k)
    BY <1>2, <1>4, Constants, TodoPush
<1>7. todo' \in [Proc -> Seq(-1 .. N)] /\ Bounded' /\ InTodo(m)' /\ m \in Locs
    BY <1>6 DEF TodoPushed
<1>8. /\ Off(loc, k, b, "tosend") /\ Off(loc, k, b, "net") /\ Off(loc, k, b, "rd")
      /\ Off(loc, k, b, "wr") /\ Off(loc, k, b, "cp")
    BY <1>1, <1>3 DEF Off, Unborn
<1>9. InTosend(m)' /\ InNet(m)' /\ InWr(m)' /\ InCp(m)'
    BY <1>2, <1>4, <1>5, <1>8, MoveKept
<1>10. RdAt("unlock") \in RdState /\ RdAt("unlock").pc = "unlock"
    BY RdAtFacts DEF RdLabel
<1>11. rd' \in [Proc -> RdState] /\ InRd(m)'
    <2>1. rd[C].pc \notin {"send", "swallow"} /\ RdAt("unlock").pc \notin {"send", "swallow"}
        BY <1>2, <1>10
    <2>2. QED BY <1>2, <1>4, <1>5, <1>8, <1>10, <2>1, Constants, RdIdle
<1>12. rd'[C].pc = "unlock"
    <2>1. rd \in [Proc -> RdState]
        BY DEF IInv, TypeOK
    <2>2. QED BY <1>2, <1>10, <2>1, Constants
<1>13. TypeOK' /\ MsgOK'
    BY <1>2, <1>7, <1>11, NetKept DEF IInv, TypeOK
<1>14. CountOK(m)' /\ ArrayOK(m)'
    BY <1>2, <1>4, <1>5, Signalled
<1>15. SignalOK(m)'
    <2>1. m[Wake] = <<"todo", C>> /\ m[Bye] = loc[Bye]
        BY <1>1, <1>4, <1>5, KeyFacts, Moved
    <2> HIDE DEF m
    <2>2. QED BY <1>2, <1>12, <2>1 DEF IInv, SignalOK
<1> HIDE DEF m
<1>16. QED BY <1>7, <1>9, <1>11, <1>13, <1>14, <1>15, Assemble
-----------------------------------------------------------------------------
(* The invariant holds.                                                    *)

LEMMA IInvIsInv ==
    ASSUME NEW loc \in Locs, IInv(loc)'
    PROVE  Inv'
BY DEF Inv

LEMMA ReaderPeerStep ==
    ASSUME NEW loc \in Locs, IInv(loc), UNCHANGED clientVars,
           NEW p \in Proc, NEW loop \in {"top", "read"},
           state_handle(p, loop) \/ adaptor(p, loop) \/ ReadRebalance(p, loop)
    PROVE  Inv'
<1>1. CASE state_handle(p, loop)
    BY <1>1, StateHandleStep, IInvIsInv
<1>2. CASE ReadRebalance(p, loop)
    BY <1>2, RebalanceStep, IInvIsInv
<1>3. CASE AdaptorAsk(p, loop)
    BY <1>3, AskStep, IInvIsInv
<1>4. CASE AdaptorPull(p)
    BY <1>4, AdaptorPullStep
<1>5. CASE AdaptorSend(p, loop)
    BY <1>5, AdaptorSendStep
<1>6. QED BY <1>1, <1>2, <1>3, <1>4, <1>5 DEF adaptor

LEMMA ClientKeeps ==
    ASSUME NEW loc \in Locs, IInv(loc), ClientStep
    PROVE  Inv'
<1>1. CASE MainLock \/ MainContinue \/ MainJoin \/ MainSave
    BY <1>1, MainQuiet, IInvIsInv
<1>2. CASE MainPull
    BY <1>2, MainPullStep
<1>3. CASE MainCompute
    BY <1>3, MainComputeStep
<1>4. CASE MainGoodbye
    BY <1>4, MainGoodbyeStep
<1>5. CASE WriterTop
    BY <1>5, WriterTopStep, IInvIsInv
<1>6. CASE WriterPull
    <2>1. UNCHANGED clientVars
        BY <1>6 DEF WriterPull
    <2>2. QED BY <1>6, <2>1, WriterPullStep
<1>7. CASE WriterSend
    <2>1. UNCHANGED clientVars
        BY <1>7 DEF WriterSend
    <2>2. QED BY <1>7, <2>1, WriterSendStep
<1>8. CASE ReaderTop
    BY <1>8, ReaderTopQuiet, ReaderWakeStep, IInvIsInv
<1>9. CASE ReaderUnlock
    BY <1>9, ReaderUnlockStep, IInvIsInv
<1>10. CASE ReaderData
    <2>1. Head(net[C]).id \in 0 .. N - 1 \/ Head(net[C]).id >= N \/ Head(net[C]).id = AllDone
        BY <1>10 DEF ReaderData
    <2>2. QED BY <1>10, <2>1, ReaderResultStep, ReaderJobStep, ReaderByeStep
<1>11. CASE ReaderSwallow
    <2>1. /\ rd[C].pc = "swallow"
          /\ UNCHANGED <<job_finished, mutex, stray, up, todo, tosend, arr, peer_known,
                         rebalance_requested, wr, cp, sm, reports>>
          /\ UNCHANGED rd \/ rd' = [rd EXCEPT ![C] = RdAt("top")]
        BY <1>11 DEF ReaderSwallow, clientVars
    <2>2. CASE UNCHANGED rd
        BY <1>11, <2>2, SwallowStep, IInvIsInv
    <2>3. CASE rd' = [rd EXCEPT ![C] = RdAt("top")]
        BY <1>11, <2>1, <2>3, SwallowStep, SwallowedStep
    <2>4. QED BY <2>1, <2>2, <2>3
<1>12. CASE ReaderEof
    <2>1. UNCHANGED clientVars /\ rd[C].pc \in {"read", "swallow"}
        BY <1>12 DEF ReaderEof
    <2>2. CASE rd[C].pc = "read"
        BY <1>12, <2>1, <2>2, EofQuiet, IInvIsInv
    <2>3. CASE rd[C].pc = "swallow"
        <3>1. /\ UNCHANGED <<job_finished, mutex, stray, up, todo, tosend, arr, net, peer_known,
                             rebalance_requested, wr, cp, sm, reports>>
              /\ rd' = [rd EXCEPT ![C] = RdAt("top")]
            BY <1>12 DEF ReaderEof, clientVars
        <3>2. QED BY <2>3, <3>1, NetKept, SwallowedStep
    <2>4. QED BY <2>1, <2>2, <2>3
<1>13. CASE ReaderPeer
    BY <1>13, Constants, ReaderPeerStep DEF ReaderPeer
<1>14. QED BY <1>1, <1>2, <1>3, <1>4, <1>5, <1>6, <1>7, <1>8, <1>9, <1>10, <1>11, <1>12, <1>13
        DEF ClientStep, run_client, write_to_server, read_from_server

LEMMA ServerKeeps ==
    ASSUME NEW loc \in Locs, IInv(loc), ServerStep
    PROVE  Inv'
<1>1. UNCHANGED clientVars /\ (process_client \/ compute_worker \/ write_to_clients)
    BY DEF ServerStep
<1>2. CASE transfer_handler
    BY <1>1, <1>2, HandlerJobStep, HandlerByeStep
<1>3. CASE ProcessEof
    BY <1>1, <1>3, EofQuiet, IInvIsInv
<1>4. CASE state_handle(S, "read") \/ adaptor(S, "read") \/ ReadRebalance(S, "read")
    BY <1>1, <1>4, Constants, ReaderPeerStep
<1>5. CASE WorkerPull
    BY <1>1, <1>5, WorkerPullStep
<1>6. CASE WorkerCompute
    BY <1>1, <1>6, WorkerComputeStep
<1>7. CASE ResultPull
    BY <1>1, <1>7, WriterPullStep
<1>8. CASE ResultSend
    BY <1>1, <1>8, WriterSendStep
<1>9. CASE close_server
    BY <1>1, <1>9, EndStep, IInvIsInv
<1>10. QED BY <1>1, <1>2, <1>3, <1>4, <1>5, <1>6, <1>7, <1>8, <1>9
        DEF process_client, compute_worker, write_to_clients

LEMMA EitherKeeps ==
    ASSUME NEW loc \in Locs, IInv(loc), NEW p \in Proc, EitherStep(p)
    PROVE  Inv'
<1>1. UNCHANGED clientVars /\ (state_manager(p) \/ send_state(p) \/ Killed(p))
    BY DEF EitherStep
<1>2. CASE state_manager(p) \/ send_state(p)
    BY <1>1, <1>2, ReportStep, IInvIsInv
<1>3. CASE Killed(p)
    <2>1. close_server \/ \E r \in Proc : Killed(r)
        BY <1>3
    <2>2. QED BY <1>1, <2>1, EndStep, IInvIsInv
<1>4. QED BY <1>1, <1>2, <1>3

\* bootstrap puts half of the jobs into each queue of the client.
LEMMA Bootstrapped ==
    ASSUME NEW h \in Nat, h = N \div 2, N = 2 * h, NEW first \in {0, h}, NEW f,
           \A id \in Job : f[id] = id
    PROVE  /\ bootstrap(first) \in Seq(-1 .. N) /\ Len(bootstrap(first)) = h
           /\ Lists(bootstrap(first), f, first .. first + h - 1)
<1> DEFINE s == bootstrap(first)
<1>1. s = [i \in 1 .. h |-> i - 1 + first] /\ first \in Nat
    BY DEF bootstrap
<1>2. ASSUME NEW i \in 1 .. h
      PROVE  s[i] = i - 1 + first /\ s[i] \in Job /\ s[i] \in -1 .. N /\ f[s[i]] = i - 1 + first
    <2>1. s[i] = i - 1 + first
        BY <1>1
    <2>2. i - 1 + first \in Job /\ i - 1 + first \in -1 .. N
        BY Constants DEF Job
    <2>3. QED BY <2>1, <2>2
<1>3. s \in [1 .. h -> -1 .. N] /\ DOMAIN s = 1 .. h
    BY <1>1, <1>2
<1>4. s \in Seq(-1 .. N) /\ Len(s) = h
    BY <1>3
<1> HIDE DEF s
<1>5. ASSUME NEW i \in DOMAIN s
      PROVE  f[s[i]] \in first .. first + h - 1
    <2>1. f[s[i]] = i - 1 + first /\ i \in 1 .. h
        BY <1>2, <1>3
    <2>2. i - 1 + first \in first .. first + h - 1
        BY <1>1, <2>1
    <2>3. QED BY <2>1, <2>2
<1>6. ASSUME NEW i \in DOMAIN s, NEW j \in DOMAIN s, f[s[i]] = f[s[j]]
      PROVE  i = j
    <2>1. i - 1 + first = j - 1 + first /\ i \in 1 .. h /\ j \in 1 .. h
        BY <1>2, <1>3, <1>6
    <2>2. QED BY <1>1, <2>1
<1>7. ASSUME NEW x \in first .. first + h - 1
      PROVE  \E i \in DOMAIN s : f[s[i]] = x
    <2>1. x \in Int /\ first \in Int /\ first <= x /\ x <= first + h - 1
        BY <1>1
    <2>2. PICK i \in 1 .. h : i - 1 + first = x
        BY <2>1
    <2>3. QED BY <1>2, <1>3, <2>2
<1>8. Lists(s, f, first .. first + h - 1)
    BY <1>5, <1>6, <1>7 DEF Lists
<1>9. QED BY <1>4, <1>8 DEF s

LEMMA InitInv == Init => Inv
<1> SUFFICES ASSUME Init PROVE Inv
    OBVIOUS
<1>1. PICK h \in Nat : h = N \div 2 /\ N = 2 * h /\ h >= 1
    <2>1. N \in Nat /\ N >= 1 /\ N % 2 = 0
        BY PeerAssumption
    <2>2. N \div 2 \in Nat /\ N = 2 * (N \div 2) /\ N \div 2 >= 1
        BY <2>1, Z3
    <2>3. QED BY <2>2, Zenon
<1> DEFINE loc == [k \in Key |-> IF k \notin Job THEN Unborn
                                 ELSE IF k < h THEN <<"todo", C>> ELSE <<"tosend", C>>]
<1>2. loc \in Locs
    BY Constants DEF Locs, Place
<1>3. loc[Bye] = Unborn /\ loc[Wake] = Unborn
    BY KeyFacts
<1>4. \A j \in Job : j \in Key /\ loc[j] = IF j < h THEN <<"todo", C>> ELSE <<"tosend", C>>
    BY KeyFacts
<1>5. /\ In(loc, <<"todo", C>>) = 0 .. h - 1 /\ In(loc, <<"tosend", C>>) = h .. h + h - 1
      /\ \A kind, r : <<kind, r>> \notin {Unborn, <<"todo", C>>, <<"tosend", C>>}
            => In(loc, <<kind, r>>) = {}
    <2>1. In(loc, <<"todo", C>>) = {k \in Job : k < h}
        BY <1>4, KeyFacts DEF In, Unborn
    <2>2. In(loc, <<"tosend", C>>) = {k \in Job : ~(k < h)}
        BY <1>4, KeyFacts DEF In, Unborn
    <2>3. {k \in Job : k < h} = 0 .. h - 1 /\ {k \in Job : ~(k < h)} = h .. h + h - 1
        BY <1>1 DEF Job
    <2>4. ASSUME NEW kind, NEW r, <<kind, r>> \notin {Unborn, <<"todo", C>>, <<"tosend", C>>}
          PROVE  In(loc, <<kind, r>>) = {}
        BY <2>4 DEF In
    <2>5. QED BY <2>1, <2>2, <2>3, <2>4
<1> HIDE DEF loc
<1>6. \A id \in Job : TodoKey[id] = id /\ SendKey[id] = id
    <2> SUFFICES ASSUME NEW id \in Job PROVE TodoKey[id] = id /\ SendKey[id] = id
        OBVIOUS
    <2>1. id \in -1 .. N /\ id # AllDone
        BY Constants DEF Job, AllDone
    <2>2. JobOf(id) = id
        BY Constants DEF Job, JobOf
    <2>3. QED BY <2>1, <2>2, KeyFacts
<1>7. /\ bootstrap(0) \in Seq(-1 .. N) /\ Len(bootstrap(0)) = h
      /\ Lists(bootstrap(0), TodoKey, 0 .. h - 1)
    <2>1. 0 + h - 1 = h - 1
        BY <1>1
    <2>2. QED BY <1>1, <1>6, <2>1, Bootstrapped
<1>8. bootstrap(h) \in Seq(-1 .. N) /\ Lists(bootstrap(h), SendKey, h .. h + h - 1)
    BY <1>1, <1>6, Bootstrapped
<1>9. \A f : Lists(<<>>, f, {})
    BY DEF Lists
<1>10. InTodo(loc) /\ Bounded
    <2>1. /\ todo[C] = bootstrap(0) /\ todo[S] = <<>>
          /\ In(loc, <<"todo", S>>) = {}
        BY <1>5, Constants DEF Init, Unborn
    <2>2. InTodo(loc)
        BY <1>5, <1>7, <1>9, <2>1, Constants DEF InTodo, InQueue
    <2>3. Len(todo[C]) <= N /\ Len(todo[S]) <= N
        BY <1>1, <1>7, <2>1
    <2>4. QED BY <2>2, <2>3, Constants DEF Bounded
<1>11. InTosend(loc)
    <2>1. /\ tosend[C] = bootstrap(h) /\ tosend[S] = <<>>
          /\ In(loc, <<"tosend", S>>) = {}
        BY <1>1, <1>5, Constants DEF Init, Unborn
    <2>2. QED BY <1>5, <1>8, <1>9, <2>1, Constants DEF InTosend, InQueue
<1>12. InNet(loc) /\ MsgOK
    <2>1. \A r \in Proc : net[r] = <<>> /\ In(loc, <<"net", r>>) = {}
        BY <1>5 DEF Init, Unborn
    <2>2. InNet(loc)
        BY <1>9, <2>1 DEF InNet, InQueue
    <2>3. \A r \in Proc : DOMAIN net[r] = {}
        <3>1. \A x : x = <<>> => DOMAIN x = {}
            OBVIOUS
        <3>2. QED BY <2>1, <3>1, Zenon
    <2>4. MsgOK
        BY <2>3, Zenon DEF MsgOK
    <2>5. QED BY <2>2, <2>4
<1>13. InRd(loc) /\ InWr(loc) /\ InCp(loc)
    <2>1. \A r \in Proc, k \in Key :
            loc[k] # <<"rd", r>> /\ loc[k] # <<"wr", r>> /\ loc[k] # <<"cp", r>>
        BY <1>5 DEF In, Unborn
    <2>2. \A r \in Proc : /\ rd[r].pc \notin {"send", "swallow"}
                          /\ wr[r].pc # "send" /\ cp[r].pc # "compute"
        BY DEF Init, RdAt, At
    <2>3. QED BY <2>1, <2>2 DEF InRd, InWr, InCp, RdHolds
<1>14. CountOK(loc)
    <2>1. Job \cap In(loc, Counted) = {}
        <3>1. In(loc, Counted) = {}
            BY <1>5 DEF Counted, Unborn
        <3>2. QED BY <3>1
    <2>2. \A j \in Job : loc[j] \notin {Unborn, Gone}
        BY <1>4 DEF Unborn, Gone
    <2>3. QED BY <2>1, <2>2, FS_EmptySet DEF CountOK, Init
<1>15. SignalOK(loc)
    <2>1. Unborn # Counted
        BY DEF Unborn, Counted
    <2>2. cp[C].pc = "lock" /\ cp[S].pc = "pull" /\ wr[S].pc = "pull" /\ ~stray
        BY Constants DEF Init, At
    <2>3. QED BY <1>3, <2>1, <2>2 DEF SignalOK, Ended
<1>16. ArrayOK(loc)
    <2> SUFFICES ASSUME NEW j \in 1 .. N - 1
                 PROVE  /\ arr[C][j] = IF loc[j] = Counted THEN 1 ELSE 0
                        /\ loc[j] \in {<<"todo", S>>, <<"rd", S>>, <<"cp", S>>} => arr[S][j] = 0
                        /\ loc[j] \in {<<"tosend", S>>, <<"wr", S>>} => arr[S][j] = 1
        BY DEF ArrayOK
    <2>1. j \in Job /\ j \in 0 .. N /\ j # N
        BY Constants DEF Job
    <2>2. arr[C][j] = 0 /\ arr[S][j] = 0
        BY <2>1, Constants DEF Init
    <2>3. loc[j] \notin {Counted, <<"tosend", S>>, <<"wr", S>>}
        BY <1>4, <2>1, Constants DEF Counted
    <2>4. QED BY <2>2, <2>3
<1>17. TypeOK
    <2>1. up \in [Proc -> BOOLEAN] /\ peer_known \in [Proc -> BOOLEAN]
          /\ rebalance_requested \in [Proc -> BOOLEAN] /\ reports \in [Proc -> Nat]
        BY DEF Init
    <2>2. todo \in [Proc -> Seq(-1 .. N)] /\ tosend \in [Proc -> Seq(-1 .. N)]
        <3>1. <<>> \in Seq(-1 .. N)
            OBVIOUS
        <3>2. QED BY <1>1, <1>7, <1>8, <3>1 DEF Init
    <2>3. arr \in [Proc -> [0 .. N -> Value]]
        BY DEF Init, Value
    <2>4. net \in [Proc -> Seq(Msg)]
        BY DEF Init
    <2>5. rd \in [Proc -> RdState]
        <3>1. RdAt("top") \in RdState /\ RdAt("read") \in RdState
            BY RdAtFacts DEF RdLabel
        <3>2. QED BY <3>1 DEF Init
    <2>6. wr \in [Proc -> WrState] /\ cp \in [Proc -> CpState]
        <3>1. /\ At("top") \in WrState /\ At("pull") \in WrState
              /\ At("lock") \in CpState /\ At("pull") \in CpState
            BY Constants DEF At, WrState, CpState
        <3>2. QED BY <3>1 DEF Init
    <2>7. sm \in [Proc -> -1 .. N]
        BY Constants DEF Init, NoReport
    <2>8. job_finished \in 0 .. N /\ mutex \in {"nobody", "reader"}
        BY Constants DEF Init
    <2>9. stray \in BOOLEAN
        BY Zenon DEF Init
    <2>10. QED BY <2>1, <2>2, <2>3, <2>4, <2>5, <2>6, <2>7, <2>8, <2>9 DEF TypeOK
<1>18. IInv(loc)
    BY <1>10, <1>11, <1>12, <1>13, <1>14, <1>15, <1>16, <1>17 DEF IInv
<1>19. QED BY <1>2, <1>18 DEF Inv

LEMMA Stutter ==
    ASSUME NEW loc \in Locs, IInv(loc), UNCHANGED vars
    PROVE  Inv'
<1>1. UNCHANGED <<up, todo, tosend, arr, net, peer_known, rebalance_requested,
                  rd, wr, cp, sm, reports, job_finished, mutex, stray>>
    BY DEF vars, peerVars, clientVars
<1>2. TypeOK'
    BY <1>1 DEF IInv, TypeOK
<1>3. InNet(loc)' /\ MsgOK'
    BY <1>1, NetKept
<1>4. InRd(loc)' /\ InWr(loc)' /\ InCp(loc)'
    BY <1>1 DEF IInv, InRd, InWr, InCp, RdHolds
<1>5. SignalOK(loc)'
    BY <1>1 DEF IInv, SignalOK
<1>6. IInv(loc)'
    BY <1>1, <1>2, <1>3, <1>4, <1>5, Quiet
<1>7. QED BY <1>6, IInvIsInv

\* Init implies the inductive invariant and every step keeps it.
THEOREM Invariance == Spec => []Inv
<1>1. Init => Inv
    BY InitInv
<1>2. ASSUME Inv, [Next]_vars
      PROVE  Inv'
    <2>1. PICK loc \in Locs : IInv(loc)
        BY <1>2 DEF Inv
    <2>2. CASE ClientStep
        BY <2>1, <2>2, ClientKeeps
    <2>3. CASE ServerStep
        BY <2>1, <2>3, ServerKeeps
    <2>4. CASE \E p \in Proc : EitherStep(p)
        BY <2>1, <2>4, EitherKeeps
    <2>5. CASE UNCHANGED vars
        BY <2>1, <2>5, Stutter
    <2>6. QED BY <1>2, <2>2, <2>3, <2>4, <2>5 DEF Next
<1>3. QED BY <1>1, <1>2, PTL DEF Spec
-----------------------------------------------------------------------------
(* What the invariant says about the programs.                             *)

\* What a queue or the stream of p holds is there for loc too.
LEMMA TodoHolds ==
    ASSUME NEW loc \in Locs, IInv(loc), NEW p \in Proc, NEW i \in DOMAIN todo[p]
    PROVE  /\ todo[p] \in Seq(-1 .. N) /\ todo[p][i] \in -1 .. N
           /\ TodoKey[todo[p][i]] \in Key /\ loc[TodoKey[todo[p][i]]] = <<"todo", p>>
           /\ TodoKey[todo[p][i]] # NoKey
<1>1. todo[p] \in Seq(-1 .. N)
    BY DEF IInv, TypeOK
<1>2. todo[p][i] \in -1 .. N
    BY <1>1, Element
<1>3. TodoKey[todo[p][i]] \in Key /\ TodoKey[todo[p][i]] # NoKey
    <2>1. TodoKey[todo[p][i]] \in Key
        BY <1>2, KeyFacts
    <2>2. QED BY <2>1, KeyFacts
<1>4. TodoKey[todo[p][i]] \in In(loc, <<"todo", p>>)
    BY <1>3 DEF IInv, InTodo, InQueue, Lists
<1>5. QED BY <1>1, <1>2, <1>3, <1>4 DEF In

LEMMA TosendHolds ==
    ASSUME NEW loc \in Locs, IInv(loc), NEW p \in Proc, NEW i \in DOMAIN tosend[p]
    PROVE  /\ tosend[p] \in Seq(-1 .. N) /\ tosend[p][i] \in -1 .. N
           /\ SendKey[tosend[p][i]] \in Job \cup {Bye}
           /\ loc[SendKey[tosend[p][i]]] = <<"tosend", p>>
           /\ SendKey[tosend[p][i]] # NoKey
<1>1. tosend[p] \in Seq(-1 .. N)
    BY DEF IInv, TypeOK
<1>2. tosend[p][i] \in -1 .. N
    BY <1>1, Element
<1>3. SendKey[tosend[p][i]] \in Job \cup {Bye} /\ SendKey[tosend[p][i]] # NoKey
    <2>1. SendKey[tosend[p][i]] \in Job \cup {Bye}
        BY <1>2, KeyFacts
    <2>2. QED BY <2>1, KeyFacts
<1>4. SendKey[tosend[p][i]] \in In(loc, <<"tosend", p>>)
    <2>1. Lists(tosend[p], SendKey, In(loc, <<"tosend", p>>))
        BY DEF IInv, InTosend, InQueue
    <2>2. QED BY <1>3, <2>1 DEF Lists
<1>5. QED BY <1>1, <1>2, <1>3, <1>4 DEF In

LEMMA NetHolds ==
    ASSUME NEW loc \in Locs, IInv(loc), NEW p \in Proc, NEW i \in DOMAIN net[p],
           net[p][i].type = "data"
    PROVE  /\ net[p] \in Seq(Msg) /\ net[p][i] \in Msg
           /\ MsgKey[net[p][i]] = JobOf(net[p][i].id)
           /\ MsgKey[net[p][i]] \in Job \cup {Bye} /\ MsgKey[net[p][i]] # NoKey
           /\ loc[MsgKey[net[p][i]]] = <<"net", p>>
<1>1. net[p] \in Seq(Msg)
    BY DEF IInv, TypeOK
<1>2. net[p][i] \in Msg
    BY <1>1
<1>3. /\ MsgKey[net[p][i]] \in Job \cup {Bye} /\ MsgKey[net[p][i]] # NoKey
      /\ MsgKey[net[p][i]] = JobOf(net[p][i].id)
    <2>1. MsgKey[net[p][i]] \in Job \cup {Bye} /\ MsgKey[net[p][i]] = JobOf(net[p][i].id)
        BY <1>2, KeyFacts
    <2>2. QED BY <2>1, KeyFacts
<1>4. MsgKey[net[p][i]] \in In(loc, <<"net", p>>)
    <2>1. Lists(net[p], MsgKey, In(loc, <<"net", p>>))
        BY DEF IInv, InNet, InQueue
    <2>2. QED BY <1>3, <2>1 DEF Lists
<1>5. QED BY <1>1, <1>2, <1>3, <1>4 DEF In

\* When all jobs are counted there is none in any queue or hand.
LEMMA AllCounted ==
    ASSUME NEW loc \in Locs, IInv(loc), job_finished = N
    PROVE  /\ \A j \in Job : loc[j] = Counted
           /\ \A p \in Proc : (loc[Wake] = <<"todo", p>>) \/ todo[p] = <<>>
           /\ \A p \in Proc : (loc[Bye] = <<"tosend", p>>) \/ tosend[p] = <<>>
<1>1. \A j \in Job : loc[j] = Counted
    BY CountFacts DEF IInv
<1>2. ASSUME NEW p \in Proc, todo[p] # <<>>
      PROVE  loc[Wake] = <<"todo", p>>
    <2>1. todo[p] \in Seq(-1 .. N)
        BY DEF IInv, TypeOK
    <2>2. 1 \in DOMAIN todo[p]
        BY <1>2, <2>1
    <2>3. PICK k : k = TodoKey[todo[p][1]]
        OBVIOUS
    <2>4. k \in Key /\ loc[k] = <<"todo", p>> /\ todo[p][1] \in -1 .. N
        BY <2>2, <2>3, TodoHolds
    <2>5. k \notin Job
        BY <1>1, <2>4 DEF Counted
    <2>6. k = Wake
        BY <2>3, <2>4, <2>5, KeyFacts
    <2>7. QED BY <2>4, <2>6
<1>3. ASSUME NEW p \in Proc, tosend[p] # <<>>
      PROVE  loc[Bye] = <<"tosend", p>>
    <2>1. tosend[p] \in Seq(-1 .. N)
        BY DEF IInv, TypeOK
    <2>2. 1 \in DOMAIN tosend[p]
        BY <1>3, <2>1
    <2>3. PICK k : k = SendKey[tosend[p][1]]
        OBVIOUS
    <2>4. k \in Job \cup {Bye} /\ loc[k] = <<"tosend", p>>
        BY <2>2, <2>3, TosendHolds
    <2>5. k \notin Job
        BY <1>1, <2>4 DEF Counted
    <2>6. QED BY <2>4, <2>5
<1>4. QED BY <1>1, <1>2, <1>3

\* The goodbye is under way only when all jobs are counted.
LEMMA ByeIsLast ==
    ASSUME NEW loc \in Locs, IInv(loc), loc[Bye] # Unborn
    PROVE  job_finished = N
BY DEF IInv, SignalOK, Ended

LEMMA CpHolds ==
    ASSUME NEW loc \in Locs, IInv(loc), NEW p \in Proc, cp[p].pc = "compute"
    PROVE  cp[p].id \in 0 .. N /\ JobOf(cp[p].id) \in Job /\ loc[JobOf(cp[p].id)] = <<"cp", p>>
<1>1. cp[p].id \in 0 .. N
    BY DEF IInv, TypeOK, CpState
<1>2. cp[p].id \in 0 .. 2 * N
    BY <1>1, Constants
<1>3. JobOf(cp[p].id) \in Job
    BY <1>2, JobOfFacts
<1>4. QED BY <1>1, <1>3, KeyFacts DEF IInv, InCp

LEMMA RdHoldsJob ==
    ASSUME NEW loc \in Locs, IInv(loc), NEW p \in Proc, rd[p].pc = "send"
    PROVE  rd[p].id \in 0 .. N /\ JobOf(rd[p].id) \in Job /\ loc[JobOf(rd[p].id)] = <<"rd", p>>
<1>1. rd[p].id \in 0 .. N
    BY DEF IInv, TypeOK, RdState
<1>2. rd[p].id \in 0 .. 2 * N
    BY <1>1, Constants
<1>3. JobOf(rd[p].id) \in Job
    BY <1>2, JobOfFacts
<1>4. QED BY <1>1, <1>3, KeyFacts DEF IInv, InRd, RdHolds

LEMMA WrHolds ==
    ASSUME NEW loc \in Locs, IInv(loc), NEW p \in Proc, wr[p].pc = "send"
    PROVE  /\ wr[p].id \in -1 .. N /\ JobOf(wr[p].id) \in Job \cup {Bye}
           /\ loc[JobOf(wr[p].id)] = <<"wr", p>>
           /\ wr[p].id # AllDone => wr[p].id \in 0 .. N /\ JobOf(wr[p].id) \in Job
<1>1. wr[p].id \in -1 .. N
    BY DEF IInv, TypeOK, WrState
<1>2. wr[p].id # AllDone => wr[p].id \in 0 .. N /\ JobOf(wr[p].id) \in Job
    BY <1>1, Constants, KeyFacts DEF AllDone
<1>3. JobOf(wr[p].id) \in Job \cup {Bye}
    BY <1>1, <1>2, JobOfFacts
<1>4. QED BY <1>1, <1>2, <1>3, KeyFacts DEF IInv, InWr

LEMMA GoodbyeLemma ==
    ASSUME NEW loc \in Locs, IInv(loc)
    PROVE  GoodbyeSafe
<1>1. ASSUME wr[S].pc = "bye"
      PROVE  todo[S] = <<>> /\ tosend[S] = <<>> /\ cp[S].pc = "pull" /\ rd[S].pc # "send"
    <2>1. loc[Bye] \in {<<"net", C>>, <<"rd", C>>, Gone}
        BY <1>1 DEF IInv, SignalOK
    <2>2. loc[Bye] # Unborn /\ loc[Bye] # <<"tosend", S>>
        BY <2>1 DEF Unborn, Gone
    <2>3. loc[Wake] # <<"todo", S>>
        BY Constants DEF IInv, SignalOK, Unborn, Gone
    <2>4. job_finished = N
        BY <2>2, ByeIsLast
    <2>5. todo[S] = <<>> /\ tosend[S] = <<>> /\ \A j \in Job : loc[j] = Counted
        BY <2>2, <2>3, <2>4, Constants, AllCounted
    <2>6. cp[S].pc # "compute"
        BY <2>5, Constants, CpHolds DEF Counted
    <2>7. rd[S].pc # "send"
        BY <2>5, Constants, RdHoldsJob DEF Counted
    <2>8. QED BY <2>5, <2>6, <2>7 DEF IInv, SignalOK
<1>2. ASSUME rd[C].pc = "swallow", NEW i \in DOMAIN net[C]
      PROVE  net[C][i].type # "data"
    BY <1>2, SwallowedIsOther
<1>3. QED BY <1>1, <1>2 DEF GoodbyeSafe

\* A queue that does not hold job k has room for it.
LEMMA QueueHasRoom ==
    ASSUME NEW s \in Seq(-1 .. N), NEW f, NEW X, Lists(s, f, X), NEW k \in Job,
           \A i \in DOMAIN s : f[s[i]] \in Job /\ f[s[i]] # k
    PROVE  Len(s) < N
<1>1. IsFiniteSet(Job \ {k}) /\ Cardinality(Job \ {k}) = N - 1
    BY JobFinite, FS_RemoveElement
<1>2. \A i \in DOMAIN s : f[s[i]] # NoKey /\ f[s[i]] \in Job \ {k}
    BY KeyFacts
<1>3. Len(s) <= N - 1
    BY <1>1, <1>2, ListsLen
<1>4. QED BY <1>3, Constants

LEMMA TodoHasRoom ==
    ASSUME NEW loc \in Locs, IInv(loc), NEW p \in Proc, NEW k \in Job,
           loc[k] # <<"todo", p>>, loc[Wake] # <<"todo", p>>
    PROVE  Len(todo[p]) < N
<1>1. todo[p] \in Seq(-1 .. N)
    BY DEF IInv, TypeOK
<1>2. Lists(todo[p], TodoKey, In(loc, <<"todo", p>>))
    BY DEF IInv, InTodo, InQueue
<1>3. ASSUME NEW i \in DOMAIN todo[p]
      PROVE  TodoKey[todo[p][i]] \in Job /\ TodoKey[todo[p][i]] # k
    <2>1. /\ loc[TodoKey[todo[p][i]]] = <<"todo", p>>
          /\ todo[p][i] \in -1 .. N
        BY TodoHolds
    <2>2. TodoKey[todo[p][i]] # Wake /\ TodoKey[todo[p][i]] # k
        BY <2>1
    <2>3. QED BY <2>1, <2>2, KeyFacts
<1>4. QED BY <1>1, <1>2, <1>3, QueueHasRoom

LEMMA TosendHasRoom ==
    ASSUME NEW loc \in Locs, IInv(loc), NEW p \in Proc, NEW k \in Job,
           loc[k] # <<"tosend", p>>, loc[Bye] # <<"tosend", p>>
    PROVE  Len(tosend[p]) < N
<1>1. tosend[p] \in Seq(-1 .. N)
    BY DEF IInv, TypeOK
<1>2. Lists(tosend[p], SendKey, In(loc, <<"tosend", p>>))
    BY DEF IInv, InTosend, InQueue
<1>3. ASSUME NEW i \in DOMAIN tosend[p]
      PROVE  SendKey[tosend[p][i]] \in Job /\ SendKey[tosend[p][i]] # k
    <2>1. /\ loc[SendKey[tosend[p][i]]] = <<"tosend", p>>
          /\ SendKey[tosend[p][i]] \in Job \cup {Bye}
        BY TosendHolds
    <2>2. QED BY <2>1
<1>4. QED BY <1>1, <1>2, <1>3, QueueHasRoom

LEMMA PushLemma ==
    ASSUME NEW loc \in Locs, IInv(loc)
    PROVE  PushNeverBlocks
<1>1. 0 \in Job
    BY Constants DEF Job
<1>2. ASSUME cp[C].pc = "finish"
      PROVE  Len(tosend[C]) < N
    <2>1. job_finished = N /\ loc[Bye] = Unborn
        BY <1>2 DEF IInv, SignalOK, Ended
    <2>2. loc[0] = Counted
        BY <1>1, <2>1, AllCounted
    <2>3. loc[Bye] # <<"tosend", C>> /\ loc[0] # <<"tosend", C>>
        BY <2>1, <2>2 DEF Unborn, Counted
    <2>4. QED BY <1>1, <2>3, Constants, TosendHasRoom
<1>3. ASSUME cp[S].pc = "compute"
      PROVE  Len(tosend[S]) < N
    <2>1. PICK k \in Job : loc[k] = <<"cp", S>>
        BY <1>3, Constants, CpHolds
    <2>2. loc[k] # Counted /\ loc[k] # <<"tosend", S>>
        BY <2>1 DEF Counted
    <2>3. job_finished # N
        BY <2>1, <2>2, AllCounted
    <2>4. loc[Bye] # <<"tosend", S>>
        BY <2>3, ByeIsLast DEF Unborn
    <2>5. QED BY <2>1, <2>2, <2>4, Constants, TosendHasRoom
<1>4. ASSUME rd[C].pc \in {"top", "read"}
      PROVE  loc[Wake] # <<"todo", C>>
    BY <1>4 DEF IInv, SignalOK, Unborn
<1>5. ASSUME rd[C].pc = "top", job_finished = N
      PROVE  Len(todo[C]) < N
    <2>1. loc[0] = Counted
        BY <1>1, <1>5, AllCounted
    <2>2. loc[0] # <<"todo", C>>
        BY <2>1 DEF Counted
    <2>3. QED BY <1>1, <1>4, <1>5, <2>2, Constants, TodoHasRoom
<1>6. ASSUME NEW p \in Proc, Arrived(p, "data")
      PROVE  /\ Head(net[p]).id \in Id
             /\ loc[JobOf(Head(net[p]).id)] = <<"net", p>>
             /\ Head(net[p]).id # AllDone => JobOf(Head(net[p]).id) \in Job
    <2>1. net[p] \in Seq(Msg) /\ net[p] # <<>> /\ Head(net[p]).type = "data"
        BY <1>6 DEF IInv, TypeOK, Arrived
    <2>2. 1 \in DOMAIN net[p] /\ Head(net[p]) = net[p][1]
        BY <2>1
    <2>3. /\ net[p][1] \in Msg /\ MsgKey[net[p][1]] = JobOf(net[p][1].id)
          /\ loc[MsgKey[net[p][1]]] = <<"net", p>>
        BY <2>1, <2>2, NetHolds
    <2>4. net[p][1].id \in Id
        BY <2>3 DEF Msg
    <2>5. net[p][1].id # AllDone => net[p][1].id \in 0 .. 2 * N
        BY <2>4, Constants DEF Id, AllDone
    <2>6. net[p][1].id # AllDone => JobOf(net[p][1].id) \in Job
        BY <2>5, JobOfFacts
    <2>7. QED BY <2>2, <2>3, <2>4, <2>6
<1>7. ASSUME rd[C].pc = "read", Arrived(C, "data"), Head(net[C]).id >= N
      PROVE  Len(todo[C]) < N
    <2>1. Head(net[C]).id # AllDone
        BY <1>7, Constants DEF AllDone
    <2>2. PICK k \in Job : loc[k] = <<"net", C>>
        BY <1>6, <1>7, <2>1, Constants
    <2>3. loc[k] # <<"todo", C>>
        BY <2>2
    <2>4. QED BY <1>4, <1>7, <2>3, Constants, TodoHasRoom
<1>8. ASSUME rd[S].pc = "read", Arrived(S, "data"), Head(net[S]).id = AllDone
      PROVE  Len(tosend[S]) < N
    <2>1. loc[Bye] = <<"net", S>>
        BY <1>6, <1>8, Constants, JobOfFacts
    <2>2. job_finished = N
        BY <2>1, ByeIsLast DEF Unborn
    <2>3. loc[0] = Counted
        BY <1>1, <2>2, AllCounted
    <2>4. loc[0] # <<"tosend", S>> /\ loc[Bye] # <<"tosend", S>>
        BY <2>1, <2>3 DEF Counted
    <2>5. QED BY <1>1, <2>4, Constants, TosendHasRoom
<1>9. ASSUME rd[S].pc = "read", Arrived(S, "data"), Head(net[S]).id # AllDone
      PROVE  Len(todo[S]) < N
    <2>1. PICK k \in Job : loc[k] = <<"net", S>>
        BY <1>6, <1>9, Constants
    <2>2. loc[k] # <<"todo", S>>
        BY <2>1
    <2>3. loc[Wake] # <<"todo", S>>
        BY Constants DEF IInv, SignalOK, Unborn, Gone
    <2>4. QED BY <2>2, <2>3, Constants, TodoHasRoom
<1>10. QED BY <1>2, <1>3, <1>5, <1>7, <1>8, <1>9 DEF PushNeverBlocks

LEMMA ResultLemma ==
    ASSUME NEW loc \in Locs, IInv(loc)
    PROVE  ResultOK
<1>1. SUFFICES ASSUME Finished, NEW j \in 1 .. N - 1
               PROVE  arr[C][j] = 1
    BY DEF ResultOK
<1>2. job_finished = N
    BY <1>1 DEF Finished, IInv, SignalOK, Ended
<1>3. j \in Job
    BY Constants DEF Job
<1>4. loc[j] = Counted
    BY <1>2, <1>3, AllCounted
<1>5. QED BY <1>4 DEF IInv, ArrayOK

\* The job of what a thread touches is in the hands of that thread.  The reader
\* has a job in its hands, or reads it from the stream.
LEMMA TouchedIsHeld ==
    ASSUME NEW loc \in Locs, IInv(loc), NEW p \in Proc, NEW a \in Touched(p)
    PROVE  \E t, x : /\ a = <<t, x>> /\ JobOf(x) \in Job
                     /\ \/ t = "cp" /\ loc[JobOf(x)] = <<"cp", p>>
                        \/ t = "wr" /\ loc[JobOf(x)] = <<"wr", p>>
                        \/ t = "rd" /\ loc[JobOf(x)] \in {<<"rd", p>>, <<"net", p>>}
<1>1. CASE cp[p].pc = "compute" /\ a = <<"cp", cp[p].id>>
    <2>1. JobOf(cp[p].id) \in Job /\ loc[JobOf(cp[p].id)] = <<"cp", p>>
        BY <1>1, CpHolds
    <2>2. QED BY <1>1, <2>1
<1>2. CASE /\ wr[p].pc = "send" /\ wr[p].id # AllDone
           /\ a = <<"wr", create_message(wr[p].id)>>
    <2>1. wr[p].id \in 0 .. N /\ loc[JobOf(wr[p].id)] = <<"wr", p>>
        BY <1>2, WrHolds
    <2>2. wr[p].id \in 0 .. 2 * N
        BY <2>1, Constants
    <2>3. PICK x : x = create_message(wr[p].id)
        OBVIOUS
    <2>4. JobOf(x) = JobOf(wr[p].id) /\ JobOf(x) \in Job
        BY <2>2, <2>3, JobOfFacts
    <2>5. QED BY <1>2, <2>1, <2>3, <2>4
<1>3. CASE rd[p].pc = "send" /\ a = <<"rd", create_message(N + rd[p].id)>>
    <2>1. rd[p].id \in 0 .. N /\ loc[JobOf(rd[p].id)] = <<"rd", p>>
        BY <1>3, RdHoldsJob
    <2>2. N + rd[p].id \in 0 .. 2 * N /\ JobOf(N + rd[p].id) = JobOf(rd[p].id)
        BY <2>1, JobOfFacts
    <2>3. PICK x : x = create_message(N + rd[p].id)
        OBVIOUS
    <2>4. JobOf(x) = JobOf(rd[p].id) /\ JobOf(x) \in Job
        BY <2>2, <2>3, JobOfFacts
    <2>5. QED BY <1>3, <2>1, <2>3, <2>4
<1>4. CASE \E i \in DOMAIN net[p] \cap {1} :
            /\ net[p][i].type = "data" /\ net[p][i].id # AllDone
            /\ a = <<"rd", create_message(net[p][i].id)>>
    <2>1. PICK i \in DOMAIN net[p] :
            /\ net[p][i].type = "data" /\ net[p][i].id # AllDone
            /\ a = <<"rd", create_message(net[p][i].id)>>
        BY <1>4
    <2>2. net[p][i] \in Msg /\ loc[JobOf(net[p][i].id)] = <<"net", p>>
        BY <2>1, NetHolds
    <2>3. net[p][i].id \in Id
        BY <2>2 DEF Msg
    <2>4. net[p][i].id \in 0 .. 2 * N
        BY <2>1, <2>3, Constants DEF Id, AllDone
    <2>5. PICK x : x = create_message(net[p][i].id)
        OBVIOUS
    <2>6. JobOf(x) = JobOf(net[p][i].id) /\ JobOf(x) \in Job
        BY <2>4, <2>5, JobOfFacts
    <2>7. QED BY <2>1, <2>2, <2>5, <2>6
<1>5. QED BY <1>1, <1>2, <1>3, <1>4 DEF Touched

LEMMA ArrayLemma ==
    ASSUME NEW loc \in Locs, IInv(loc)
    PROVE  NoArrayRace
<1>1. SUFFICES ASSUME NEW p \in Proc, NEW a \in Touched(p), NEW b \in Touched(p), a[2] = b[2]
               PROVE  a = b
    BY DEF NoArrayRace
<1>2. PICK t, x : /\ a = <<t, x>> /\ JobOf(x) \in Job
                  /\ \/ t = "cp" /\ loc[JobOf(x)] = <<"cp", p>>
                     \/ t = "wr" /\ loc[JobOf(x)] = <<"wr", p>>
                     \/ t = "rd" /\ loc[JobOf(x)] \in {<<"rd", p>>, <<"net", p>>}
    BY TouchedIsHeld
<1>3. PICK u, y : /\ b = <<u, y>> /\ JobOf(y) \in Job
                  /\ \/ u = "cp" /\ loc[JobOf(y)] = <<"cp", p>>
                     \/ u = "wr" /\ loc[JobOf(y)] = <<"wr", p>>
                     \/ u = "rd" /\ loc[JobOf(y)] \in {<<"rd", p>>, <<"net", p>>}
    BY TouchedIsHeld
<1>4. x = y
    BY <1>1, <1>2, <1>3
<1>5. t = u
    BY <1>2, <1>3, <1>4
<1>6. QED BY <1>2, <1>3, <1>4, <1>5

\* A spot of job j: element i of a queue or of the stream, or a thread's hands.
SpotAt(p, kind, i, j) ==
    \/ kind = "todo" /\ i \in DOMAIN todo[p] /\ JobOf(todo[p][i]) = j
    \/ kind = "tosend" /\ i \in DOMAIN tosend[p] /\ JobOf(tosend[p][i]) = j
    \/ kind = "net" /\ i \in DOMAIN net[p] /\ net[p][i].type = "data" /\ JobOf(net[p][i].id) = j
    \/ kind = "rd" /\ i = 0 /\ InHand(rd[p], j)
    \/ kind = "wr" /\ i = 0 /\ InHand(wr[p], j)
    \/ kind = "cp" /\ i = 0 /\ InHand(cp[p], j)

LEMMA SpotsAre ==
    ASSUME NEW j, NEW a
    PROVE  a \in Spots(j) <=>
             \E p \in Proc : \E kind, i : a = <<p, kind, i>> /\ SpotAt(p, kind, i, j)
<1>1. ASSUME NEW p \in Proc
      PROVE  a \in SpotsOf(p, j) <=> \E kind, i : a = <<p, kind, i>> /\ SpotAt(p, kind, i, j)
    BY DEF SpotsOf, SpotAt
<1>2. a \in Spots(j) <=> \E p \in Proc : a \in SpotsOf(p, j)
    BY DEF Spots
<1>3. QED BY <1>1, <1>2

\* The spot of a job is at its place.
LEMMA SpotPlace ==
    ASSUME NEW loc \in Locs, IInv(loc), NEW p \in Proc, NEW j \in Job,
           NEW kind, NEW i, SpotAt(p, kind, i, j)
    PROVE  loc[j] = <<kind, p>>
<1>1. j \in Key /\ j # Bye /\ j # NoKey
    BY KeyFacts
<1>2. CASE kind = "todo" /\ i \in DOMAIN todo[p] /\ JobOf(todo[p][i]) = j
    <2>1. todo[p][i] \in -1 .. N /\ loc[TodoKey[todo[p][i]]] = <<"todo", p>>
        BY <1>2, TodoHolds
    <2>2. todo[p][i] # AllDone
        BY <1>1, <1>2, JobOfFacts
    <2>3. TodoKey[todo[p][i]] = j
        BY <1>2, <2>1, <2>2, KeyFacts
    <2>4. QED BY <1>2, <2>1, <2>3
<1>3. CASE kind = "tosend" /\ i \in DOMAIN tosend[p] /\ JobOf(tosend[p][i]) = j
    <2>1. tosend[p][i] \in -1 .. N /\ loc[SendKey[tosend[p][i]]] = <<"tosend", p>>
        BY <1>3, TosendHolds
    <2>2. QED BY <1>3, <2>1, KeyFacts
<1>4. CASE /\ kind = "net" /\ i \in DOMAIN net[p]
           /\ net[p][i].type = "data" /\ JobOf(net[p][i].id) = j
    BY <1>4, NetHolds
<1>5. CASE kind = "rd" /\ InHand(rd[p], j)
    <2>1. rd[p].pc = "send" /\ JobOf(rd[p].id) = j
        BY <1>5 DEF InHand, IInv, TypeOK, RdState
    <2>2. QED BY <1>5, <2>1, RdHoldsJob
<1>6. CASE kind = "wr" /\ InHand(wr[p], j)
    <2>1. wr[p].pc = "send" /\ JobOf(wr[p].id) = j
        BY <1>6 DEF InHand, IInv, TypeOK, WrState
    <2>2. QED BY <1>6, <2>1, WrHolds
<1>7. CASE kind = "cp" /\ InHand(cp[p], j)
    <2>1. cp[p].pc = "compute" /\ JobOf(cp[p].id) = j
        BY <1>7 DEF InHand, IInv, TypeOK, CpState
    <2>2. QED BY <1>7, <2>1, CpHolds
<1>8. QED BY <1>2, <1>3, <1>4, <1>5, <1>6, <1>7 DEF SpotAt

\* A place has a job at one spot ...
LEMMA SpotOnce ==
    ASSUME NEW loc \in Locs, IInv(loc), NEW p \in Proc, NEW j \in Job,
           NEW kind, NEW i, NEW n, SpotAt(p, kind, i, j), SpotAt(p, kind, n, j)
    PROVE  i = n
<1>1. j \in Key /\ j # Bye /\ j # NoKey
    BY KeyFacts
<1>2. CASE kind = "todo"
    <2>1. ASSUME NEW x \in DOMAIN todo[p], JobOf(todo[p][x]) = j
          PROVE  TodoKey[todo[p][x]] = j
        <3>1. todo[p][x] \in -1 .. N
            BY TodoHolds
        <3>2. todo[p][x] # AllDone
            BY <1>1, <2>1, JobOfFacts
        <3>3. QED BY <2>1, <3>1, <3>2, KeyFacts
    <2>2. Lists(todo[p], TodoKey, In(loc, <<"todo", p>>))
        BY DEF IInv, InTodo, InQueue
    <2>3. /\ i \in DOMAIN todo[p] /\ JobOf(todo[p][i]) = j
          /\ n \in DOMAIN todo[p] /\ JobOf(todo[p][n]) = j
        BY <1>2 DEF SpotAt
    <2>4. TodoKey[todo[p][i]] = j /\ TodoKey[todo[p][n]] = j
        BY <2>1, <2>3
    <2>5. QED BY <1>1, <2>2, <2>3, <2>4 DEF Lists
<1>3. CASE kind = "tosend"
    <2>1. ASSUME NEW x \in DOMAIN tosend[p], JobOf(tosend[p][x]) = j
          PROVE  SendKey[tosend[p][x]] = j
        <3>1. tosend[p][x] \in -1 .. N
            BY TosendHolds
        <3>2. QED BY <2>1, <3>1, KeyFacts
    <2>2. Lists(tosend[p], SendKey, In(loc, <<"tosend", p>>))
        BY DEF IInv, InTosend, InQueue
    <2>3. /\ i \in DOMAIN tosend[p] /\ JobOf(tosend[p][i]) = j
          /\ n \in DOMAIN tosend[p] /\ JobOf(tosend[p][n]) = j
        BY <1>3 DEF SpotAt
    <2>4. SendKey[tosend[p][i]] = j /\ SendKey[tosend[p][n]] = j
        BY <2>1, <2>3
    <2>5. QED BY <1>1, <2>2, <2>3, <2>4 DEF Lists
<1>4. CASE kind = "net"
    <2>1. Lists(net[p], MsgKey, In(loc, <<"net", p>>))
        BY DEF IInv, InNet, InQueue
    <2>2. /\ i \in DOMAIN net[p] /\ net[p][i].type = "data" /\ JobOf(net[p][i].id) = j
          /\ n \in DOMAIN net[p] /\ net[p][n].type = "data" /\ JobOf(net[p][n].id) = j
        BY <1>4 DEF SpotAt
    <2>3. MsgKey[net[p][i]] = j /\ MsgKey[net[p][n]] = j
        BY <2>2, NetHolds
    <2>4. QED BY <1>1, <2>1, <2>2, <2>3 DEF Lists
<1>5. CASE kind \notin {"todo", "tosend", "net"}
    BY <1>5 DEF SpotAt
<1>6. QED BY <1>2, <1>3, <1>4, <1>5

\* ... and a job that has a place has a spot there.
LEMMA SpotExists ==
    ASSUME NEW loc \in Locs, IInv(loc), NEW j \in Job, NEW kind, NEW p \in Proc,
           loc[j] = <<kind, p>>, <<kind, p>> \in Place
    PROVE  \E i : SpotAt(p, kind, i, j)
<1>1. j \in Key /\ j # Bye /\ j # Wake /\ j # NoKey /\ j \in In(loc, <<kind, p>>)
    BY KeyFacts DEF In
<1>2. kind \in {"todo", "tosend", "net", "rd", "wr", "cp"}
    BY DEF Place
<1>3. CASE kind = "todo"
    <2>1. PICK i \in DOMAIN todo[p] : TodoKey[todo[p][i]] = j
        BY <1>1, <1>3 DEF IInv, InTodo, InQueue, Lists
    <2>2. todo[p][i] \in -1 .. N
        BY TodoHolds
    <2>3. JobOf(todo[p][i]) = j
        BY <1>1, <2>1, <2>2, KeyFacts
    <2>4. QED BY <1>3, <2>3 DEF SpotAt
<1>4. CASE kind = "tosend"
    <2>1. PICK i \in DOMAIN tosend[p] : SendKey[tosend[p][i]] = j
        BY <1>1, <1>4 DEF IInv, InTosend, InQueue, Lists
    <2>2. tosend[p][i] \in -1 .. N
        BY TosendHolds
    <2>3. JobOf(tosend[p][i]) = j
        BY <2>1, <2>2, KeyFacts
    <2>4. QED BY <1>4, <2>3 DEF SpotAt
<1>5. CASE kind = "net"
    <2>1. PICK i \in DOMAIN net[p] : MsgKey[net[p][i]] = j
        BY <1>1, <1>5 DEF IInv, InNet, InQueue, Lists
    <2>2. net[p][i] \in Msg
        BY Element DEF IInv, TypeOK
    <2>3. net[p][i].type = "data" /\ JobOf(net[p][i].id) = j
        BY <1>1, <2>1, <2>2, KeyFacts
    <2>4. QED BY <1>5, <2>3 DEF SpotAt
<1>6. CASE kind = "rd"
    <2>1. RdHolds(p, j)
        BY <1>1, <1>6 DEF IInv, InRd
    <2>2. InHand(rd[p], j)
        BY <1>1, <2>1 DEF RdHolds, InHand
    <2>3. QED BY <1>6, <2>2 DEF SpotAt
<1>7. CASE kind = "wr"
    <2>1. InHand(wr[p], j)
        BY <1>1, <1>7 DEF IInv, InWr, InHand
    <2>2. QED BY <1>7, <2>1 DEF SpotAt
<1>8. CASE kind = "cp"
    <2>1. InHand(cp[p], j)
        BY <1>1, <1>8 DEF IInv, InCp, InHand
    <2>2. QED BY <1>8, <2>1 DEF SpotAt
<1>9. QED BY <1>2, <1>3, <1>4, <1>5, <1>6, <1>7, <1>8

LEMMA ConservedLemma ==
    ASSUME NEW loc \in Locs, IInv(loc)
    PROVE  JobConserved
<1>1. ASSUME NEW j \in Job, NEW a \in Spots(j), NEW b \in Spots(j)
      PROVE  a = b
    <2>1. PICK p \in Proc : \E kind, i : a = <<p, kind, i>> /\ SpotAt(p, kind, i, j)
        BY SpotsAre
    <2>2. PICK kind, i : a = <<p, kind, i>> /\ SpotAt(p, kind, i, j)
        BY <2>1
    <2>3. PICK q \in Proc : \E type, n : b = <<q, type, n>> /\ SpotAt(q, type, n, j)
        BY SpotsAre
    <2>4. PICK type, n : b = <<q, type, n>> /\ SpotAt(q, type, n, j)
        BY <2>3
    <2>5. loc[j] = <<kind, p>> /\ loc[j] = <<type, q>>
        BY <2>2, <2>4, SpotPlace
    <2>6. kind = type /\ p = q
        BY <2>5
    <2>7. i = n
        BY <2>2, <2>4, <2>6, SpotOnce
    <2>8. QED BY <2>2, <2>4, <2>6, <2>7
<1>2. ASSUME \A p \in Proc : up[p]
      PROVE  Cardinality({j \in Job : Spots(j) = {}}) = job_finished
    <2>1. ASSUME NEW j \in Job, loc[j] = Counted
          PROVE  Spots(j) = {}
        <3>1. SUFFICES ASSUME NEW a \in Spots(j) PROVE FALSE
            OBVIOUS
        <3>2. PICK p \in Proc : \E kind, i : a = <<p, kind, i>> /\ SpotAt(p, kind, i, j)
            BY SpotsAre
        <3>3. PICK kind, i : SpotAt(p, kind, i, j)
            BY <3>2
        <3>4. loc[j] = <<kind, p>>
            BY <3>3, SpotPlace
        <3>5. QED BY <2>1, <3>4 DEF Counted, Proc
    <2>2. ASSUME NEW j \in Job, loc[j] # Counted
          PROVE  Spots(j) # {}
        <3>1. loc[j] \in Place
            <4>1. loc[j] \notin {Unborn, Gone}
                BY <1>2 DEF IInv, CountOK
            <4>2. j \in Key
                BY KeyFacts
            <4>3. QED BY <2>2, <4>1, <4>2 DEF Locs
        <3>2. PICK p \in Proc : \E kind : loc[j] = <<kind, p>>
            BY <3>1 DEF Place
        <3>3. PICK kind : loc[j] = <<kind, p>>
            BY <3>2
        <3>4. PICK i : SpotAt(p, kind, i, j)
            BY <3>1, <3>3, SpotExists
        <3>5. <<p, kind, i>> \in Spots(j)
            BY <3>4, SpotsAre
        <3>6. QED BY <3>5
    <2>3. {j \in Job : Spots(j) = {}} = Job \cap In(loc, Counted)
        BY <2>1, <2>2, KeyFacts DEF In
    <2>4. QED BY <2>3 DEF IInv, CountOK
<1>3. QED BY <1>1, <1>2 DEF JobConserved
-----------------------------------------------------------------------------
(* The properties that the runs check on small instances.                  *)

\* The variables of both programs hold values of their types: in particular
\* job_finished never exceeds JOB_NUM and no queue holds a foreign identifier.
THEOREM TypeCorrect == Spec => []TypeOK
<1>1. Inv => TypeOK
    BY DEF Inv, IInv
<1>2. QED BY <1>1, Invariance, PTL

\* However the threads of client.c and server.c interleave and whatever the
\* adaptor moves, no job is doubled and, while both run, none is lost.
THEOREM Conservation == Spec => []JobConserved
<1>1. Inv => JobConserved
    BY ConservedLemma DEF Inv
<1>2. QED BY <1>1, Invariance, PTL

\* job_array needs no lock in either program.
THEOREM ArrayRaceFree == Spec => []NoArrayRace
<1>1. Inv => NoArrayRace
    BY ArrayLemma DEF Inv
<1>2. QED BY <1>1, Invariance, PTL

\* The queues, made for JOB_NUM elements, are never full when queue_push is
\* called.
THEOREM PushesNeverBlock == Spec => []PushNeverBlocks
<1>1. Inv => PushNeverBlocks
    BY PushLemma DEF Inv
<1>2. QED BY <1>1, Invariance, PTL

\* The server ends with no job left, and the reader swallows no job.
THEOREM GoodbyeIsSafe == Spec => []GoodbyeSafe
<1>1. Inv => GoodbyeSafe
    BY GoodbyeLemma DEF Inv
<1>2. QED BY <1>1, Invariance, PTL

\* When run_client leaves its loop, every job but job 0 was computed once.
THEOREM ResultsCorrect == Spec => []ResultOK
<1>1. Inv => ResultOK
    BY ResultLemma DEF Inv
<1>2. QED BY <1>1, Invariance, PTL

\* The unlock of a mutex that is not held comes after the last count.
THEOREM StrayUnlockIsLate == Spec => []StrayUnlockLate
<1>1. Inv => StrayUnlockLate
    BY DEF Inv, IInv, SignalOK, StrayUnlockLate
<1>2. QED BY <1>1, Invariance, PTL
=============================================================================
