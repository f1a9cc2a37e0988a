---------------------------- MODULE FrameProofs ----------------------------
(***************************************************************************)
(* The memory server's frames: FrameOwnership, for every configuration,    *)
(* and MemoryMatchesProcesses, when consoles do not connect at the same    *)
(* time and the memory server's delay outlasts the put.                    *)
(*                                                                         *)
(* FrameOwnership is not inductive.  unassign_process_frames clears the    *)
(* entry that a PROCESS_EXIT names, so the invariant must follow the index *)
(* of that entry from process_new through the kernel's pcb, the CPU and    *)
(* back: wherever a pcb can be once its memory was made, and in every      *)
(* packet, it names an entry of the server's lists.                        *)
(*                                                                         *)
(* MemoryMatchesProcesses compares the two servers, which learn of each    *)
(* other by packets.  Its invariant follows the one admission between      *)
(* them, and counts the owners of each entry: the pcbs that name it, the   *)
(* PROCESS_EXIT on its way, the process that is being admitted.            *)
(***************************************************************************)
EXTENDS PlaceProofs

\* The process_frames_index and page_table of x are entries of the lists.
InRange(x) ==
    /\ x.process_frames_index < Len(processes_frames)
    /\ x.page_table < Len(level1_tables)

IndexedPcb == {p \in Pcb : InRange(p)}

IndexedReturns == {r \in Returns : r.pcb \in IndexedPcb}

IndexedRequests == {m \in MemoryRequests : m.header # "PROCESS_NEW" => InRange(m)}

IndexedAnswers == {m \in MemoryAnswers : m.header = "PROCESS_MEMORY_READY" => InRange(m)}

\* The queues of processes whose memory was made.
MadeQueues == Queues \ {"new_q", "memory_init_q"}

IndexedInKernel ==
    /\ \A q \in MadeQueues : queue[q] \in Seq(IndexedPcb)
    /\ hand["io_listener"] \in IndexedPcb \cup {NoPcb}
    /\ at["to_ready"] = "put_to_ready" \/ sem["pcb_table_ready"] > 0
         => hand["to_ready"] \in IndexedPcb

IndexedOnTheWay ==
    /\ dispatch \in Seq(IndexedPcb)
    /\ returns \in Seq(IndexedReturns)
    /\ memory_requests \in Seq(IndexedRequests)
    /\ memory_answers \in Seq(IndexedAnswers)

IndexedInCpu == cpu_pcb \in IndexedPcb \cup {NoPcb}

IndexedInv == IndexedInKernel /\ IndexedOnTheWay /\ IndexedInCpu

-----------------------------------------------------------------------------
(* Pcbs and packets keep their indices. *)

\* Storing an estimate or a program counter leaves the indices of a pcb alone.
LEMMA IndexedFields ==
  ASSUME NEW p \in IndexedPcb
  PROVE  /\ p \in Pcb /\ InRange(p)
         /\ \A e \in Estimates : [p EXCEPT !.left_burst_estimation = e] \in IndexedPcb
         /\ [p EXCEPT !.program_counter = @ + 1] \in IndexedPcb
         /\ \A h \in {"IO_CALL", "EXIT_CALL", "INTERRUPT_DISPATCH"} :
              [header |-> h, pcb |-> p] \in IndexedReturns
         /\ \A h \in {"PROCESS_SUSPEND", "PROCESS_EXIT"} :
              [header |-> h, pid |-> p.pid, page_table |-> p.page_table,
               process_frames_index |-> p.process_frames_index] \in IndexedRequests
  <1>1. p \in Pcb /\ InRange(p)
    BY DEF IndexedPcb
  <1>2. \A e \in Estimates : [p EXCEPT !.left_burst_estimation = e] \in IndexedPcb
    BY <1>1 DEF IndexedPcb, Pcb, InRange
  <1>3. [p EXCEPT !.program_counter = @ + 1] \in IndexedPcb
    BY <1>1 DEF IndexedPcb, Pcb, InRange
  <1>4. ASSUME NEW h \in {"IO_CALL", "EXIT_CALL", "INTERRUPT_DISPATCH"}
        PROVE  [header |-> h, pcb |-> p] \in IndexedReturns
    BY <1>1 DEF IndexedReturns, Returns
  <1>5. ASSUME NEW h \in {"PROCESS_SUSPEND", "PROCESS_EXIT"}
        PROVE  [header |-> h, pid |-> p.pid, page_table |-> p.page_table,
                process_frames_index |-> p.process_frames_index] \in IndexedRequests
    <2> DEFINE m == [header |-> h, pid |-> p.pid, page_table |-> p.page_table,
                     process_frames_index |-> p.process_frames_index]
    <2>1. m \in MemoryRequests
      BY <1>1, SuspendPacket
    <2>2. InRange(m)
      BY <1>1 DEF InRange
    <2>. QED BY <2>1, <2>2 DEF IndexedRequests
  <1>. QED BY <1>1, <1>2, <1>3, <1>4, <1>5

\* The parts of the invariant, for a step that leaves the server's lists alone.
LEMMA IndexedKept ==
  ASSUME UNCHANGED <<processes_frames, level1_tables>>,
         \A q \in MadeQueues : queue'[q] \in Seq(IndexedPcb),
         hand'["io_listener"] \in IndexedPcb \cup {NoPcb},
         at'["to_ready"] = "put_to_ready" \/ sem'["pcb_table_ready"] > 0
           => hand'["to_ready"] \in IndexedPcb,
         dispatch' \in Seq(IndexedPcb), returns' \in Seq(IndexedReturns),
         memory_requests' \in Seq(IndexedRequests), memory_answers' \in Seq(IndexedAnswers),
         cpu_pcb' \in IndexedPcb \cup {NoPcb}
  PROVE  IndexedInv'
  <1>1. \A x : InRange(x)' <=> InRange(x)
    BY DEF InRange
  <1>2. IndexedPcb' = IndexedPcb
    BY <1>1 DEF IndexedPcb
  <1>3. IndexedReturns' = IndexedReturns
    BY <1>2 DEF IndexedReturns
  <1>4. IndexedRequests' = IndexedRequests /\ IndexedAnswers' = IndexedAnswers
    BY <1>1 DEF IndexedRequests, IndexedAnswers
  <1>5. IndexedInKernel'
    BY <1>2 DEF IndexedInKernel
  <1>6. IndexedOnTheWay' /\ IndexedInCpu'
    BY <1>2, <1>3, <1>4 DEF IndexedOnTheWay, IndexedInCpu
  <1>. QED BY <1>5, <1>6 DEF IndexedInv

\* A queue of a larger set.
LEMMA SeqMonotonic ==
  ASSUME NEW A, NEW B, A \subseteq B, NEW s \in Seq(A)
  PROVE  s \in Seq(B)
  OBVIOUS

\* The kernel's types, as these proofs use them.
LEMMA FrameTypes ==
  ASSUME SystemInv
  PROVE  /\ sem \in [Semaphores -> Nat] /\ at \in [Threads -> Locations]
         /\ queue \in [Queues -> Seq(Pcb)]
         /\ hand \in [Holders -> Pcb \cup {NoPcb}]
         /\ HandsFull /\ OneAdmission
         /\ returns \in Seq(Returns)
  BY DEF SystemInv, KernelInv, KernelTypeOK, SemaphoresOK, LocationsOK, QueuesOK, HandsOK,
     SocketsTypeOK

-----------------------------------------------------------------------------
(* Steps of the kernel. *)

\* Steps that change neither a pcb whose memory was made nor a packet about it.
LEMMA IndexedAside_Step ==
  ASSUME SystemInv, IndexedInv, UNCHANGED <<cpuVars, memoryVars>>,
         \/ \E c \in Consoles : ReceiveProcess(c)
         \/ ToReady_Any \/ NewToReady_Put \/ NewToReady_Ready \/ ToExec_Ready \/ ToExec_Cpu
         \/ ExitProcess_Put
  PROVE  IndexedInv'
  <1>0. /\ sem \in [Semaphores -> Nat] /\ at \in [Threads -> Locations]
        /\ queue \in [Queues -> Seq(Pcb)] /\ hand \in [Holders -> Pcb \cup {NoPcb}]
    BY FrameTypes
  <1>1. UNCHANGED <<socketVars, cpu_pcb, processes_frames, level1_tables>>
    BY DEF ReceiveProcess, ReceiveProcess_Read, ReceiveProcess_Write, ReceiveProcess_Put,
       ToReady_Any, NewToReady_Put, NewToReady_Ready, ToExec_Ready, ToExec_Cpu,
       ExitProcess_Put, socketVars, cpuVars, memoryVars
  <1>2. \A q \in MadeQueues : queue'[q] = queue[q]
    BY <1>0 DEF ReceiveProcess, ReceiveProcess_Read, ReceiveProcess_Write, ReceiveProcess_Put,
       ToReady_Any, NewToReady_Put, NewToReady_Ready, ToExec_Ready, ToExec_Cpu,
       ExitProcess_Put, MadeQueues, Queues
  <1>3. hand'["io_listener"] = hand["io_listener"] /\ hand'["to_ready"] = hand["to_ready"]
    BY <1>0 DEF ReceiveProcess, ReceiveProcess_Read, ReceiveProcess_Write, ReceiveProcess_Put,
       ToReady_Any, NewToReady_Put, NewToReady_Ready, ToExec_Ready, ToExec_Cpu,
       ExitProcess_Put, Holders, Planners
  <1>4. at'["to_ready"] = "put_to_ready" \/ sem'["pcb_table_ready"] > 0
          => at["to_ready"] = "put_to_ready" \/ sem["pcb_table_ready"] > 0
    BY <1>0 DEF ReceiveProcess, ReceiveProcess_Read, ReceiveProcess_Write, ReceiveProcess_Put,
       ToReady_Any, NewToReady_Put, NewToReady_Ready, ToExec_Ready, ToExec_Cpu,
       ExitProcess_Put, Holders, Planners, Threads, Semaphores
  <1>. QED BY <1>1, <1>2, <1>3, <1>4, IndexedKept DEF IndexedInv, IndexedInKernel,
           IndexedOnTheWay, IndexedInCpu, socketVars

\* to_ready takes a process: a suspended one has its memory, a new one has none yet
\* and goes to ask for it.
LEMMA ToReady_Admit_Indexed ==
  ASSUME SystemInv, IndexedInv, UNCHANGED <<cpuVars, memoryVars>>, ToReady_Admit
  PROVE  IndexedInv'
  <1>0. /\ sem \in [Semaphores -> Nat] /\ at \in [Threads -> Locations]
        /\ queue \in [Queues -> Seq(Pcb)] /\ hand \in [Holders -> Pcb \cup {NoPcb}]
        /\ OneAdmission
    BY FrameTypes
  <1>1. /\ UNCHANGED <<socketVars, cpu_pcb, processes_frames, level1_tables>>
        /\ sem'["pcb_table_ready"] = sem["pcb_table_ready"]
        /\ at["to_ready"] = "sem_multiprogram"
    BY <1>0 DEF ToReady_Admit, socketVars, cpuVars, memoryVars, Semaphores
  <1>2. sem'["pcb_table_ready"] = 0
    <2>1. sem["pcb_table_ready"] \in Nat /\ Len(queue["memory_init_q"]) \in Nat
      BY <1>0 DEF Semaphores, Queues
    <2>. QED BY <1>0, <1>1, <2>1 DEF OneAdmission
  <1>3. /\ queue["suspended_ready_q"] \in Seq(IndexedPcb)
        /\ \A q \in MadeQueues : queue[q] \in Seq(IndexedPcb)
    BY DEF IndexedInv, IndexedInKernel, MadeQueues, Queues
  <1>4. /\ \A q \in MadeQueues : queue'[q] \in Seq(IndexedPcb)
        /\ hand'["io_listener"] = hand["io_listener"]
        /\ at'["to_ready"] = "put_to_ready" => hand'["to_ready"] \in IndexedPcb
    <2>1. CASE queue["suspended_ready_q"] # <<>>
      <3>1. Admit("suspended_ready_q", "put_to_ready")
        BY <2>1 DEF ToReady_Admit
      <3>2. /\ Head(queue["suspended_ready_q"]) \in IndexedPcb
            /\ Tail(queue["suspended_ready_q"]) \in Seq(IndexedPcb)
        BY <1>3, <2>1
      <3>. QED BY <1>0, <1>3, <3>1, <3>2 DEF Admit, MadeQueues, Queues, Holders, Planners
    <2>2. CASE queue["suspended_ready_q"] = <<>> /\ queue["new_q"] # <<>>
      <3>1. Admit("new_q", "PROCESS_NEW")
        BY <2>2 DEF ToReady_Admit
      <3>. QED BY <1>0, <1>3, <3>1 DEF Admit, MadeQueues, Queues, Holders, Planners, Threads
    <2>3. CASE queue["suspended_ready_q"] = <<>> /\ queue["new_q"] = <<>>
      <3>1. at' = [at EXCEPT !["to_ready"] = "any_for_ready"] /\ UNCHANGED <<queue, hand>>
        BY <2>3 DEF ToReady_Admit
      <3>. QED BY <1>0, <1>3, <3>1 DEF Threads, Holders, Planners
    <2>. QED BY <2>1, <2>2, <2>3
  <1>. QED BY <1>1, <1>2, <1>4, IndexedKept DEF IndexedInv, IndexedInKernel,
           IndexedOnTheWay, IndexedInCpu, socketVars

\* new_to_ready asks for memory: the request names no entry yet.
LEMMA NewToReady_Send_Indexed ==
  ASSUME SystemInv, IndexedInv, UNCHANGED <<cpuVars, memoryVars>>, NewToReady_Send
  PROVE  IndexedInv'
  <1>0. /\ at \in [Threads -> Locations] /\ HandsFull
    BY FrameTypes
  <1> DEFINE m == [header |-> "PROCESS_NEW", pid |-> hand["to_ready"].pid,
                   size |-> Size[hand["to_ready"].client_socket]]
  <1>1. /\ UNCHANGED <<sem, queue, hand, dispatch, returns, memory_answers, cpu_pcb,
                       processes_frames, level1_tables>>
        /\ memory_requests' = Append(memory_requests, m)
        /\ at["to_ready"] = "PROCESS_NEW"
        /\ at' = [at EXCEPT !["to_ready"] = "memory_init_q"]
    BY DEF NewToReady_Send, cpuVars, memoryVars
  <1>2. hand["to_ready"] \in Pcb
    BY <1>0, <1>1 DEF HandsFull
  <1>3. m \in IndexedRequests
    <2>1. m \in MemoryRequests
      BY <1>2, NewPacket
    <2>. QED BY <2>1 DEF IndexedRequests
  <1>4. memory_requests' \in Seq(IndexedRequests)
    <2> HIDE DEF m
    <2>. QED BY <1>1, <1>3 DEF IndexedInv, IndexedOnTheWay
  <1>5. at'["to_ready"] # "put_to_ready"
    BY <1>0, <1>1 DEF Threads, Holders, Planners
  <1>. QED BY <1>1, <1>4, <1>5, IndexedKept DEF IndexedInv, IndexedInKernel,
           IndexedOnTheWay, IndexedInCpu

\* The parts of IndexedInv that a step starts from.
LEMMA IndexedParts ==
  ASSUME IndexedInv
  PROVE  /\ queue["ready_q"] \in Seq(IndexedPcb) /\ queue["blocked_q"] \in Seq(IndexedPcb)
         /\ queue["suspended_block_q"] \in Seq(IndexedPcb)
         /\ queue["suspended_ready_q"] \in Seq(IndexedPcb)
         /\ queue["exit_q"] \in Seq(IndexedPcb)
         /\ \A q \in MadeQueues : queue[q] \in Seq(IndexedPcb)
         /\ hand["io_listener"] \in IndexedPcb \cup {NoPcb}
         /\ dispatch \in Seq(IndexedPcb) /\ returns \in Seq(IndexedReturns)
         /\ memory_requests \in Seq(IndexedRequests)
         /\ memory_answers \in Seq(IndexedAnswers)
         /\ cpu_pcb \in IndexedPcb \cup {NoPcb}
         /\ at["to_ready"] = "put_to_ready" => hand["to_ready"] \in IndexedPcb
  BY DEF IndexedInv, IndexedInKernel, IndexedOnTheWay, IndexedInCpu, MadeQueues, Queues

\* put_to_ready: a process moves from the planner's hand to ready_q, sorted or not.
LEMMA PutToReady_Indexed ==
  ASSUME SystemInv, IndexedInv, UNCHANGED <<cpuVars, memoryVars>>,
         NEW t \in Planners, PutToReady(t)
  PROVE  IndexedInv'
  <1>0. /\ sem \in [Semaphores -> Nat] /\ at \in [Threads -> Locations]
        /\ queue \in [Queues -> Seq(Pcb)] /\ hand \in [Holders -> Pcb \cup {NoPcb}]
        /\ HandsFull /\ OneAdmission
    BY FrameTypes
  <1>1. /\ UNCHANGED <<dispatch, returns, memory_requests, memory_answers, cpu_pcb,
                       processes_frames, level1_tables>>
        /\ at[t] = "put_to_ready"
    BY DEF PutToReady, cpuVars, memoryVars
  <1>2. hand[t] \in IndexedPcb
    <2>1. CASE t = "to_ready"
      BY <1>1, <2>1, IndexedParts
    <2>2. CASE t = "io_listener"
      BY <1>0, <1>1, <2>2, IndexedParts, NoPcbAssumption DEF HandsFull
    <2>. QED BY <2>1, <2>2 DEF Planners
  <1>3. Append(queue["ready_q"], hand[t]) \in Seq(IndexedPcb)
    BY <1>2, IndexedParts
  <1>4. PICK r \in Seq(IndexedPcb) : queue' = [queue EXCEPT !["ready_q"] = r]
    BY <1>3, SortLemma
       DEF PutToReady, PutToReady_Fifo, PutToReady_Replan, PutToReady_Interrupt
  <1>5. \A q \in MadeQueues : queue'[q] \in Seq(IndexedPcb)
    BY <1>0, <1>4, IndexedParts DEF MadeQueues
  <1>6. /\ hand' = [hand EXCEPT ![t] = NoPcb]
        /\ sem'["pcb_table_ready"] = sem["pcb_table_ready"]
        /\ at' = [at EXCEPT ![t] = LoopStart(t)] \/ at' = [at EXCEPT ![t] = "interrupt_ready"]
    BY <1>0 DEF PutToReady, PutToReady_Fifo, PutToReady_Replan, PutToReady_Interrupt, Semaphores
  <1>7. hand'["io_listener"] \in IndexedPcb \cup {NoPcb}
    BY <1>0, <1>6, IndexedParts DEF Holders, Planners
  <1>8. at'["to_ready"] = "put_to_ready" \/ sem'["pcb_table_ready"] > 0
          => hand'["to_ready"] \in IndexedPcb
    <2>1. CASE t = "to_ready"
      <3>1. sem["pcb_table_ready"] \in Nat /\ Len(queue["memory_init_q"]) \in Nat
        BY <1>0 DEF Semaphores, Queues
      <3>2. sem["pcb_table_ready"] = 0
        BY <1>0, <1>1, <2>1, <3>1 DEF OneAdmission
      <3>3. at'["to_ready"] # "put_to_ready"
        BY <1>0, <1>6, <2>1 DEF Threads, Holders, Planners, LoopStart
      <3>. QED BY <1>6, <3>2, <3>3
    <2>2. CASE t = "io_listener"
      BY <1>0, <1>6, <2>2 DEF IndexedInv, IndexedInKernel, Threads, Holders, Planners
    <2>. QED BY <2>1, <2>2 DEF Planners
  <1>. QED BY <1>1, <1>5, <1>7, <1>8, IndexedParts, IndexedKept

\* put_to_ready goes on after its interrupt.
LEMMA PutToReady_Resume_Indexed ==
  ASSUME SystemInv, IndexedInv, UNCHANGED <<cpuVars, memoryVars>>,
         NEW t \in Planners, PutToReady_Resume(t)
  PROVE  IndexedInv'
  <1>0. /\ sem \in [Semaphores -> Nat] /\ at \in [Threads -> Locations]
        /\ queue \in [Queues -> Seq(Pcb)]
    BY FrameTypes
  <1>1. /\ UNCHANGED <<hand, dispatch, returns, memory_requests, memory_answers, cpu_pcb,
                       processes_frames, level1_tables>>
        /\ sem'["pcb_table_ready"] = sem["pcb_table_ready"]
        /\ at' = [at EXCEPT ![t] = LoopStart(t)]
    BY <1>0 DEF PutToReady_Resume, cpuVars, memoryVars, socketVars, Semaphores
  <1>2. PICK r \in Seq(IndexedPcb) : queue' = [queue EXCEPT !["ready_q"] = r]
    BY SortLemma, IndexedParts DEF PutToReady_Resume
  <1>3. \A q \in MadeQueues : queue'[q] \in Seq(IndexedPcb)
    BY <1>0, <1>2, IndexedParts DEF MadeQueues
  <1>4. at'["to_ready"] = "put_to_ready" => at["to_ready"] = "put_to_ready"
    BY <1>0, <1>1 DEF Threads, Holders, Planners, LoopStart
  <1>. QED BY <1>1, <1>3, <1>4, IndexedParts, IndexedKept DEF IndexedInv, IndexedInKernel

\* to_exec dispatches a process.
LEMMA ToExec_Dispatch_Indexed ==
  ASSUME SystemInv, IndexedInv, UNCHANGED <<cpuVars, memoryVars>>, ToExec_Dispatch
  PROVE  IndexedInv'
  <1>0. at \in [Threads -> Locations] /\ queue \in [Queues -> Seq(Pcb)]
    BY FrameTypes
  <1>1. /\ UNCHANGED <<sem, hand, returns, memory_requests, memory_answers, cpu_pcb,
                       processes_frames, level1_tables>>
        /\ at'["to_ready"] = at["to_ready"]
        /\ queue["ready_q"] # <<>>
        /\ dispatch' = Append(dispatch, Head(queue["ready_q"]))
        /\ queue' = [queue EXCEPT !["ready_q"] = Tail(@)]
    BY <1>0 DEF ToExec_Dispatch, cpuVars, memoryVars, Threads, Holders, Planners
  <1>2. Head(queue["ready_q"]) \in IndexedPcb /\ Tail(queue["ready_q"]) \in Seq(IndexedPcb)
    BY <1>1, IndexedParts
  <1>3. dispatch' \in Seq(IndexedPcb)
    BY <1>1, <1>2, IndexedParts
  <1>4. \A q \in MadeQueues : queue'[q] \in Seq(IndexedPcb)
    BY <1>0, <1>1, <1>2, IndexedParts DEF MadeQueues
  <1>. QED BY <1>1, <1>3, <1>4, IndexedParts, IndexedKept DEF IndexedInv, IndexedInKernel

\* io_listener takes a process whose I/O it will do, or whose I/O is too long.
LEMMA IoListener_Take_Indexed ==
  ASSUME SystemInv, IndexedInv, UNCHANGED <<cpuVars, memoryVars>>,
         IoListener_Fits \/ IoListener_Exceeds \/ IoListener_Suspended
  PROVE  IndexedInv'
  <1>0. /\ sem \in [Semaphores -> Nat] /\ at \in [Threads -> Locations]
        /\ queue \in [Queues -> Seq(Pcb)] /\ hand \in [Holders -> Pcb \cup {NoPcb}]
    BY FrameTypes
  <1>1. PICK q \in {"blocked_q", "suspended_block_q"},
             l \in {"put_to_ready", "PROCESS_SUSPEND", "suspended_ready_q"} : IoListener_Take(q, l)
    BY DEF IoListener_Fits, IoListener_Exceeds, IoListener_Suspended
  <1>2. /\ UNCHANGED <<dispatch, returns, memory_requests, memory_answers, cpu_pcb,
                       processes_frames, level1_tables>>
        /\ queue[q] # <<>>
        /\ queue' = [queue EXCEPT ![q] = Tail(@)]
        /\ hand' = [hand EXCEPT !["io_listener"] = Head(queue[q])]
        /\ sem'["pcb_table_ready"] = sem["pcb_table_ready"]
        /\ at'["to_ready"] = at["to_ready"]
    BY <1>0, <1>1 DEF IoListener_Take, cpuVars, memoryVars, socketVars, Semaphores, Threads,
       Holders, Planners
  <1>3. Head(queue[q]) \in IndexedPcb /\ Tail(queue[q]) \in Seq(IndexedPcb)
    BY <1>2, IndexedParts
  <1>4. \A k \in MadeQueues : queue'[k] \in Seq(IndexedPcb)
    BY <1>0, <1>2, <1>3, IndexedParts DEF MadeQueues
  <1>5. hand'["io_listener"] = Head(queue[q]) /\ hand'["to_ready"] = hand["to_ready"]
    BY <1>0, <1>2 DEF Holders, Planners
  <1>. QED BY <1>2, <1>3, <1>4, <1>5, IndexedParts, IndexedKept DEF IndexedInv, IndexedInKernel

\* io_listener suspends a process, and puts it back when its I/O ends.
LEMMA IoListener_Suspend_Indexed ==
  ASSUME SystemInv, IndexedInv, UNCHANGED <<cpuVars, memoryVars>>, IoListener_Suspend
  PROVE  IndexedInv'
  <1>0. at \in [Threads -> Locations] /\ HandsFull
    BY FrameTypes
  <1> DEFINE p == hand["io_listener"]
             m == [header |-> "PROCESS_SUSPEND", pid |-> p.pid, page_table |-> p.page_table,
                   process_frames_index |-> p.process_frames_index]
  <1>1. /\ UNCHANGED <<sem, queue, hand, dispatch, returns, memory_answers, cpu_pcb,
                       processes_frames, level1_tables>>
        /\ at["io_listener"] = "PROCESS_SUSPEND"
        /\ at'["to_ready"] = at["to_ready"]
        /\ memory_requests' = Append(memory_requests, m)
    BY <1>0 DEF IoListener_Suspend, cpuVars, memoryVars, Threads, Holders, Planners
  <1>2. p \in IndexedPcb
    BY <1>0, <1>1, IndexedParts, NoPcbAssumption DEF HandsFull
  <1>3. m \in IndexedRequests
    <2> HIDE DEF p
    <2>. QED BY <1>2, IndexedFields
  <1>4. memory_requests' \in Seq(IndexedRequests)
    <2> HIDE DEF m
    <2>. QED BY <1>1, <1>3, IndexedParts
  <1>. QED BY <1>1, <1>4, IndexedParts, IndexedKept DEF IndexedInv, IndexedInKernel

\* io_listener queues a process that was suspended, or whose I/O ended meanwhile.
LEMMA IoListener_Put_Indexed ==
  ASSUME SystemInv, IndexedInv, UNCHANGED <<cpuVars, memoryVars>>,
         IoListener_Wait \/ IoListener_Finish
  PROVE  IndexedInv'
  <1>0. /\ sem \in [Semaphores -> Nat] /\ at \in [Threads -> Locations]
        /\ queue \in [Queues -> Seq(Pcb)] /\ hand \in [Holders -> Pcb \cup {NoPcb}]
        /\ HandsFull
    BY FrameTypes
  <1>1. PICK q \in {"suspended_block_q", "suspended_ready_q"} :
          queue' = [queue EXCEPT ![q] = Append(@, hand["io_listener"])]
    BY DEF IoListener_Wait, IoListener_Finish
  <1>2. /\ UNCHANGED <<dispatch, returns, memory_requests, memory_answers, cpu_pcb,
                       processes_frames, level1_tables>>
        /\ hand'["io_listener"] = NoPcb /\ hand'["to_ready"] = hand["to_ready"]
        /\ sem'["pcb_table_ready"] = sem["pcb_table_ready"]
        /\ at'["to_ready"] = at["to_ready"]
        /\ at["io_listener"] \in {"waiting_for_suspension", "suspended_ready_q"}
    BY <1>0 DEF IoListener_Wait, IoListener_Finish, cpuVars, memoryVars, socketVars,
       Semaphores, Threads, Holders, Planners
  <1>3. hand["io_listener"] \in IndexedPcb
    BY <1>0, <1>2, IndexedParts, NoPcbAssumption DEF HandsFull
  <1>4. \A k \in MadeQueues : queue'[k] \in Seq(IndexedPcb)
    BY <1>0, <1>1, <1>3, IndexedParts DEF MadeQueues
  <1>. QED BY <1>2, <1>4, IndexedParts, IndexedKept DEF IndexedInv, IndexedInKernel

\* exit_process asks the memory server to destroy a process.
LEMMA ExitProcess_Send_Indexed ==
  ASSUME SystemInv, IndexedInv, UNCHANGED <<cpuVars, memoryVars>>, ExitProcess_Send
  PROVE  IndexedInv'
  <1>0. /\ sem \in [Semaphores -> Nat] /\ at \in [Threads -> Locations]
        /\ queue \in [Queues -> Seq(Pcb)] /\ hand \in [Holders -> Pcb \cup {NoPcb}]
    BY FrameTypes
  <1> DEFINE p == Head(queue["exit_q"])
             m == [header |-> "PROCESS_EXIT", pid |-> p.pid, page_table |-> p.page_table,
                   process_frames_index |-> p.process_frames_index]
  <1>1. /\ UNCHANGED <<dispatch, returns, memory_answers, cpu_pcb, processes_frames,
                       level1_tables>>
        /\ queue["exit_q"] # <<>> /\ queue' = [queue EXCEPT !["exit_q"] = Tail(@)]
        /\ memory_requests' = Append(memory_requests, m)
        /\ hand'["io_listener"] = hand["io_listener"] /\ hand'["to_ready"] = hand["to_ready"]
        /\ sem'["pcb_table_ready"] = sem["pcb_table_ready"]
        /\ at'["to_ready"] = at["to_ready"]
    BY <1>0 DEF ExitProcess_Send, cpuVars, memoryVars, Semaphores, Threads, Holders, Planners
  <1>2. p \in IndexedPcb /\ Tail(queue["exit_q"]) \in Seq(IndexedPcb)
    BY <1>1, IndexedParts
  <1>3. m \in IndexedRequests
    <2> HIDE DEF p
    <2>. QED BY <1>2, IndexedFields
  <1>4. memory_requests' \in Seq(IndexedRequests)
    <2> HIDE DEF m
    <2>. QED BY <1>1, <1>3, IndexedParts
  <1>5. \A k \in MadeQueues : queue'[k] \in Seq(IndexedPcb)
    BY <1>0, <1>1, <1>2, IndexedParts DEF MadeQueues
  <1>. QED BY <1>1, <1>4, <1>5, IndexedParts, IndexedKept DEF IndexedInv, IndexedInKernel

\* The handlers of what the CPU returns: the process goes to one of three queues.
LEMMA CpuDispatchListener_Indexed ==
  ASSUME SystemInv, IndexedInv, UNCHANGED <<cpuVars, memoryVars>>, CpuDispatchListener
  PROVE  IndexedInv'
  <1>0. sem \in [Semaphores -> Nat] /\ queue \in [Queues -> Seq(Pcb)]
    BY FrameTypes
  <1>1. /\ UNCHANGED <<at, hand, dispatch, memory_requests, memory_answers, cpu_pcb,
                       processes_frames, level1_tables>>
        /\ sem'["pcb_table_ready"] = sem["pcb_table_ready"]
        /\ returns # <<>> /\ returns' = Tail(returns)
    BY <1>0 DEF CpuDispatchListener, IoOp, ExitOp, HandleInterruption, Returned, cpuVars,
       memoryVars, Semaphores
  <1>2. Head(returns) \in IndexedReturns /\ returns' \in Seq(IndexedReturns)
    BY <1>1, IndexedParts
  <1>3. Head(returns).pcb \in IndexedPcb
    BY <1>2 DEF IndexedReturns
  <1>4. PICK q \in {"blocked_q", "exit_q", "ready_q"}, p \in IndexedPcb :
          queue' = [queue EXCEPT ![q] = Append(@, p)]
    <2>1. CASE IoOp
      BY <1>3, <2>1, IndexedFields DEF IoOp
    <2>2. CASE ExitOp
      BY <1>3, <2>2 DEF ExitOp
    <2>3. CASE HandleInterruption
      BY <1>3, <2>3, IndexedFields DEF HandleInterruption
    <2>. QED BY <2>1, <2>2, <2>3 DEF CpuDispatchListener
  <1>5. \A k \in MadeQueues : queue'[k] \in Seq(IndexedPcb)
    BY <1>0, <1>4, IndexedParts DEF MadeQueues
  <1>. QED BY <1>1, <1>2, <1>5, IndexedParts, IndexedKept DEF IndexedInv, IndexedInKernel

\* table_index_success: the indices the server gave are in range.
LEMMA TableIndexSuccess_Indexed ==
  ASSUME SystemInv, IndexedInv, UNCHANGED <<cpuVars, memoryVars>>, TableIndexSuccess
  PROVE  IndexedInv'
  <1>0. /\ sem \in [Semaphores -> Nat] /\ at \in [Threads -> Locations]
        /\ queue \in [Queues -> Seq(Pcb)] /\ hand \in [Holders -> Pcb \cup {NoPcb}]
        /\ HandsFull /\ OneAdmission
    BY FrameTypes
  <1> DEFINE m == Head(memory_answers)
             p == hand["to_ready"]
             new == [p EXCEPT !.page_table = m.page_table,
                              !.process_frames_index = m.process_frames_index]
  <1>1. /\ UNCHANGED <<at, dispatch, returns, memory_requests, cpu_pcb, processes_frames,
                       level1_tables>>
        /\ memory_answers # <<>> /\ memory_answers' = Tail(memory_answers)
        /\ m.header = "PROCESS_MEMORY_READY"
    BY DEF TableIndexSuccess, Answered, cpuVars, memoryVars
  <1>2. m \in IndexedAnswers /\ memory_answers' \in Seq(IndexedAnswers)
    BY <1>1, IndexedParts
  <1>3. CASE UNCHANGED <<hand, queue, sem>>
    BY <1>1, <1>2, <1>3, IndexedParts, IndexedKept DEF IndexedInv, IndexedInKernel
  <1>4. CASE /\ \E i \in DOMAIN queue["memory_init_q"] : queue["memory_init_q"][i].pid = m.pid
             /\ hand' = [hand EXCEPT !["to_ready"] = new]
             /\ queue' = [queue EXCEPT !["memory_init_q"] = Tail(@)]
             /\ sem' = [sem EXCEPT !["pcb_table_ready"] = @ + 1]
    <2>1. at["to_ready"] = "pcb_table_ready"
      <3>1. queue["memory_init_q"] # <<>> /\ queue["memory_init_q"] \in Seq(Pcb)
        BY <1>0, <1>4 DEF Queues
      <3>2. Len(queue["memory_init_q"]) > 0 /\ Len(queue["memory_init_q"]) \in Nat
        BY <3>1
      <3>3. sem["pcb_table_ready"] \in Nat
        BY <1>0 DEF Semaphores
      <3>. QED BY <1>0, <3>2, <3>3 DEF OneAdmission
    <2>2. p \in Pcb
      BY <1>0, <2>1 DEF HandsFull
    <2>3. m.page_table \in Nat /\ m.process_frames_index \in Nat /\ InRange(m)
      <3>1. m \in MemoryAnswers /\ InRange(m)
        BY <1>1, <1>2 DEF IndexedAnswers
      <3> HIDE DEF m
      <3>2. m.page_table \in Nat /\ m.process_frames_index \in Nat
        <4>1. m.header = "PROCESS_MEMORY_READY"
          BY <1>1 DEF m
        <4>. QED BY <3>1, <4>1 DEF MemoryAnswers
      <3>. QED BY <3>1, <3>2
    <2>4. new \in IndexedPcb
      <3> HIDE DEF m, p
      <3>1. new \in Pcb
        BY <2>2, <2>3, TableLemma
      <3>2. /\ new.page_table = m.page_table
            /\ new.process_frames_index = m.process_frames_index
        BY <2>2 DEF Pcb
      <3>3. InRange(new)
        BY <2>3, <3>2 DEF InRange
      <3>. QED BY <3>1, <3>3 DEF IndexedPcb
    <2>5. hand'["to_ready"] = new /\ hand'["io_listener"] = hand["io_listener"]
      BY <1>0, <1>4 DEF Holders, Planners
    <2>6. \A k \in MadeQueues : queue'[k] = queue[k]
      BY <1>0, <1>4 DEF MadeQueues
    <2>. QED BY <1>1, <1>2, <2>4, <2>5, <2>6, IndexedParts, IndexedKept
  <1>. QED BY <1>3, <1>4 DEF TableIndexSuccess

\* suspension_success and exit_process_success take an answer and post.
LEMMA OtherAnswers_Indexed ==
  ASSUME SystemInv, IndexedInv, UNCHANGED <<cpuVars, memoryVars>>,
         SuspensionSuccess \/ ExitProcessSuccess
  PROVE  IndexedInv'
  <1>0. sem \in [Semaphores -> Nat]
    BY FrameTypes
  <1>1. /\ UNCHANGED <<queue, at, hand, dispatch, returns, memory_requests, cpu_pcb,
                       processes_frames, level1_tables>>
        /\ memory_answers # <<>> /\ memory_answers' = Tail(memory_answers)
        /\ sem'["pcb_table_ready"] = sem["pcb_table_ready"]
    BY <1>0 DEF SuspensionSuccess, ExitProcessSuccess, Answered, cpuVars, memoryVars,
       Semaphores
  <1>2. memory_answers' \in Seq(IndexedAnswers)
    BY <1>1, IndexedParts
  <1>. QED BY <1>1, <1>2, IndexedParts, IndexedKept DEF IndexedInv, IndexedInKernel

\* Every step of a kernel thread keeps the indices in range.
LEMMA Kernel_Indexed ==
  ASSUME SystemInv, IndexedInv, UNCHANGED <<cpuVars, memoryVars>>,
         \/ \E c \in Consoles : ReceiveProcess(c)
         \/ ToReady \/ ToExec \/ IoListener \/ ExitProcess
         \/ CpuDispatchListener \/ MemoryListener
  PROVE  IndexedInv'
  <1>0. "to_ready" \in Planners /\ "io_listener" \in Planners
    BY DEF Planners
  <1>1. CASE \E c \in Consoles : ReceiveProcess(c)
    BY <1>1, IndexedAside_Step
  <1>2. CASE ToReady
    BY <1>0, <1>2, IndexedAside_Step, ToReady_Admit_Indexed, NewToReady_Send_Indexed,
       PutToReady_Indexed, PutToReady_Resume_Indexed DEF ToReady
  <1>3. CASE ToExec
    BY <1>3, IndexedAside_Step, ToExec_Dispatch_Indexed DEF ToExec
  <1>4. CASE IoListener
    BY <1>0, <1>4, IoListener_Take_Indexed, IoListener_Suspend_Indexed,
       IoListener_Put_Indexed, PutToReady_Indexed, PutToReady_Resume_Indexed DEF IoListener
  <1>5. CASE ExitProcess
    BY <1>5, IndexedAside_Step, ExitProcess_Send_Indexed DEF ExitProcess
  <1>6. CASE CpuDispatchListener
    BY <1>6, CpuDispatchListener_Indexed
  <1>7. CASE MemoryListener
    BY <1>7, TableIndexSuccess_Indexed, OtherAnswers_Indexed DEF MemoryListener
  <1>. QED BY <1>1, <1>2, <1>3, <1>4, <1>5, <1>6, <1>7

-----------------------------------------------------------------------------
(* Steps of the CPU. *)

\* The CPU returns the process it was given, at another instruction.
LEMMA Cpu_Indexed ==
  ASSUME SystemInv, IndexedInv, UNCHANGED <<kernelVars, memoryVars>>,
         ReceivePcb \/ ReceiveInterruption \/ CpuCycle
  PROVE  IndexedInv'
  <1>0. /\ UNCHANGED <<sem, queue, at, hand, memory_requests, memory_answers,
                       processes_frames, level1_tables>>
    BY DEF kernelVars, memoryVars, ReceivePcb, ReceiveInterruption, CpuCycle, CycleStart,
       CycleEnd, ExecuteNoOp, ExecuteIo, ExecuteExit, ExecuteMemoryOp, Mmu, NoInterruption,
       Evict, EvictGone, socketVars
  <1> DEFINE Rest == /\ dispatch' \in Seq(IndexedPcb)
                     /\ returns' \in Seq(IndexedReturns)
                     /\ cpu_pcb' \in IndexedPcb \cup {NoPcb}
  <1> SUFFICES Rest
    BY <1>0, IndexedParts, IndexedKept DEF IndexedInv, IndexedInKernel
  <1>1. CASE ReceivePcb
    <2>1. Head(dispatch) \in IndexedPcb /\ Tail(dispatch) \in Seq(IndexedPcb)
      BY <1>1, IndexedParts DEF ReceivePcb
    <2>. QED BY <1>1, <2>1, IndexedParts DEF ReceivePcb
  <1>2. CASE UNCHANGED <<dispatch, returns, cpu_pcb>>
    BY <1>2, IndexedParts
  <1>3. ASSUME NEW ops, FetchAndDecode(ops)
        PROVE  cpu_pcb' = Advanced /\ Advanced \in IndexedPcb
    <2>1. cpu_pcb \in Pcb
      BY <1>3 DEF FetchAndDecode, SystemInv, CpuInv, CpuLoaded
    <2>2. cpu_pcb \in IndexedPcb
      BY <2>1, IndexedParts, NoPcbAssumption
    <2>. QED BY <1>3, <2>2, IndexedFields DEF FetchAndDecode, Advanced
  <1>4. CASE ExecuteNoOp \/ ExecuteMemoryOp
    <2>1. cpu_pcb' \in IndexedPcb
      BY <1>3, <1>4 DEF ExecuteNoOp, ExecuteMemoryOp
    <2>. QED BY <1>4, <2>1, IndexedParts DEF ExecuteNoOp, ExecuteMemoryOp, Mmu, socketVars
  <1>5. CASE ExecuteIo \/ ExecuteExit
    <2>1. cpu_pcb' = Advanced /\ Advanced \in IndexedPcb
      BY <1>3, <1>5 DEF ExecuteIo, ExecuteExit
    <2>2. PICK h \in {"IO_CALL", "EXIT_CALL", "INTERRUPT_DISPATCH"} :
            returns' = Append(returns, [header |-> h, pcb |-> Advanced])
      BY <1>5 DEF ExecuteIo, ExecuteExit, PcbToKernel
    <2>3. [header |-> h, pcb |-> Advanced] \in IndexedReturns
      BY <2>1, IndexedFields
    <2>. QED BY <1>5, <2>1, <2>2, <2>3, IndexedParts DEF ExecuteIo, ExecuteExit
  <1>6. CASE Evict \/ EvictGone
    <2>1. cpu_pcb \in Pcb
      BY <1>6 DEF Evict, EvictGone, SystemInv, CpuInv, CpuLoaded
    <2>2. cpu_pcb \in IndexedPcb
      BY <2>1, IndexedParts, NoPcbAssumption
    <2>3. returns' = Append(returns, [header |-> "INTERRUPT_DISPATCH", pcb |-> cpu_pcb])
      BY <1>6 DEF Evict, EvictGone, PcbToKernel
    <2>4. [header |-> "INTERRUPT_DISPATCH", pcb |-> cpu_pcb] \in IndexedReturns
      BY <2>2, IndexedFields
    <2>. QED BY <1>6, <2>2, <2>3, <2>4, IndexedParts DEF Evict, EvictGone
  <1>. QED BY <1>1, <1>2, <1>4, <1>5, <1>6 DEF ReceiveInterruption, CpuCycle, CycleStart,
           CycleEnd, NoInterruption, socketVars

-----------------------------------------------------------------------------
(* Steps of the memory server. *)

\* The entry that a request names.
LEMMA RequestInRange ==
  ASSUME SystemInv, IndexedInv, NEW h, Requested(h)
  PROVE  LET m == Head(memory_requests) IN
         /\ m \in MemoryRequests /\ m.pid \in Nat
         /\ Tail(memory_requests) \in Seq(IndexedRequests)
         /\ h = "PROCESS_NEW" => m.size \in Nat
         /\ h # "PROCESS_NEW" => /\ m.process_frames_index + 1 \in DOMAIN processes_frames
                                 /\ m.page_table + 1 \in DOMAIN level1_tables
  <1> DEFINE m == Head(memory_requests)
  <1>1. SocketsTypeOK
    BY DEF SystemInv, KernelInv
  <1>2. /\ m \in MemoryRequests /\ m.header = h /\ m.pid \in Nat
        /\ h = "PROCESS_NEW" => m.size \in Nat
        /\ h # "PROCESS_NEW" => m.page_table \in Nat /\ m.process_frames_index \in Nat
    BY <1>1, RequestFields
  <1>3. m \in IndexedRequests /\ Tail(memory_requests) \in Seq(IndexedRequests)
    BY IndexedParts DEF Requested
  <1>4. processes_frames \in Seq(SUBSET Frames) /\ level1_tables \in Seq(Nat)
    BY DEF SystemInv, MemoryTypeOK
  <1>5. h # "PROCESS_NEW" => InRange(m)
    BY <1>2, <1>3 DEF IndexedRequests
  <1> HIDE DEF m
  <1>6. h # "PROCESS_NEW" => /\ m.process_frames_index + 1 \in DOMAIN processes_frames
                             /\ m.page_table + 1 \in DOMAIN level1_tables
    BY <1>2, <1>4, <1>5 DEF InRange
  <1>. QED BY <1>2, <1>3, <1>6 DEF m

\* process_new: the lists grow, so what was in range stays in range, and the answer
\* names the entries just made.
LEMMA ProcessNew_Indexed ==
  ASSUME SystemInv, IndexedInv, UNCHANGED <<kernelVars, cpuVars>>, ProcessNew
  PROVE  IndexedInv'
  <1> DEFINE m == Head(memory_requests)
             mine == FirstUnassigned(frames_bitmap)
             reply == [header |-> "PROCESS_MEMORY_READY", pid |-> m.pid,
                       page_table |-> Len(level1_tables),
                       process_frames_index |-> Len(processes_frames)]
  <1>0. /\ level1_tables' = Append(level1_tables, TablesRequired(m.size))
        /\ processes_frames' = Append(processes_frames, mine)
        /\ memory_answers' = Append(memory_answers, reply)
        /\ memory_requests' = Tail(memory_requests)
        /\ UNCHANGED <<dispatch, returns, sem, queue, at, hand, cpu_pcb>>
    BY DEF ProcessNew, PageTableInit, AssignProcessFrames, Reply, kernelVars, cpuVars
  <1>1. /\ level1_tables \in Seq(Nat) /\ processes_frames \in Seq(SUBSET Frames)
        /\ Len(level1_tables) \in Nat /\ Len(processes_frames) \in Nat
    BY DEF SystemInv, MemoryTypeOK
  <1>2. m.pid \in Nat /\ m.size \in Nat /\ Tail(memory_requests) \in Seq(IndexedRequests)
    BY RequestInRange DEF ProcessNew
  <1>3. /\ Len(level1_tables') = Len(level1_tables) + 1
        /\ Len(processes_frames') = Len(processes_frames) + 1
    <2>1. TablesRequired(m.size) \in Nat /\ mine \in SUBSET Frames
      BY <1>2, TablesLemma DEF FirstUnassigned
    <2> HIDE DEF m, mine
    <2>. QED BY <1>0, <1>1, <2>1
  <1>4. \A p \in Pcb : InRange(p) => InRange(p)'
    BY <1>1, <1>3 DEF InRange, Pcb
  <1>5. IndexedPcb \subseteq IndexedPcb'
    BY <1>4 DEF IndexedPcb
  <1>6. IndexedReturns \subseteq IndexedReturns'
    BY <1>5 DEF IndexedReturns
  <1>7. IndexedRequests \subseteq IndexedRequests'
    <2> SUFFICES ASSUME NEW r \in MemoryRequests, r.header # "PROCESS_NEW", InRange(r)
                 PROVE  InRange(r)'
      BY DEF IndexedRequests
    <2>1. r.page_table \in Nat /\ r.process_frames_index \in Nat
      BY DEF MemoryRequests
    <2>. QED BY <1>1, <1>3, <2>1 DEF InRange
  <1>8. IndexedAnswers \subseteq IndexedAnswers'
    <2> SUFFICES ASSUME NEW r \in MemoryAnswers, r.header = "PROCESS_MEMORY_READY", InRange(r)
                 PROVE  InRange(r)'
      BY DEF IndexedAnswers
    <2>1. r.page_table \in Nat /\ r.process_frames_index \in Nat
      BY DEF MemoryAnswers
    <2>. QED BY <1>1, <1>3, <2>1 DEF InRange
  <1>9. PICK r \in MemoryAnswers :
          /\ memory_answers' = Append(memory_answers, r)
          /\ r.process_frames_index = Len(processes_frames)
          /\ r.page_table = Len(level1_tables)
    <2>1. reply \in MemoryAnswers
      BY <1>1, <1>2 DEF MemoryAnswers
    <2>. QED BY <1>0, <2>1
  <1>10. r \in IndexedAnswers'
    BY <1>1, <1>3, <1>9 DEF IndexedAnswers, InRange
  <1>11. IndexedInKernel'
    BY <1>0, <1>5, SeqMonotonic DEF IndexedInv, IndexedInKernel
  <1>12. memory_answers' \in Seq(IndexedAnswers')
    <2>1. memory_answers \in Seq(IndexedAnswers')
      BY <1>8, SeqMonotonic, IndexedParts
    <2>. QED BY <1>9, <1>10, <2>1
  <1>13. IndexedOnTheWay' /\ IndexedInCpu'
    BY <1>0, <1>2, <1>5, <1>6, <1>7, <1>12, SeqMonotonic, IndexedParts
       DEF IndexedOnTheWay, IndexedInCpu
  <1>. QED BY <1>11, <1>13 DEF IndexedInv

\* The handlers that make no entry: the lists keep their length.
LEMMA OtherRequests_Indexed ==
  ASSUME SystemInv, IndexedInv, UNCHANGED <<kernelVars, cpuVars>>,
         ProcessSuspend \/ ProcessSuspend_Crash \/ ProcessExit
  PROVE  IndexedInv'
  <1>1. /\ UNCHANGED <<level1_tables, dispatch, returns, sem, queue, at, hand, cpu_pcb>>
        /\ memory_requests # <<>>
    BY DEF ProcessSuspend, ProcessSuspend_Crash, ProcessExit, Requested, memoryVars,
       kernelVars, cpuVars, socketVars
  <1>2. Len(processes_frames') = Len(processes_frames)
    <2>1. processes_frames \in Seq(SUBSET Frames)
      BY DEF SystemInv, MemoryTypeOK
    <2>2. \A i : Len([processes_frames EXCEPT ![i] = {}]) = Len(processes_frames)
      BY <2>1
    <2>. QED BY <2>2 DEF ProcessSuspend, ProcessSuspend_Crash, ProcessExit,
             UnassignProcessFrames, memoryVars
  <1>3. memory_requests' \in Seq(IndexedRequests)
    <2>1. memory_requests' = memory_requests \/ memory_requests' = Tail(memory_requests)
      BY DEF ProcessSuspend, ProcessSuspend_Crash, ProcessExit, Reply, socketVars
    <2>2. memory_requests \in Seq(IndexedRequests)
      BY IndexedParts
    <2>3. Tail(memory_requests) \in Seq(IndexedRequests)
      BY <1>1, <2>2
    <2>. QED BY <2>1, <2>2, <2>3
  <1>4. memory_answers' \in Seq(IndexedAnswers)
    <2>1. CASE memory_answers' = memory_answers
      BY <2>1, IndexedParts
    <2>2. CASE ProcessSuspend
      <3>1. [header |-> "PROCESS_SUSPENSION_READY"] \in IndexedAnswers
        BY DEF IndexedAnswers, MemoryAnswers
      <3>. QED BY <2>2, <3>1, IndexedParts DEF ProcessSuspend, Reply
    <2>3. CASE ProcessExit
      <3> DEFINE n == Head(memory_requests).pid
      <3>1. n \in Nat
        BY <2>3, RequestInRange DEF ProcessExit
      <3>2. [header |-> "PROCESS_EXIT_READY", pid |-> n] \in IndexedAnswers
        BY <3>1 DEF IndexedAnswers, MemoryAnswers
      <3>3. memory_answers' = Append(memory_answers, [header |-> "PROCESS_EXIT_READY", pid |-> n])
        BY <2>3 DEF ProcessExit, Reply
      <3> HIDE DEF n
      <3>. QED BY <3>2, <3>3, IndexedParts
    <2>. QED BY <2>1, <2>2, <2>3 DEF ProcessSuspend_Crash, socketVars
  <1>5. \A x : InRange(x)' <=> InRange(x)
    BY <1>1, <1>2 DEF InRange
  <1>6. IndexedPcb' = IndexedPcb
    BY <1>5 DEF IndexedPcb
  <1>7. IndexedReturns' = IndexedReturns
    BY <1>6 DEF IndexedReturns
  <1>8. IndexedRequests' = IndexedRequests /\ IndexedAnswers' = IndexedAnswers
    BY <1>5 DEF IndexedRequests, IndexedAnswers
  <1>9. IndexedInKernel'
    BY <1>1, <1>6 DEF IndexedInv, IndexedInKernel
  <1>10. IndexedOnTheWay' /\ IndexedInCpu'
    BY <1>1, <1>3, <1>4, <1>6, <1>7, <1>8 DEF IndexedInv, IndexedOnTheWay, IndexedInCpu
  <1>. QED BY <1>9, <1>10 DEF IndexedInv

-----------------------------------------------------------------------------
(* The frames. *)

\* assign_process_frames takes frames nobody has; unassign_process_frames gives
\* back those of one entry, and the others have none of them.
LEMMA Memory_Frames ==
  ASSUME SystemInv, IndexedInv, FrameOwnership, MemoryServer
  PROVE  FrameOwnership'
  <1> DEFINE m == Head(memory_requests)
             pf == processes_frames
  <1>0. PICK n \in Nat : pf \in [1 .. n -> SUBSET Frames]
    BY DEF SystemInv, MemoryTypeOK
  <1>1. CASE ProcessNew
    <2> DEFINE mine == FirstUnassigned(frames_bitmap)
    <2>1. pf' = Append(pf, mine) /\ frames_bitmap' = frames_bitmap \cup mine
      BY <1>1 DEF ProcessNew, AssignProcessFrames
    <2>2. mine \cap frames_bitmap = {} /\ mine \in SUBSET Frames
      BY DEF FirstUnassigned
    <2>3. /\ DOMAIN pf' = 1 .. n + 1 /\ pf'[n + 1] = mine
          /\ \A i \in 1 .. n : pf'[i] = pf[i]
      <3> HIDE DEF mine
      <3>. QED BY <1>0, <2>1, <2>2
    <2>4. \A i \in 1 .. n : pf[i] \subseteq frames_bitmap
      BY <1>0 DEF FrameOwnership, Elements
    <2>5. frames_bitmap' = UNION Elements(processes_frames')
      <3> HIDE DEF mine
      <3>1. frames_bitmap = UNION {pf[i] : i \in 1 .. n}
        BY <1>0 DEF FrameOwnership, Elements
      <3>2. UNION {pf'[i] : i \in 1 .. n + 1} = (UNION {pf[i] : i \in 1 .. n}) \cup mine
        <4>1. ASSUME NEW x PROVE (\E i \in 1 .. n + 1 : x \in pf'[i])
                                   <=> (\E i \in 1 .. n : x \in pf[i]) \/ x \in mine
          BY <2>3
        <4>. QED BY <4>1
      <3>. QED BY <2>1, <2>3, <3>1, <3>2 DEF Elements
    <2>6. ASSUME NEW i \in DOMAIN pf', NEW j \in DOMAIN pf', i # j
          PROVE  pf'[i] \cap pf'[j] = {}
      <3>1. CASE i \in 1 .. n /\ j \in 1 .. n
        BY <1>0, <2>3, <2>6, <3>1 DEF FrameOwnership
      <3>2. CASE i = n + 1
        BY <2>2, <2>3, <2>4, <2>6, <3>2
      <3>3. CASE j = n + 1
        BY <2>2, <2>3, <2>4, <2>6, <3>3
      <3>. QED BY <2>3, <2>6, <3>1, <3>2, <3>3
    <2>. QED BY <2>5, <2>6 DEF FrameOwnership
  <1>2. CASE ProcessSuspend \/ ProcessSuspend_Crash
    <2>1. UNCHANGED <<processes_frames, frames_bitmap>>
      BY <1>2 DEF ProcessSuspend, ProcessSuspend_Crash, memoryVars
    <2>. QED BY <2>1 DEF FrameOwnership, Elements
  <1>3. CASE ProcessExit
    <2> DEFINE k == m.process_frames_index + 1
    <2>1. k \in DOMAIN processes_frames
      BY <1>3, RequestInRange DEF ProcessExit
    <2>2. /\ frames_bitmap' = frames_bitmap \ pf[k]
          /\ pf' = [pf EXCEPT ![k] = {}]
      BY <1>3 DEF ProcessExit, UnassignProcessFrames
    <2> HIDE DEF k
    <2>3. DOMAIN pf' = DOMAIN pf /\ pf'[k] = {} /\ \A i \in DOMAIN pf \ {k} : pf'[i] = pf[i]
      BY <2>1, <2>2
    <2>4. \A i \in DOMAIN pf \ {k} : pf[i] \cap pf[k] = {}
      BY <2>1 DEF FrameOwnership
    <2>5. frames_bitmap' = UNION Elements(processes_frames')
      BY <2>1, <2>2, <2>3, <2>4 DEF FrameOwnership, Elements
    <2>6. \A i, j \in DOMAIN pf' : i # j => pf'[i] \cap pf'[j] = {}
      BY <2>3 DEF FrameOwnership
    <2>. QED BY <2>5, <2>6 DEF FrameOwnership
  <1>. QED BY <1>1, <1>2, <1>3 DEF MemoryServer

-----------------------------------------------------------------------------
(* Theorems. *)

FrameInv == SystemInv /\ IndexedInv /\ FrameOwnership

\* No process, no memory.
LEMMA FramesInitially == Init => FrameInv
  <1> SUFFICES ASSUME Init PROVE IndexedInv /\ FrameOwnership
    BY Initially DEF FrameInv
  <1>1. \A q \in MadeQueues : queue[q] = <<>>
    BY DEF Init, KernelInit, MadeQueues
  <1>2. hand["io_listener"] = NoPcb /\ at["to_ready"] # "put_to_ready" /\ sem["pcb_table_ready"] = 0
    BY DEF Init, KernelInit, Holders, Planners, Threads, Semaphores
  <1>3. IndexedInv
    <2>1. IndexedInKernel
      <3>1. \A q \in MadeQueues : queue[q] \in Seq(IndexedPcb)
        <4>1. <<>> \in Seq(IndexedPcb)
          OBVIOUS
        <4>. QED BY <1>1, <4>1
      <3>2. ~(sem["pcb_table_ready"] > 0)
        BY <1>2
      <3>. QED BY <1>2, <3>1, <3>2 DEF IndexedInKernel
    <2>2. IndexedOnTheWay
      BY DEF Init, SocketsInit, IndexedOnTheWay
    <2>3. IndexedInCpu
      BY DEF Init, CpuInit, IndexedInCpu
    <2>. QED BY <2>1, <2>2, <2>3 DEF IndexedInv
  <1>4. FrameOwnership
    BY DEF Init, MemoryInit, FrameOwnership, Elements
  <1>. QED BY <1>3, <1>4

\* Every step keeps the indices in range and the frames with one owner.
LEMMA FramesInductive == FrameInv /\ [Next]_vars => FrameInv'
  <1> SUFFICES ASSUME FrameInv, [Next]_vars
               PROVE  IndexedInv' /\ FrameOwnership'
    BY Inductive DEF FrameInv
  <1> USE DEF FrameInv
  <1>1. ASSUME UNCHANGED memoryVars PROVE FrameOwnership'
    BY <1>1 DEF FrameOwnership, Elements, memoryVars
  <1>2. CASE UNCHANGED vars
    <2>1. /\ UNCHANGED <<sem, queue, at, hand, dispatch, returns, memory_requests,
                         memory_answers, cpu_pcb, processes_frames, level1_tables>>
          /\ UNCHANGED memoryVars
      BY <1>2 DEF vars, socketVars, kernelVars, cpuVars, memoryVars
    <2>. QED BY <1>1, <2>1, IndexedParts, IndexedKept DEF IndexedInv, IndexedInKernel
  <1>3. CASE /\ UNCHANGED <<cpuVars, memoryVars>>
             /\ \/ \E c \in Consoles : ReceiveProcess(c)
                \/ ToReady \/ ToExec \/ IoListener \/ ExitProcess
                \/ CpuDispatchListener \/ MemoryListener
    BY <1>1, <1>3, Kernel_Indexed
  <1>4. CASE /\ UNCHANGED <<kernelVars, memoryVars>>
             /\ ReceivePcb \/ ReceiveInterruption \/ CpuCycle
    BY <1>1, <1>4, Cpu_Indexed
  <1>5. CASE UNCHANGED <<kernelVars, cpuVars>> /\ MemoryServer
    BY <1>5, ProcessNew_Indexed, OtherRequests_Indexed, Memory_Frames DEF MemoryServer
  <1>. QED BY <1>2, <1>3, <1>4, <1>5 DEF Next, KernelStep, CpuStep, MemoryStep, Idle

\* Whatever the order of requests and answers, every packet and every pcb names
\* entries that the memory server has: list_get never runs off its lists, for any
\* algorithm, overlapping consoles and a server that answers at once.
THEOREM IndicesCorrect == Spec => []IndexedInv
  <1>1. FrameInv => IndexedInv
    BY DEF FrameInv
  <1>. QED BY <1>1, FramesInitially, FramesInductive, PTL DEF Spec

\* A frame is marked exactly when a process holds it, and no two processes hold the
\* same one, in every reachable state.
THEOREM FramesCorrect == Spec => []FrameOwnership
  <1>1. FrameInv => FrameOwnership
    BY DEF FrameInv
  <1>. QED BY <1>1, FramesInitially, FramesInductive, PTL DEF Spec

-----------------------------------------------------------------------------
(* Processes that have memory, and the entries that are theirs. *)

\* The pcbs that name entry k.
Made(k) == {p \in Pcb : p.process_frames_index = k}

\* Those of S that to_ready holds with memory.
InAdmission(S) == IF at["to_ready"] = "put_to_ready" THEN Count(Held("to_ready"), S) ELSE 0

\* How many of S are in Loaded.
WithMemory(S) ==
    InAdmission(S) + Count(queue["ready_q"], S) + InExec(S) + Queued(S) + InIo(S)
      + Count(queue["suspended_block_q"], S) + Count(queue["suspended_ready_q"], S)

\* The packets of an admission, and those that give back entry k.
NewRequests == {m \in MemoryRequests : m.header = "PROCESS_NEW"}
ReadyAnswers == {m \in MemoryAnswers : m.header = "PROCESS_MEMORY_READY"}
ExitsOf(k) == {m \in MemoryRequests : m.header = "PROCESS_EXIT" /\ m.process_frames_index = k}

\* to_ready has asked for memory, and has not gone on with it.
Asking == at["to_ready"] \in {"memory_init_q", "pcb_table_ready"}

\* The entry made last.
Newest == Len(processes_frames) - 1

\* Packets of an admission about another process than the one that to_ready holds,
\* or another entry than the newest.
StrayRequests == {m \in NewRequests : m.pid # hand["to_ready"].pid}

StrayAnswers ==
    {m \in ReadyAnswers : ~(/\ m.pid = hand["to_ready"].pid
                            /\ m.process_frames_index = Newest)}

\* The one request of new_to_ready is on its way to the server, on its way back or
\* announced.
OneRequest ==
    /\ Count(memory_requests, NewRequests) + Count(memory_answers, ReadyAnswers)
         + sem["pcb_table_ready"] = One(Asking)
    /\ at["to_ready"] = "memory_init_q" => Count(memory_requests, NewRequests) = 1

\* Every packet of an admission is about the process that to_ready holds, and an
\* answer gives it the newest entry.
NoStrays == Count(memory_requests, StrayRequests) = 0 /\ Count(memory_answers, StrayAnswers) = 0

\* handle_table_index_success finds the process in memory_init_q, and then to_ready
\* holds a pcb that names the newest entry.
HandNames ==
    /\ at["to_ready"] = "pcb_table_ready" /\ sem["pcb_table_ready"] = 0 =>
         queue["memory_init_q"] = <<hand["to_ready"]>>
    /\ sem["pcb_table_ready"] > 0 => hand["to_ready"].process_frames_index = Newest

\* new_to_ready and the memory server agree on the process that is being admitted.
AdmissionInv == OneRequest /\ NoStrays /\ HandNames

\* The newest entry was made, and the pcb it is for is not in Loaded yet.
Fresh == at["to_ready"] = "pcb_table_ready" /\ Count(memory_requests, NewRequests) = 0

\* Who may still use entry k.
Owners(k) ==
    WithMemory(Made(k)) + Count(memory_requests, ExitsOf(k)) + One(Fresh /\ k = Newest)

\* Entries have one owner, and frames only while they have it.
OwnersInv ==
    \A k \in Nat :
        /\ Owners(k) <= 1
        /\ k < Len(processes_frames) /\ processes_frames[k + 1] # {} => Owners(k) = 1

\* A process has a swap file as long as it has memory.
SwapInv ==
    /\ \A n \in Nat : n \notin swap_files => WithMemory(WithPid(n)) = 0
    /\ Fresh => hand["to_ready"].pid \in swap_files

\* The inductive invariant: a process that returned twice may free its entry twice,
\* so owners are counted until then.
MatchInv == AdmissionInv /\ (cycle # "cpu_bussy" => OwnersInv /\ SwapInv)

-----------------------------------------------------------------------------
(* The hand-over of new_to_ready and the memory server. *)

\* A packet outside S comes or goes, or none does.
Passes(s, u, T, S) ==
    \/ u = s
    \/ \E m \in T \ S : u = Append(s, m)
    \/ s # <<>> /\ Head(s) \notin S /\ u = Tail(s)

\* It does not count.
LEMMA CountPasses ==
  ASSUME NEW T, NEW s \in Seq(T), NEW S, NEW u, Passes(s, u, T, S), NEW R, R \subseteq S
  PROVE  Count(u, R) = Count(s, R)
  <1>1. Count(s, R) \in Nat
    BY CountType
  <1>2. ASSUME NEW m \in T \ S, u = Append(s, m) PROVE Count(u, R) = Count(s, R)
    <2>1. Count(u, R) = Count(s, R) + One(m \in R)
      BY <1>2, CountAppend
    <2>. QED BY <1>1, <1>2, <2>1 DEF One
  <1>3. CASE s # <<>> /\ Head(s) \notin S /\ u = Tail(s)
    <2>1. Count(s, R) = Count(u, R) + One(Head(s) \in R)
      BY <1>3, CountTail
    <2>2. Tail(s) \in Seq(T)
      BY <1>3
    <2>3. Count(u, R) \in Nat
      BY <1>3, <2>2, CountType
    <2>. QED BY <1>3, <2>1, <2>3 DEF One
  <1>. QED BY <1>2, <1>3 DEF Passes

\* The numbers of an admission.
LEMMA AdmissionCounts ==
  ASSUME SystemInv
  PROVE  /\ Count(memory_requests, NewRequests) \in Nat
         /\ Count(memory_answers, ReadyAnswers) \in Nat
         /\ sem["pcb_table_ready"] \in Nat
         /\ Len(processes_frames) \in Nat
  <1>1. memory_requests \in Seq(MemoryRequests) /\ memory_answers \in Seq(MemoryAnswers)
    BY PlaceTypes
  <1>2. Count(memory_requests, NewRequests) \in Nat /\ Count(memory_answers, ReadyAnswers) \in Nat
    BY <1>1, CountType
  <1>3. sem["pcb_table_ready"] \in Nat
    BY PlaceTypes DEF Semaphores
  <1>4. Len(processes_frames) \in Nat
    BY DEF SystemInv, MemoryTypeOK
  <1>. QED BY <1>2, <1>3, <1>4

\* No packet of an admission, no stray one.
NoStrayAlone ==
    /\ Count(memory_requests, NewRequests) = 0 => Count(memory_requests, StrayRequests) = 0
    /\ Count(memory_answers, ReadyAnswers) = 0 => Count(memory_answers, StrayAnswers) = 0

\* Stray packets are packets of an admission.
LEMMA NoPacketNoStray == SystemInv => NoStrayAlone
  <1> SUFFICES ASSUME SystemInv PROVE NoStrayAlone
    OBVIOUS
  <1>1. memory_requests \in Seq(MemoryRequests) /\ memory_answers \in Seq(MemoryAnswers)
    BY PlaceTypes
  <1>2. StrayRequests \subseteq NewRequests /\ StrayAnswers \subseteq ReadyAnswers
    BY DEF StrayRequests, StrayAnswers
  <1>3. Count(memory_requests, StrayRequests) \in Nat /\ Count(memory_answers, StrayAnswers) \in Nat
    BY <1>1, CountType
  <1>4. /\ Count(memory_requests, StrayRequests) <= Count(memory_requests, NewRequests)
        /\ Count(memory_answers, StrayAnswers) <= Count(memory_answers, ReadyAnswers)
    BY <1>1, <1>2, CountMonotonic
  <1>. QED BY <1>3, <1>4, AdmissionCounts DEF NoStrayAlone

\* Packets about something else pass.
AdmissionPasses ==
    /\ Passes(memory_requests, memory_requests', MemoryRequests, NewRequests)
    /\ Passes(memory_answers, memory_answers', MemoryAnswers, ReadyAnswers)

\* Steps of others, while the admission stays where it is.
LEMMA AdmissionKept ==
  ASSUME SystemInv, AdmissionInv, AdmissionPasses,
         at'["to_ready"] = at["to_ready"], hand'["to_ready"] = hand["to_ready"],
         sem'["pcb_table_ready"] = sem["pcb_table_ready"],
         queue'["memory_init_q"] = queue["memory_init_q"],
         Len(processes_frames') = Len(processes_frames)
  PROVE  AdmissionInv'
  <1>1. memory_requests \in Seq(MemoryRequests) /\ memory_answers \in Seq(MemoryAnswers)
    BY PlaceTypes
  <1>2. /\ Count(memory_requests', NewRequests) = Count(memory_requests, NewRequests)
        /\ Count(memory_answers', ReadyAnswers) = Count(memory_answers, ReadyAnswers)
    BY <1>1, CountPasses DEF AdmissionPasses
  <1>3. /\ Count(memory_requests', StrayRequests) = Count(memory_requests, StrayRequests)
        /\ Count(memory_answers', StrayAnswers) = Count(memory_answers, StrayAnswers)
    <2>1. StrayRequests \subseteq NewRequests /\ StrayAnswers \subseteq ReadyAnswers
      BY DEF StrayRequests, StrayAnswers
    <2>. QED BY <1>1, <2>1, CountPasses DEF AdmissionPasses
  <1>4. NewRequests' = NewRequests /\ ReadyAnswers' = ReadyAnswers
    BY DEF NewRequests, ReadyAnswers
  <1>5. Newest' = Newest
    BY DEF Newest
  <1>6. StrayRequests' = StrayRequests /\ StrayAnswers' = StrayAnswers
    BY <1>4, <1>5 DEF StrayRequests, StrayAnswers
  <1>7. OneRequest'
    BY <1>2, <1>4 DEF AdmissionInv, OneRequest, Asking
  <1>8. NoStrays'
    BY <1>3, <1>6 DEF AdmissionInv, NoStrays
  <1>9. HandNames'
    BY <1>5 DEF AdmissionInv, HandNames
  <1>. QED BY <1>7, <1>8, <1>9 DEF AdmissionInv

\* Steps of to_ready away from the hand-over.
LEMMA AdmissionAside ==
  ASSUME SystemInv, SystemInv', AdmissionInv, ~Asking, ~Asking',
         UNCHANGED <<memory_requests, memory_answers>>,
         sem'["pcb_table_ready"] = sem["pcb_table_ready"]
  PROVE  AdmissionInv'
  <1> DEFINE r == Count(memory_requests, NewRequests)
             a == Count(memory_answers, ReadyAnswers)
             s == sem["pcb_table_ready"]
  <1>1. r + a + s = 0
    BY DEF AdmissionInv, OneRequest, One
  <1>2. r = 0 /\ a = 0 /\ s = 0
    <2>1. r \in Nat /\ a \in Nat /\ s \in Nat
      BY AdmissionCounts
    <2> HIDE DEF r, a, s
    <2>. QED BY <1>1, <2>1
  <1>3. r' = 0 /\ a' = 0 /\ s' = 0
    BY <1>2 DEF NewRequests, ReadyAnswers
  <1>4. OneRequest'
    BY <1>3 DEF OneRequest, One, Asking
  <1>5. NoStrays'
    <2>1. SystemInv' => NoStrayAlone'
      BY NoPacketNoStray, PTL
    <2>. QED BY <1>3, <2>1 DEF NoStrays, NoStrayAlone
  <1>6. HandNames'
    BY <1>3 DEF HandNames, Asking
  <1>. QED BY <1>4, <1>5, <1>6 DEF AdmissionInv

\* The request is sent.
LEMMA NewToReady_Send_Admission ==
  ASSUME SystemInv, SystemInv', AdmissionInv, UNCHANGED memoryVars, NewToReady_Send
  PROVE  AdmissionInv'
  <1> DEFINE p == hand["to_ready"]
             m == [header |-> "PROCESS_NEW", pid |-> p.pid, size |-> Size[p.client_socket]]
             r == Count(memory_requests, NewRequests)
             a == Count(memory_answers, ReadyAnswers)
             s == sem["pcb_table_ready"]
  <1>1. /\ at["to_ready"] = "PROCESS_NEW" /\ at'["to_ready"] = "memory_init_q"
        /\ memory_requests' = Append(memory_requests, m)
        /\ UNCHANGED <<memory_answers, sem, hand>>
    <2>1. at \in [Threads -> Locations] /\ queue \in [Queues -> Seq(Pcb)] /\ sem \in [Semaphores -> Nat]
      BY PlaceTypes
    <2>. QED BY <2>1 DEF NewToReady_Send, Threads, Holders, Planners
  <1>2. memory_requests \in Seq(MemoryRequests) /\ p \in Pcb
    BY <1>1, PlaceTypes DEF HandsFull
  <1>3. m \in MemoryRequests /\ m \in NewRequests /\ m \notin StrayRequests
    <2>1. p.pid \in Nat /\ Size[p.client_socket] \in Nat
      BY <1>2, SizeAssumption DEF Pcb
    <2>. QED BY <2>1 DEF MemoryRequests, NewRequests, StrayRequests
  <1>4. r + a + s = 0
    BY <1>1 DEF AdmissionInv, OneRequest, One, Asking
  <1>5. r \in Nat /\ a \in Nat /\ s \in Nat
    BY AdmissionCounts
  <1>6. Count(memory_requests', NewRequests) = r + 1
    <2> HIDE DEF m
    <2>. QED BY <1>1, <1>2, <1>3, CountAppend DEF One
  <1>7. Count(memory_requests', StrayRequests) = 0
    <2> HIDE DEF m
    <2>1. Count(memory_requests', StrayRequests) = Count(memory_requests, StrayRequests) + 0
      BY <1>1, <1>2, <1>3, CountAppend DEF One
    <2>. QED BY <2>1 DEF AdmissionInv, NoStrays
  <1>8. r = 0 /\ a = 0 /\ s = 0
    <2> HIDE DEF r, a, s
    <2>. QED BY <1>4, <1>5
  <1>9. /\ NewRequests' = NewRequests /\ ReadyAnswers' = ReadyAnswers
        /\ StrayRequests' = StrayRequests /\ StrayAnswers' = StrayAnswers
    BY <1>1 DEF NewRequests, ReadyAnswers, StrayRequests, StrayAnswers, Newest, memoryVars
  <1>10. OneRequest'
    BY <1>1, <1>6, <1>8, <1>9 DEF OneRequest, One, Asking
  <1>11. NoStrays'
    BY <1>1, <1>7, <1>9 DEF AdmissionInv, NoStrays
  <1>12. HandNames'
    BY <1>1, <1>8 DEF HandNames
  <1>. QED BY <1>10, <1>11, <1>12 DEF AdmissionInv

\* The pcb is put where the handler of the answer finds it.
LEMMA NewToReady_Put_Admission ==
  ASSUME SystemInv, AdmissionInv, UNCHANGED memoryVars, NewToReady_Put
  PROVE  AdmissionInv'
  <1> DEFINE r == Count(memory_requests, NewRequests)
             a == Count(memory_answers, ReadyAnswers)
             s == sem["pcb_table_ready"]
  <1>1. /\ at["to_ready"] = "memory_init_q" /\ at'["to_ready"] = "pcb_table_ready"
        /\ queue'["memory_init_q"] = Append(queue["memory_init_q"], hand["to_ready"])
        /\ UNCHANGED <<memory_requests, memory_answers, sem, hand>>
    <2>1. at \in [Threads -> Locations] /\ queue \in [Queues -> Seq(Pcb)] /\ sem \in [Semaphores -> Nat]
      BY PlaceTypes
    <2>. QED BY <2>1 DEF NewToReady_Put, Threads, Holders, Planners, Queues, socketVars
  <1>2. r + a + s = 1 /\ r = 1
    BY <1>1 DEF AdmissionInv, OneRequest, One, Asking
  <1>3. r \in Nat /\ a \in Nat /\ s \in Nat
    BY AdmissionCounts
  <1>4. s = 0
    <2> HIDE DEF r, a, s
    <2>. QED BY <1>2, <1>3
  <1>5. queue["memory_init_q"] = <<>>
    <2>1. queue["memory_init_q"] \in Seq(Pcb) /\ OneAdmission
      BY PlaceTypes DEF Queues
    <2>2. ~(Len(queue["memory_init_q"]) + sem["pcb_table_ready"] > 0)
      BY <1>1, <2>1 DEF OneAdmission
    <2>. QED BY <1>4, <2>1, <2>2
  <1>6. queue'["memory_init_q"] = <<hand["to_ready"]>>
    BY <1>1, <1>5
  <1>7. /\ NewRequests' = NewRequests /\ ReadyAnswers' = ReadyAnswers
        /\ StrayRequests' = StrayRequests /\ StrayAnswers' = StrayAnswers
    BY <1>1 DEF NewRequests, ReadyAnswers, StrayRequests, StrayAnswers, Newest, memoryVars
  <1>8. OneRequest'
    BY <1>1, <1>2, <1>7 DEF OneRequest, One, Asking
  <1>9. NoStrays'
    BY <1>1, <1>7 DEF AdmissionInv, NoStrays
  <1>10. HandNames'
    BY <1>1, <1>4, <1>6 DEF HandNames
  <1>. QED BY <1>8, <1>9, <1>10 DEF AdmissionInv

\* What is known when pcb_table_ready is posted.
LEMMA MemoryReady ==
  ASSUME SystemInv, AdmissionInv, sem["pcb_table_ready"] > 0
  PROVE  /\ sem["pcb_table_ready"] = 1 /\ at["to_ready"] = "pcb_table_ready"
         /\ Count(memory_requests, NewRequests) = 0 /\ Count(memory_answers, ReadyAnswers) = 0
         /\ Fresh /\ hand["to_ready"] \in Pcb
         /\ hand["to_ready"].process_frames_index = Newest
  <1> DEFINE r == Count(memory_requests, NewRequests)
             a == Count(memory_answers, ReadyAnswers)
             s == sem["pcb_table_ready"]
  <1>1. r + a + s = One(Asking)
    BY DEF AdmissionInv, OneRequest
  <1>2. r \in Nat /\ a \in Nat /\ s \in Nat
    BY AdmissionCounts
  <1>3. One(Asking) = 1 \/ One(Asking) = 0
    BY DEF One
  <1>4. s = 1 /\ r = 0 /\ a = 0
    <2> HIDE DEF r, a
    <2>. QED BY <1>1, <1>2, <1>3
  <1>5. at["to_ready"] = "pcb_table_ready"
    <2>1. queue["memory_init_q"] \in Seq(Pcb) /\ OneAdmission
      BY PlaceTypes DEF Queues
    <2>2. Len(queue["memory_init_q"]) \in Nat
      BY <2>1
    <2>. QED BY <1>4, <2>1, <2>2 DEF OneAdmission
  <1>6. hand["to_ready"] \in Pcb
    BY <1>5, PlaceTypes DEF HandsFull
  <1>. QED BY <1>4, <1>5, <1>6 DEF Fresh, AdmissionInv, HandNames

\* to_ready goes on.
LEMMA NewToReady_Ready_Admission ==
  ASSUME SystemInv, SystemInv', AdmissionInv, UNCHANGED memoryVars, NewToReady_Ready
  PROVE  AdmissionInv'
  <1>1. /\ sem["pcb_table_ready"] > 0 /\ sem'["pcb_table_ready"] = sem["pcb_table_ready"] - 1
        /\ at'["to_ready"] = "put_to_ready"
        /\ UNCHANGED <<memory_requests, memory_answers, hand>>
    <2>1. at \in [Threads -> Locations] /\ queue \in [Queues -> Seq(Pcb)] /\ sem \in [Semaphores -> Nat]
      BY PlaceTypes
    <2>. QED BY <2>1 DEF NewToReady_Ready, Threads, Holders, Planners, Semaphores, socketVars
  <1>2. /\ sem["pcb_table_ready"] = 1
        /\ Count(memory_requests, NewRequests) = 0 /\ Count(memory_answers, ReadyAnswers) = 0
    BY <1>1, MemoryReady
  <1>3. /\ sem'["pcb_table_ready"] = 0
        /\ Count(memory_requests, NewRequests)' = 0 /\ Count(memory_answers, ReadyAnswers)' = 0
    BY <1>1, <1>2 DEF NewRequests, ReadyAnswers
  <1>4. OneRequest'
    BY <1>1, <1>3 DEF OneRequest, One, Asking
  <1>5. NoStrays'
    <2>1. SystemInv' => NoStrayAlone'
      BY NoPacketNoStray, PTL
    <2>. QED BY <1>3, <2>1 DEF NoStrays, NoStrayAlone
  <1>6. HandNames'
    BY <1>1, <1>3 DEF HandNames
  <1>. QED BY <1>4, <1>5, <1>6 DEF AdmissionInv

\* What is known when the memory server's answer arrives: the handler finds the pcb.
LEMMA AnswerFinds ==
  ASSUME SystemInv, AdmissionInv, Answered("PROCESS_MEMORY_READY")
  PROVE  LET m == Head(memory_answers) IN
         /\ at["to_ready"] = "pcb_table_ready" /\ sem["pcb_table_ready"] = 0
         /\ Count(memory_requests, NewRequests) = 0 /\ Count(memory_answers, ReadyAnswers) = 1
         /\ hand["to_ready"] \in Pcb
         /\ queue["memory_init_q"] = <<hand["to_ready"]>>
         /\ m \in ReadyAnswers /\ m.pid = hand["to_ready"].pid /\ m.process_frames_index = Newest
  <1> DEFINE m == Head(memory_answers)
             r == Count(memory_requests, NewRequests)
             a == Count(memory_answers, ReadyAnswers)
             s == sem["pcb_table_ready"]
  <1>1. memory_answers \in Seq(MemoryAnswers) /\ memory_answers # <<>>
    BY PlaceTypes DEF Answered
  <1>2. m \in ReadyAnswers
    BY <1>1 DEF ReadyAnswers, Answered
  <1>3. 1 \in DOMAIN memory_answers /\ memory_answers[1] = m
    BY <1>1
  <1>4. a # 0
    BY <1>1, <1>2, <1>3, CountMeans
  <1>5. m \notin StrayAnswers
    BY <1>1, <1>3, CountMeans DEF AdmissionInv, NoStrays
  <1>6. r + a + s = One(Asking)
    BY DEF AdmissionInv, OneRequest
  <1>7. r \in Nat /\ a \in Nat /\ s \in Nat
    BY AdmissionCounts
  <1>8. One(Asking) \in {0, 1} /\ (One(Asking) = 1 => Asking)
    BY DEF One
  <1>9. r = 0 /\ a = 1 /\ s = 0 /\ Asking
    <2> HIDE DEF r, a, s
    <2>. QED BY <1>4, <1>6, <1>7, <1>8
  <1>10. at["to_ready"] = "pcb_table_ready"
    BY <1>9 DEF AdmissionInv, OneRequest, Asking
  <1>11. hand["to_ready"] \in Pcb
    BY <1>10, PlaceTypes DEF HandsFull
  <1>. QED BY <1>2, <1>5, <1>9, <1>10, <1>11 DEF AdmissionInv, HandNames, StrayAnswers

\* The indices are stored in the pcb and to_ready is told.
LEMMA TableIndexSuccess_Admission ==
  ASSUME SystemInv, SystemInv', AdmissionInv, UNCHANGED memoryVars, TableIndexSuccess
  PROVE  AdmissionInv'
  <1> DEFINE m == Head(memory_answers)
             p == hand["to_ready"]
             q == [p EXCEPT !.page_table = m.page_table,
                            !.process_frames_index = m.process_frames_index]
  <1>1. /\ at["to_ready"] = "pcb_table_ready" /\ sem["pcb_table_ready"] = 0
        /\ Count(memory_requests, NewRequests) = 0 /\ Count(memory_answers, ReadyAnswers) = 1
        /\ p \in Pcb /\ queue["memory_init_q"] = <<p>>
        /\ m \in ReadyAnswers /\ m.pid = p.pid /\ m.process_frames_index = Newest
    BY AnswerFinds DEF TableIndexSuccess
  <1>2. \E i \in DOMAIN queue["memory_init_q"] : queue["memory_init_q"][i].pid = m.pid
    BY <1>1
  <1>3. /\ hand' = [hand EXCEPT !["to_ready"] = q]
        /\ sem' = [sem EXCEPT !["pcb_table_ready"] = @ + 1]
        /\ memory_answers # <<>> /\ memory_answers' = Tail(memory_answers)
        /\ UNCHANGED <<at, memory_requests>>
    BY <1>2 DEF TableIndexSuccess, Answered
  <1>4. sem'["pcb_table_ready"] = 1 /\ hand'["to_ready"] = q
    BY <1>1, <1>3, PlaceTypes DEF Semaphores, Holders, Planners
  <1>5. hand'["to_ready"].process_frames_index = Newest
    BY <1>1, <1>4 DEF Pcb
  <1>6. Count(memory_answers', ReadyAnswers) = 0
    <2>1. memory_answers \in Seq(MemoryAnswers) /\ Tail(memory_answers) \in Seq(MemoryAnswers)
      BY <1>3, PlaceTypes
    <2>2. Count(memory_answers, ReadyAnswers) = Count(memory_answers', ReadyAnswers) + 1
      BY <1>1, <1>3, <2>1, CountTail DEF One
    <2>3. Count(memory_answers', ReadyAnswers) \in Nat
      BY <1>3, <2>1, CountType
    <2>. QED BY <1>1, <2>2, <2>3
  <1>7. Count(memory_requests, NewRequests)' = 0 /\ Count(memory_answers, ReadyAnswers)' = 0
    BY <1>1, <1>3, <1>6 DEF NewRequests, ReadyAnswers
  <1>8. OneRequest'
    BY <1>1, <1>3, <1>4, <1>7 DEF OneRequest, One, Asking
  <1>9. NoStrays'
    <2>1. SystemInv' => NoStrayAlone'
      BY NoPacketNoStray, PTL
    <2>. QED BY <1>7, <2>1 DEF NoStrays, NoStrayAlone
  <1>10. Newest' = Newest
    BY DEF Newest, memoryVars
  <1>11. HandNames'
    BY <1>4, <1>5, <1>10 DEF HandNames
  <1>. QED BY <1>8, <1>9, <1>11 DEF AdmissionInv

\* What is known when the memory server is to make a process: to_ready waits for it.
LEMMA RequestFinds ==
  ASSUME SystemInv, AdmissionInv, Requested("PROCESS_NEW"), ~StillSending
  PROVE  LET m == Head(memory_requests) IN
         /\ at["to_ready"] = "pcb_table_ready" /\ sem["pcb_table_ready"] = 0
         /\ Count(memory_requests, NewRequests) = 1 /\ Count(memory_answers, ReadyAnswers) = 0
         /\ hand["to_ready"] \in Pcb
         /\ m \in NewRequests /\ m.pid = hand["to_ready"].pid
  <1> DEFINE m == Head(memory_requests)
             r == Count(memory_requests, NewRequests)
             a == Count(memory_answers, ReadyAnswers)
             s == sem["pcb_table_ready"]
  <1>1. memory_requests \in Seq(MemoryRequests) /\ memory_requests # <<>>
    BY PlaceTypes DEF Requested
  <1>2. m \in NewRequests
    BY <1>1 DEF NewRequests, Requested
  <1>3. 1 \in DOMAIN memory_requests /\ memory_requests[1] = m
    BY <1>1
  <1>4. r # 0
    BY <1>1, <1>2, <1>3, CountMeans
  <1>5. m \notin StrayRequests
    BY <1>1, <1>3, CountMeans DEF AdmissionInv, NoStrays
  <1>6. r + a + s = One(Asking)
    BY DEF AdmissionInv, OneRequest
  <1>7. r \in Nat /\ a \in Nat /\ s \in Nat
    BY AdmissionCounts
  <1>8. One(Asking) \in {0, 1} /\ (One(Asking) = 1 => Asking)
    BY DEF One
  <1>9. r = 1 /\ a = 0 /\ s = 0 /\ Asking
    <2> HIDE DEF r, a, s
    <2>. QED BY <1>4, <1>6, <1>7, <1>8
  <1>10. at["to_ready"] = "pcb_table_ready"
    BY <1>9 DEF StillSending, Asking
  <1>11. hand["to_ready"] \in Pcb
    BY <1>10, PlaceTypes DEF HandsFull
  <1>. QED BY <1>2, <1>5, <1>9, <1>10, <1>11 DEF StrayRequests

\* A process is made and the answer sent.
LEMMA ProcessNew_Admission ==
  ASSUME SystemInv, SystemInv', AdmissionInv, UNCHANGED kernelVars, ProcessNew, ~StillSending
  PROVE  AdmissionInv'
  <1> DEFINE m == Head(memory_requests)
             n == [header |-> "PROCESS_MEMORY_READY", pid |-> m.pid,
                   page_table |-> Len(level1_tables),
                   process_frames_index |-> Len(processes_frames)]
  <1>1. /\ at["to_ready"] = "pcb_table_ready" /\ sem["pcb_table_ready"] = 0
        /\ Count(memory_requests, NewRequests) = 1 /\ Count(memory_answers, ReadyAnswers) = 0
        /\ m \in NewRequests /\ m.pid = hand["to_ready"].pid
    BY RequestFinds DEF ProcessNew
  <1>2. /\ memory_requests # <<>> /\ memory_requests' = Tail(memory_requests)
        /\ memory_answers' = Append(memory_answers, n)
        /\ Len(processes_frames') = Len(processes_frames) + 1
        /\ UNCHANGED <<at, sem, hand, queue>>
    <2>1. PICK f : processes_frames' = Append(processes_frames, f)
      BY DEF ProcessNew, AssignProcessFrames
    <2>2. processes_frames \in Seq(SUBSET Frames)
      BY DEF SystemInv, MemoryTypeOK
    <2>3. Len(processes_frames') = Len(processes_frames) + 1
      BY <2>1, <2>2
    <2>. QED BY <2>3 DEF ProcessNew, Requested, Reply, kernelVars
  <1>3. memory_requests \in Seq(MemoryRequests) /\ Tail(memory_requests) \in Seq(MemoryRequests)
    BY <1>2, PlaceTypes
  <1>4. memory_answers \in Seq(MemoryAnswers) /\ Len(processes_frames) \in Nat
    BY PlaceTypes, AdmissionCounts
  <1>5. Newest' = Len(processes_frames)
    BY <1>2, <1>4 DEF Newest
  <1>6. n \in MemoryAnswers
    <2>1. m.pid \in Nat /\ Len(level1_tables) \in Nat
      BY <1>1 DEF NewRequests, MemoryRequests, SystemInv, MemoryTypeOK
    <2>. QED BY <1>4, <2>1 DEF MemoryAnswers
  <1>7. n \in ReadyAnswers /\ n \notin StrayAnswers'
    BY <1>1, <1>2, <1>5, <1>6 DEF ReadyAnswers, StrayAnswers
  <1>8. Count(memory_requests', NewRequests) = 0
    <2>1. Count(memory_requests, NewRequests) = Count(memory_requests', NewRequests) + 1
      BY <1>1, <1>2, <1>3, CountTail DEF One
    <2>2. Count(memory_requests', NewRequests) \in Nat
      BY <1>2, <1>3, CountType
    <2>. QED BY <1>1, <2>1, <2>2
  <1>9. Count(memory_answers', ReadyAnswers) = 1
    <2>1. Count(memory_answers', ReadyAnswers) = Count(memory_answers, ReadyAnswers) + 1
      BY <1>2, <1>4, <1>6, <1>7, CountAppend DEF One
    <2>. QED BY <1>1, <2>1
  <1>10. Count(memory_answers', StrayAnswers') = 0
    <2>1. StrayAnswers' \subseteq ReadyAnswers
      BY DEF StrayAnswers, ReadyAnswers
    <2>2. /\ Count(memory_answers, StrayAnswers') \in Nat
          /\ Count(memory_answers, StrayAnswers') <= Count(memory_answers, ReadyAnswers)
      BY <1>4, <2>1, CountType, CountMonotonic
    <2>3. Count(memory_answers', StrayAnswers') = Count(memory_answers, StrayAnswers') + 0
      BY <1>2, <1>4, <1>6, <1>7, CountAppend DEF One
    <2>. QED BY <1>1, <2>2, <2>3
  <1>11. NewRequests' = NewRequests /\ ReadyAnswers' = ReadyAnswers
    BY DEF NewRequests, ReadyAnswers
  <1>12. OneRequest'
    BY <1>1, <1>2, <1>8, <1>9, <1>11 DEF OneRequest, One, Asking
  <1>13. NoStrays'
    <2>1. SystemInv' => NoStrayAlone'
      BY NoPacketNoStray, PTL
    <2>. QED BY <1>8, <1>10, <1>11, <2>1 DEF NoStrays, NoStrayAlone
  <1>14. HandNames'
    BY <1>1, <1>2 DEF AdmissionInv, HandNames
  <1>. QED BY <1>12, <1>13, <1>14 DEF AdmissionInv

\* io_listener and exit_process send no request for memory.
LEMMA OtherRequestsPass ==
  ASSUME SystemInv, IoListener \/ ExitProcess
  PROVE  Passes(memory_requests, memory_requests', MemoryRequests, NewRequests)
  <1>1. /\ HandsFull /\ queue \in [Queues -> Seq(Pcb)]
    BY PlaceTypes
  <1>2. ASSUME NEW p \in Pcb, NEW h \in {"PROCESS_SUSPEND", "PROCESS_EXIT"}
        PROVE  [header |-> h, pid |-> p.pid, page_table |-> p.page_table,
                process_frames_index |-> p.process_frames_index] \in MemoryRequests \ NewRequests
    BY DEF Pcb, MemoryRequests, NewRequests
  <1>3. CASE IoListener_Suspend
    <2>1. hand["io_listener"] \in Pcb
      BY <1>1, <1>3 DEF IoListener_Suspend, HandsFull
    <2>. QED BY <1>2, <1>3, <2>1 DEF IoListener_Suspend, Passes
  <1>4. CASE ExitProcess_Send
    <2>1. Head(queue["exit_q"]) \in Pcb
      BY <1>1, <1>4 DEF ExitProcess_Send, Queues
    <2>. QED BY <1>2, <1>4, <2>1 DEF ExitProcess_Send, Passes
  <1>5. CASE UNCHANGED memory_requests
    BY <1>5 DEF Passes
  <1>. QED BY <1>3, <1>4, <1>5 DEF IoListener, IoListener_Fits, IoListener_Exceeds,
       IoListener_Suspended, IoListener_Take, IoListener_Wait, IoListener_Finish, PutToReady,
       PutToReady_Resume, ExitProcess, ExitProcess_Put, socketVars

\* The steps of the kernel that are no part of the hand-over.
LEMMA Kernel_AdmissionAside ==
  ASSUME SystemInv, SystemInv', AdmissionInv, UNCHANGED memoryVars,
         \/ \E c \in Consoles : ReceiveProcess(c)
         \/ ToReady_Any \/ ToReady_Admit \/ PutToReady("to_ready") \/ PutToReady_Resume("to_ready")
         \/ ToExec \/ IoListener \/ ExitProcess \/ CpuDispatchListener
         \/ SuspensionSuccess \/ ExitProcessSuccess
  PROVE  AdmissionInv'
  <1>0. /\ at \in [Threads -> Locations] /\ queue \in [Queues -> Seq(Pcb)]
        /\ sem \in [Semaphores -> Nat] /\ hand \in [Holders -> Pcb \cup {NoPcb}]
        /\ memory_answers \in Seq(MemoryAnswers) /\ memory_requests \in Seq(MemoryRequests)
    BY PlaceTypes
  <1>1. Len(processes_frames') = Len(processes_frames)
    BY DEF memoryVars
  <1>2. UNCHANGED memory_requests => Passes(memory_requests, memory_requests', MemoryRequests, NewRequests)
    BY DEF Passes
  <1>3. UNCHANGED memory_answers => Passes(memory_answers, memory_answers', MemoryAnswers, ReadyAnswers)
    BY DEF Passes
  <1>4. CASE ToReady_Any \/ ToReady_Admit \/ PutToReady("to_ready") \/ PutToReady_Resume("to_ready")
    <2>1. /\ UNCHANGED <<memory_requests, memory_answers>>
          /\ at["to_ready"] \notin {"memory_init_q", "pcb_table_ready"}
      BY <1>4 DEF ToReady_Any, ToReady_Admit, PutToReady, PutToReady_Resume, socketVars
    <2>2. at'["to_ready"] \notin {"memory_init_q", "pcb_table_ready"}
      BY <1>0, <1>4 DEF ToReady_Any, ToReady_Admit, Admit, PutToReady, PutToReady_Fifo,
         PutToReady_Replan, PutToReady_Interrupt, PutToReady_Resume, LoopStart, Threads, Holders,
         Planners
    <2>3. sem'["pcb_table_ready"] = sem["pcb_table_ready"]
      BY <1>0, <1>4 DEF ToReady_Any, ToReady_Admit, PutToReady, PutToReady_Fifo,
         PutToReady_Replan, PutToReady_Interrupt, PutToReady_Resume, Semaphores
    <2>. QED BY <2>1, <2>2, <2>3, AdmissionAside DEF Asking
  <1>5. CASE \/ \E c \in Consoles : ReceiveProcess(c)
             \/ ToExec \/ CpuDispatchListener \/ SuspensionSuccess \/ ExitProcessSuccess
    <2>1. at'["to_ready"] = at["to_ready"] /\ hand' = hand /\ UNCHANGED memory_requests
      BY <1>0, <1>5 DEF ReceiveProcess, ReceiveProcess_Read, ReceiveProcess_Write,
         ReceiveProcess_Put, ToExec, ToExec_Ready, ToExec_Cpu, ToExec_Dispatch,
         CpuDispatchListener, IoOp, ExitOp, HandleInterruption, SuspensionSuccess,
         ExitProcessSuccess, Threads, Holders, Planners, socketVars
    <2>2. sem'["pcb_table_ready"] = sem["pcb_table_ready"]
      BY <1>0, <1>5 DEF ReceiveProcess, ReceiveProcess_Read, ReceiveProcess_Write,
         ReceiveProcess_Put, ToExec, ToExec_Ready, ToExec_Cpu, ToExec_Dispatch,
         CpuDispatchListener, IoOp, ExitOp, HandleInterruption, SuspensionSuccess,
         ExitProcessSuccess, Semaphores
    <2>3. queue'["memory_init_q"] = queue["memory_init_q"]
      BY <1>0, <1>5 DEF ReceiveProcess, ReceiveProcess_Read, ReceiveProcess_Write,
         ReceiveProcess_Put, ToExec, ToExec_Ready, ToExec_Cpu, ToExec_Dispatch,
         CpuDispatchListener, IoOp, ExitOp, HandleInterruption, SuspensionSuccess,
         ExitProcessSuccess, Queues
    <2>4. Passes(memory_answers, memory_answers', MemoryAnswers, ReadyAnswers)
      <3>1. CASE SuspensionSuccess \/ ExitProcessSuccess
        BY <3>1 DEF SuspensionSuccess, ExitProcessSuccess, Answered, Passes, ReadyAnswers
      <3>2. CASE \/ \E c \in Consoles : ReceiveProcess(c)
                 \/ ToExec \/ CpuDispatchListener
        BY <1>3, <3>2 DEF ReceiveProcess, ReceiveProcess_Read, ReceiveProcess_Write,
           ReceiveProcess_Put, ToExec, ToExec_Ready, ToExec_Cpu, ToExec_Dispatch,
           CpuDispatchListener, IoOp, ExitOp, HandleInterruption, socketVars
      <3>. QED BY <1>5, <3>1, <3>2
    <2>. QED BY <1>1, <1>2, <2>1, <2>2, <2>3, <2>4, AdmissionKept DEF AdmissionPasses
  <1>6. CASE IoListener \/ ExitProcess
    <2>1. at'["to_ready"] = at["to_ready"] /\ hand'["to_ready"] = hand["to_ready"]
      BY <1>0, <1>6 DEF IoListener, IoListener_Fits, IoListener_Exceeds, IoListener_Suspended,
         IoListener_Take, IoListener_Suspend, IoListener_Wait, IoListener_Finish, PutToReady,
         PutToReady_Fifo, PutToReady_Replan, PutToReady_Interrupt, PutToReady_Resume, ExitProcess,
         ExitProcess_Send, ExitProcess_Put, Threads, Holders, Planners
    <2>2. sem'["pcb_table_ready"] = sem["pcb_table_ready"]
      BY <1>0, <1>6 DEF IoListener, IoListener_Fits, IoListener_Exceeds, IoListener_Suspended,
         IoListener_Take, IoListener_Suspend, IoListener_Wait, IoListener_Finish, PutToReady,
         PutToReady_Fifo, PutToReady_Replan, PutToReady_Interrupt, PutToReady_Resume, ExitProcess,
         ExitProcess_Send, ExitProcess_Put, Semaphores
    <2>3. queue'["memory_init_q"] = queue["memory_init_q"]
      BY <1>0, <1>6 DEF IoListener, IoListener_Fits, IoListener_Exceeds, IoListener_Suspended,
         IoListener_Take, IoListener_Suspend, IoListener_Wait, IoListener_Finish, PutToReady,
         PutToReady_Fifo, PutToReady_Replan, PutToReady_Interrupt, PutToReady_Resume, ExitProcess,
         ExitProcess_Send, ExitProcess_Put, Queues
    <2>4. UNCHANGED memory_answers
      BY <1>6 DEF IoListener, IoListener_Fits, IoListener_Exceeds, IoListener_Suspended,
         IoListener_Take, IoListener_Suspend, IoListener_Wait, IoListener_Finish, PutToReady,
         PutToReady_Resume, ExitProcess, ExitProcess_Send, ExitProcess_Put, socketVars
    <2>5. Passes(memory_requests, memory_requests', MemoryRequests, NewRequests)
      BY <1>2, <1>6, OtherRequestsPass
    <2>. QED BY <1>1, <1>3, <2>1, <2>2, <2>3, <2>4, <2>5, AdmissionKept DEF AdmissionPasses
  <1>. QED BY <1>4, <1>5, <1>6

\* The CPU, and the memory server's other requests.
LEMMA Other_AdmissionAside ==
  ASSUME SystemInv, AdmissionInv, UNCHANGED kernelVars,
         \/ UNCHANGED memoryVars /\ (ReceivePcb \/ ReceiveInterruption \/ CpuCycle)
         \/ ProcessSuspend \/ ProcessSuspend_Crash \/ ProcessExit
  PROVE  AdmissionInv'
  <1>1. /\ at'["to_ready"] = at["to_ready"] /\ hand'["to_ready"] = hand["to_ready"]
        /\ sem'["pcb_table_ready"] = sem["pcb_table_ready"]
        /\ queue'["memory_init_q"] = queue["memory_init_q"]
    BY DEF kernelVars
  <1>2. CASE UNCHANGED memoryVars /\ (ReceivePcb \/ ReceiveInterruption \/ CpuCycle)
    <2>1. UNCHANGED <<memory_requests, memory_answers>>
      BY <1>2 DEF ReceivePcb, ReceiveInterruption, CpuCycle, CycleStart, CycleEnd, ExecuteNoOp,
         ExecuteIo, ExecuteExit, ExecuteMemoryOp, Mmu, NoInterruption, Evict, EvictGone,
         FetchAndDecode, socketVars
    <2>. QED BY <1>1, <1>2, <2>1, AdmissionKept DEF AdmissionPasses, Passes, memoryVars
  <1>3. CASE ProcessSuspend_Crash
    BY <1>1, <1>3, AdmissionKept DEF AdmissionPasses, Passes, ProcessSuspend_Crash, socketVars
  <1>4. CASE ProcessSuspend \/ ProcessExit
    <2> DEFINE m == Head(memory_requests)
    <2>1. /\ memory_requests # <<>> /\ m.header # "PROCESS_NEW"
          /\ memory_requests' = Tail(memory_requests)
      BY <1>4 DEF ProcessSuspend, ProcessExit, Requested, Reply
    <2>2. memory_requests \in Seq(MemoryRequests) /\ processes_frames \in Seq(SUBSET Frames)
      BY PlaceTypes DEF SystemInv, MemoryTypeOK
    <2>3. m \in MemoryRequests /\ m.pid \in Nat
      BY <2>1, <2>2 DEF MemoryRequests
    <2>4. PICK n \in MemoryAnswers \ ReadyAnswers : memory_answers' = Append(memory_answers, n)
      <3>1. [header |-> "PROCESS_SUSPENSION_READY"] \in MemoryAnswers \ ReadyAnswers
        BY DEF MemoryAnswers, ReadyAnswers
      <3>2. [header |-> "PROCESS_EXIT_READY", pid |-> m.pid] \in MemoryAnswers \ ReadyAnswers
        BY <2>3 DEF MemoryAnswers, ReadyAnswers
      <3>. QED BY <1>4, <3>1, <3>2 DEF ProcessSuspend, ProcessExit, Reply
    <2>5. Len(processes_frames') = Len(processes_frames)
      BY <1>4, <2>2 DEF ProcessSuspend, ProcessExit, UnassignProcessFrames, memoryVars
    <2>6. m \notin NewRequests
      BY <2>1 DEF NewRequests
    <2>. QED BY <1>1, <2>1, <2>4, <2>5, <2>6, AdmissionKept DEF AdmissionPasses, Passes
  <1>. QED BY <1>2, <1>3, <1>4

\* The hand-over goes right when the memory server's delay outlasts the put.
LEMMA AdmissionInductive ==
  ASSUME SlowMemory
  PROVE  SystemInv /\ SystemInv' /\ AdmissionInv /\ [Next]_vars => AdmissionInv'
  <1> SUFFICES ASSUME SystemInv, SystemInv', AdmissionInv, [Next]_vars PROVE AdmissionInv'
    OBVIOUS
  <1>1. CASE UNCHANGED vars
    <2>1. UNCHANGED <<at, hand, sem, queue, processes_frames, memory_requests, memory_answers>>
      BY <1>1 DEF vars, kernelVars, memoryVars, socketVars
    <2>. QED BY <2>1, AdmissionKept DEF AdmissionPasses, Passes
  <1>2. CASE /\ UNCHANGED <<cpuVars, memoryVars>>
             /\ \/ \E c \in Consoles : ReceiveProcess(c)
                \/ ToReady \/ ToExec \/ IoListener \/ ExitProcess
                \/ CpuDispatchListener \/ MemoryListener
    BY <1>2, Kernel_AdmissionAside, NewToReady_Send_Admission, NewToReady_Put_Admission,
       NewToReady_Ready_Admission, TableIndexSuccess_Admission DEF ToReady, MemoryListener
  <1>3. CASE UNCHANGED <<kernelVars, memoryVars>> /\ (ReceivePcb \/ ReceiveInterruption \/ CpuCycle)
    BY <1>3, Other_AdmissionAside
  <1>4. CASE MemoryStep(MemoryServer)
    BY <1>4, Other_AdmissionAside, ProcessNew_Admission DEF MemoryStep, MemoryServer
  <1>. QED BY <1>1, <1>2, <1>3, <1>4 DEF Next, KernelStep, CpuStep, Idle

-----------------------------------------------------------------------------
(* What a step does to the processes that have memory. *)

\* Those in the kernel that have none yet.
Unmade(S) ==
    Count(queue["new_q"], S)
      + (IF at["to_ready"] = "put_to_ready" THEN 0 ELSE Count(Held("to_ready"), S))

\* With memory or without, a process that has not left is in one of the places.
MemorySplits ==
    \A S : /\ WithMemory(S) \in Nat /\ Unmade(S) \in Nat
           /\ Inside(S) \in Nat /\ InIo(S) \in Nat /\ Outside(S) \in Nat
           /\ WithMemory(S) + Unmade(S) = Inside(S) + InIo(S) + Outside(S)

\* The places of WithMemory and Unmade are those of Inside, InIo and Outside.
LEMMA MemorySplit == SystemInv => MemorySplits
  <1> SUFFICES ASSUME SystemInv, NEW S
               PROVE  /\ WithMemory(S) \in Nat /\ Unmade(S) \in Nat
                      /\ Inside(S) \in Nat /\ InIo(S) \in Nat /\ Outside(S) \in Nat
                      /\ WithMemory(S) + Unmade(S) = Inside(S) + InIo(S) + Outside(S)
    BY DEF MemorySplits
  <1> DEFINE h == Count(Held("to_ready"), S)
             r == Count(queue["ready_q"], S)
             n == Count(queue["new_q"], S)
             b == Count(queue["suspended_block_q"], S)
             s == Count(queue["suspended_ready_q"], S)
             e == InExec(S)
             q == Queued(S)
             i == InIo(S)
  <1>1. h \in Nat /\ r \in Nat /\ n \in Nat /\ b \in Nat /\ s \in Nat
    BY PlaceCounts
  <1>2. e \in Nat /\ q \in Nat /\ i \in Nat
    BY GroupCounts
  <1>3. Inside(S) = h + r + e + q /\ Outside(S) = n + b + s /\ InIo(S) = i
    BY DEF Inside, InReady, Outside
  <1>4. CASE at["to_ready"] = "put_to_ready"
    <2>1. WithMemory(S) = h + r + e + q + i + b + s /\ Unmade(S) = n + 0
      BY <1>4 DEF WithMemory, InAdmission, Unmade
    <2> HIDE DEF h, r, n, b, s, e, q, i
    <2>. QED BY <1>1, <1>2, <1>3, <2>1
  <1>5. CASE at["to_ready"] # "put_to_ready"
    <2>1. WithMemory(S) = 0 + r + e + q + i + b + s /\ Unmade(S) = n + h
      BY <1>5 DEF WithMemory, InAdmission, Unmade
    <2> HIDE DEF h, r, n, b, s, e, q, i
    <2>. QED BY <1>1, <1>2, <1>3, <2>1
  <1>. QED BY <1>4, <1>5

\* A move among the places, with nobody's memory made.
LEMMA MovedWithMemory ==
  ASSUME SystemInv, SystemInv', NEW S, NEW a \in Int, NEW b \in Int, NEW l, NEW o \in Int,
         Moved(S, a, b, l, o), Unmade(S)' = Unmade(S)
  PROVE  WithMemory(S)' = WithMemory(S) + (a + b + o)
  <1>1. MemorySplits /\ MemorySplits'
    BY MemorySplit, PTL
  <1> DEFINE w == WithMemory(S)
             u == Unmade(S)
             x == Inside(S)
             y == InIo(S)
             z == Outside(S)
  <1>2. /\ w \in Nat /\ u \in Nat /\ x \in Nat /\ y \in Nat /\ z \in Nat /\ w + u = x + y + z
    BY <1>1 DEF MemorySplits
  <1>3. w' \in Nat /\ w' + u' = x' + y' + z'
    BY <1>1 DEF MemorySplits
  <1>4. u' = u /\ x' = x + a /\ y' = y + b /\ z' = z + o
    BY DEF Moved
  <1>5. w' \in Nat /\ w' + u = (x + a) + (y + b) + (z + o)
    BY <1>3, <1>4
  <1>6. w' = w + (a + b + o)
    BY <1>2, <1>5
  <1>. QED BY <1>6 DEF w

\* Those without memory stay.
LEMMA UnmadeSame ==
  ASSUME NEW S, queue'["new_q"] = queue["new_q"],
         at'["to_ready"] = at["to_ready"], hand'["to_ready"] = hand["to_ready"]
  PROVE  Unmade(S)' = Unmade(S)
  BY DEF Unmade, Held

\* Those with memory stay.
LEMMA WithMemorySame ==
  ASSUME NEW S,
         at["to_ready"] = "put_to_ready" <=> at'["to_ready"] = "put_to_ready",
         at["to_ready"] = "put_to_ready" => hand'["to_ready"] = hand["to_ready"],
         hand'["io_listener"] = hand["io_listener"],
         UNCHANGED <<dispatch, returns, cpu_pcb, pcb_loaded, cpu_bussy>>,
         \A q \in Queues \ {"new_q", "memory_init_q"} : queue'[q] = queue[q]
  PROVE  WithMemory(S)' = WithMemory(S)
  <1>1. UNCHANGED <<queue["ready_q"], queue["blocked_q"], queue["exit_q"],
                    queue["suspended_block_q"], queue["suspended_ready_q"]>>
    BY DEF Queues
  <1>2. UNCHANGED <<InExec(S), Queued(S), InIo(S)>>
    BY <1>1, GroupsSame
  <1>3. UNCHANGED InAdmission(S)
    BY DEF InAdmission, Held
  <1>. QED BY <1>1, <1>2, <1>3 DEF WithMemory

\* No step of the kernel but two changes how many processes of a set have memory.
LEMMA Kernel_WithMemory ==
  ASSUME SystemInv, SystemInv', HandsEmpty, UNCHANGED cpuVars, NEW S, Carried(S),
         \/ \E c \in Consoles : ReceiveProcess(c)
         \/ ToReady_Any \/ ToReady_Admit \/ NewToReady_Send \/ NewToReady_Put
         \/ PutToReady("to_ready") \/ PutToReady_Resume("to_ready")
         \/ ToExec \/ IoListener \/ ExitProcess_Put \/ CpuDispatchListener \/ MemoryListener
  PROVE  WithMemory(S)' = WithMemory(S)
  <1>0. /\ at \in [Threads -> Locations] /\ queue \in [Queues -> Seq(Pcb)]
        /\ hand \in [Holders -> Pcb \cup {NoPcb}]
        /\ OneAdmission /\ HandsFull
    BY PlaceTypes
  <1>1. MemorySplits
    BY MemorySplit
  <1>2. WithMemory(S) \in Nat
    BY <1>1 DEF MemorySplits
  <1>3. CASE \/ \E c \in Consoles : ReceiveProcess(c)
             \/ ToReady_Any \/ NewToReady_Send \/ NewToReady_Put
             \/ ToExec_Ready \/ ToExec_Cpu \/ IoListener_Suspend \/ ExitProcess_Put
             \/ SuspensionSuccess \/ ExitProcessSuccess
    <2>1. UNCHANGED <<dispatch, returns, cpu_pcb, pcb_loaded, cpu_bussy>>
      BY <1>3 DEF ReceiveProcess, ReceiveProcess_Read, ReceiveProcess_Write, ReceiveProcess_Put,
         ToReady_Any, NewToReady_Send, NewToReady_Put, ToExec_Ready, ToExec_Cpu,
         IoListener_Suspend, ExitProcess_Put, SuspensionSuccess, ExitProcessSuccess, cpuVars,
         socketVars
    <2>2. at["to_ready"] = "put_to_ready" <=> at'["to_ready"] = "put_to_ready"
      BY <1>0, <1>3 DEF ReceiveProcess, ReceiveProcess_Read, ReceiveProcess_Write,
         ReceiveProcess_Put, ToReady_Any, NewToReady_Send, NewToReady_Put, ToExec_Ready,
         ToExec_Cpu, IoListener_Suspend, ExitProcess_Put, SuspensionSuccess, ExitProcessSuccess,
         Threads, Holders, Planners
    <2>3. hand'["to_ready"] = hand["to_ready"] /\ hand'["io_listener"] = hand["io_listener"]
      BY <1>0, <1>3 DEF ReceiveProcess, ReceiveProcess_Read, ReceiveProcess_Write,
         ReceiveProcess_Put, ToReady_Any, NewToReady_Send, NewToReady_Put, ToExec_Ready,
         ToExec_Cpu, IoListener_Suspend, ExitProcess_Put, SuspensionSuccess, ExitProcessSuccess,
         Holders, Planners
    <2>4. \A q \in Queues \ {"new_q", "memory_init_q"} : queue'[q] = queue[q]
      BY <1>0, <1>3 DEF ReceiveProcess, ReceiveProcess_Read, ReceiveProcess_Write,
         ReceiveProcess_Put, ToReady_Any, NewToReady_Send, NewToReady_Put, ToExec_Ready,
         ToExec_Cpu, IoListener_Suspend, ExitProcess_Put, SuspensionSuccess, ExitProcessSuccess,
         Queues
    <2>. QED BY <2>1, <2>2, <2>3, <2>4, WithMemorySame
  <1>4. CASE TableIndexSuccess
    <2>1. UNCHANGED <<dispatch, returns, cpu_pcb, pcb_loaded, cpu_bussy, at>>
      BY <1>4 DEF TableIndexSuccess, cpuVars
    <2>2. \A q \in Queues \ {"new_q", "memory_init_q"} : queue'[q] = queue[q]
      BY <1>0, <1>4 DEF TableIndexSuccess, Queues
    <2>3. hand'["io_listener"] = hand["io_listener"]
      BY <1>0, <1>4 DEF TableIndexSuccess, Holders, Planners
    <2>4. at["to_ready"] = "put_to_ready" => hand'["to_ready"] = hand["to_ready"]
      <3>1. CASE queue["memory_init_q"] = <<>>
        BY <1>4, <3>1 DEF TableIndexSuccess
      <3>2. CASE queue["memory_init_q"] # <<>>
        <4>1. /\ queue["memory_init_q"] \in Seq(Pcb) /\ sem["pcb_table_ready"] \in Nat
          BY <1>0, AdmissionCounts DEF Queues
        <4>2. Len(queue["memory_init_q"]) + sem["pcb_table_ready"] > 0
          BY <3>2, <4>1
        <4>. QED BY <1>0, <4>2 DEF OneAdmission
      <3>. QED BY <3>1, <3>2
    <2>. QED BY <2>1, <2>2, <2>3, <2>4, WithMemorySame
  <1>5. CASE ToReady_Admit
    <2> DEFINE d == One(hand'["to_ready"] \in S)
    <2>1. hand'["to_ready"] \in Pcb /\ Moved(S, d, 0, 0, -d)
      BY <1>5, ToReady_Admit_Moves
    <2>2. /\ at["to_ready"] = "sem_multiprogram" /\ "to_ready" \in Holders
          /\ UNCHANGED <<dispatch, returns, cpu_pcb, pcb_loaded, cpu_bussy>>
      BY <1>5 DEF ToReady_Admit, Holders, Planners, cpuVars, socketVars
    <2>3. hand["to_ready"] = NoPcb
      BY <2>2 DEF HandsEmpty, HoldingPoints, Planners
    <2>4. CASE Admit("suspended_ready_q", "put_to_ready")
      <3>1. queue'["new_q"] = queue["new_q"] /\ at'["to_ready"] = "put_to_ready"
        BY <1>0, <2>4 DEF Admit, Queues, Threads, Holders, Planners
      <3>2. Unmade(S)' = Unmade(S)
        BY <2>2, <2>3, <3>1, CountEmpty DEF Unmade, Held
      <3>3. d \in Nat
        BY DEF One
      <3>4. WithMemory(S)' = WithMemory(S) + (d + 0 + (-d))
        <4> HIDE DEF d
        <4>. QED BY <2>1, <3>2, <3>3, MovedWithMemory
      <3> HIDE DEF d
      <3>. QED BY <1>2, <3>3, <3>4
    <2>5. CASE Admit("new_q", "PROCESS_NEW")
      <3>1. at'["to_ready"] = "PROCESS_NEW" /\ hand'["io_listener"] = hand["io_listener"]
        BY <1>0, <2>5 DEF Admit, Threads, Holders, Planners
      <3>2. \A q \in Queues \ {"new_q", "memory_init_q"} : queue'[q] = queue[q]
        BY <1>0, <2>5 DEF Admit, Queues
      <3>. QED BY <2>2, <3>1, <3>2, WithMemorySame
    <2>6. CASE UNCHANGED hand
      BY <1>0, <2>1, <2>3, <2>6, NoPcbAssumption
    <2>. QED BY <1>5, <2>4, <2>5, <2>6 DEF ToReady_Admit
  <1>6. CASE PutToReady("to_ready")
    <2>1. Moved(S, 0, 0, 0, 0)
      BY <1>6, PutToReady_Moves DEF Planners
    <2>2. /\ at["to_ready"] = "put_to_ready"
          /\ at'["to_ready"] # "put_to_ready" /\ hand'["to_ready"] = NoPcb
          /\ queue'["new_q"] = queue["new_q"]
      BY <1>0, <1>6 DEF PutToReady, PutToReady_Fifo, PutToReady_Replan, PutToReady_Interrupt,
         LoopStart, Threads, Holders, Planners, Queues
    <2>3. Unmade(S)' = Unmade(S)
      BY <2>2, CountEmpty DEF Unmade, Held
    <2>4. WithMemory(S)' = WithMemory(S) + (0 + 0 + 0)
      BY <2>1, <2>3, MovedWithMemory
    <2>. QED BY <1>2, <2>4
  <1>7. CASE \/ PutToReady_Resume("to_ready") \/ PutToReady_Resume("io_listener")
             \/ ToExec_Dispatch \/ CpuDispatchListener
    <2>1. Moved(S, 0, 0, 0, 0)
      BY <1>7, PutToReady_Resume_Moves, ToExec_Dispatch_Moves, CpuDispatchListener_Moves
         DEF Planners
    <2>2. queue'["new_q"] = queue["new_q"] /\ hand' = hand
      BY <1>0, <1>7 DEF PutToReady_Resume, ToExec_Dispatch, CpuDispatchListener, IoOp, ExitOp,
         HandleInterruption, Queues
    <2>3. at["to_ready"] # "put_to_ready" => at'["to_ready"] # "put_to_ready"
      BY <1>0, <1>7 DEF PutToReady_Resume, ToExec_Dispatch, CpuDispatchListener, IoOp, ExitOp,
         HandleInterruption, LoopStart, Threads, Holders, Planners
    <2>4. at["to_ready"] = "put_to_ready" => at'["to_ready"] = "put_to_ready"
      BY <1>0, <1>7 DEF PutToReady_Resume, ToExec_Dispatch, CpuDispatchListener, IoOp, ExitOp,
         HandleInterruption, LoopStart, Threads, Holders, Planners
    <2>5. Unmade(S)' = Unmade(S)
      BY <2>2, <2>3, <2>4 DEF Unmade, Held
    <2>6. WithMemory(S)' = WithMemory(S) + (0 + 0 + 0)
      BY <2>1, <2>5, MovedWithMemory
    <2>. QED BY <1>2, <2>6
  <1>8. CASE \/ PutToReady("io_listener") \/ IoListener_Fits \/ IoListener_Exceeds
             \/ IoListener_Suspended \/ IoListener_Wait \/ IoListener_Finish
    <2>1. /\ queue'["new_q"] = queue["new_q"]
          /\ at'["to_ready"] = at["to_ready"] /\ hand'["to_ready"] = hand["to_ready"]
      BY <1>0, <1>8 DEF PutToReady, PutToReady_Fifo, PutToReady_Replan, PutToReady_Interrupt,
         IoListener_Fits, IoListener_Exceeds, IoListener_Suspended, IoListener_Take,
         IoListener_Wait, IoListener_Finish, Threads, Holders, Planners, Queues
    <2>2. Unmade(S)' = Unmade(S)
      BY <2>1, UnmadeSame
    <2>3. PICK a \in Int, b \in Int, o \in Int : a + b + o = 0 /\ Moved(S, a, b, 0, o)
      <3>2. CASE PutToReady("io_listener")
        <4> DEFINE d == One(hand["io_listener"] \in S)
        <4>1. Moved(S, d, -d, 0, 0)
          BY <3>2, PutToReady_Moves DEF Planners
        <4>2. d \in Int /\ -d \in Int /\ d + (-d) + 0 = 0
          BY DEF One
        <4> HIDE DEF d
        <4>. QED BY <4>1, <4>2
      <3>3. CASE IoListener_Wait \/ IoListener_Finish
        <4> DEFINE d == One(hand["io_listener"] \in S)
        <4>1. Moved(S, 0, -d, 0, d)
          BY <3>3, IoListener_Put_Moves
        <4>2. d \in Int /\ -d \in Int /\ 0 + (-d) + d = 0
          BY DEF One
        <4> HIDE DEF d
        <4>. QED BY <4>1, <4>2
      <3>4. CASE IoListener_Fits \/ IoListener_Exceeds
        <4> DEFINE d == One(hand'["io_listener"] \in S)
        <4>1. Moved(S, -d, d, 0, 0)
          BY <3>4, IoListener_Take_Moves DEF IoListener_Fits, IoListener_Exceeds
        <4>2. d \in Int /\ -d \in Int /\ (-d) + d + 0 = 0
          BY DEF One
        <4> HIDE DEF d
        <4>. QED BY <4>1, <4>2
      <3>5. CASE IoListener_Suspended
        <4> DEFINE d == One(hand'["io_listener"] \in S)
        <4>1. Moved(S, 0, d, 0, -d)
          BY <3>5, IoListener_Take_Moves DEF IoListener_Suspended
        <4>2. d \in Int /\ -d \in Int /\ 0 + d + (-d) = 0
          BY DEF One
        <4> HIDE DEF d
        <4>. QED BY <4>1, <4>2
      <3>. QED BY <1>8, <3>2, <3>3, <3>4, <3>5
    <2>4. WithMemory(S)' = WithMemory(S) + (a + b + o)
      BY <2>2, <2>3, MovedWithMemory
    <2>. QED BY <1>2, <2>3, <2>4
  <1>. QED BY <1>3, <1>4, <1>5, <1>6, <1>7, <1>8 DEF ToExec, IoListener, MemoryListener

\* The CPU changes nothing of it, until an eviction returns one that had left.
LEMMA Cpu_WithMemory ==
  ASSUME SystemInv, SystemInv', ExecutionInv, UNCHANGED kernelVars,
         ReceivePcb \/ ReceiveInterruption \/ CpuCycle,
         cycle # "cpu_bussy", cycle' # "cpu_bussy", NEW S, Carried(S)
  PROVE  WithMemory(S)' = WithMemory(S)
  <1>1. Moved(S, 0, 0, 0, 0)
    BY Cpu_Moves
  <1>2. Unmade(S)' = Unmade(S)
    BY UnmadeSame DEF kernelVars
  <1>3. WithMemory(S)' = WithMemory(S) + (0 + 0 + 0)
    BY <1>1, <1>2, MovedWithMemory
  <1>4. MemorySplits
    BY MemorySplit
  <1>5. WithMemory(S) \in Nat
    BY <1>4 DEF MemorySplits
  <1>. QED BY <1>3, <1>5

\* The memory server has none of the kernel's places.
LEMMA Memory_WithMemory ==
  ASSUME UNCHANGED <<kernelVars, cpuVars>>, MemoryServer, NEW S
  PROVE  WithMemory(S)' = WithMemory(S)
  <1>1. UNCHANGED <<at, hand, queue, cpu_pcb, pcb_loaded, cpu_bussy, dispatch, returns>>
    BY DEF kernelVars, cpuVars, MemoryServer, ProcessNew, ProcessSuspend, ProcessSuspend_Crash,
       ProcessExit, socketVars
  <1>. QED BY <1>1, WithMemorySame

\* The server has made the memory of the process that to_ready holds.
LEMMA NewToReady_Ready_WithMemory ==
  ASSUME SystemInv, SystemInv', UNCHANGED cpuVars, NewToReady_Ready, NEW S, Carried(S)
  PROVE  WithMemory(S)' = WithMemory(S) + One(hand["to_ready"] \in S)
  <1>1. /\ at["to_ready"] # "put_to_ready" /\ at'["to_ready"] = "put_to_ready"
        /\ UNCHANGED <<dispatch, returns, cpu_pcb, pcb_loaded, cpu_bussy, hand, queue>>
    <2>1. at \in [Threads -> Locations]
      BY PlaceTypes
    <2>. QED BY <2>1 DEF NewToReady_Ready, Threads, Holders, Planners, cpuVars, socketVars
  <1>2. UNCHANGED <<InExec(S), Queued(S), InIo(S)>>
    BY <1>1, GroupsSame
  <1>3. InAdmission(S) = 0 /\ InAdmission(S)' = One(hand["to_ready"] \in S)
    <2>1. "to_ready" \in Holders
      BY DEF Holders, Planners
    <2>2. Count(Held("to_ready"), S)' = One(hand'["to_ready"] \in S)
      BY <2>1, Hands
    <2>. QED BY <1>1, <2>2 DEF InAdmission
  <1>4. /\ Count(queue["ready_q"], S) \in Nat /\ Count(queue["suspended_block_q"], S) \in Nat
        /\ Count(queue["suspended_ready_q"], S) \in Nat
        /\ InExec(S) \in Nat /\ Queued(S) \in Nat /\ InIo(S) \in Nat
    BY PlaceCounts, GroupCounts
  <1>5. One(hand["to_ready"] \in S) \in Nat
    BY DEF One
  <1>6. UNCHANGED <<Count(queue["ready_q"], S), Count(queue["suspended_block_q"], S),
                    Count(queue["suspended_ready_q"], S)>>
    BY <1>1
  <1>. QED BY <1>2, <1>3, <1>4, <1>5, <1>6 DEF WithMemory

\* The process that exit_process takes gives up its memory.
LEMMA ExitProcess_Send_WithMemory ==
  ASSUME SystemInv, SystemInv', HandsEmpty, UNCHANGED cpuVars, ExitProcess_Send, NEW S, Carried(S)
  PROVE  /\ Head(queue["exit_q"]) \in Pcb
         /\ WithMemory(S) \in Nat /\ WithMemory(S)' \in Nat
         /\ WithMemory(S) = WithMemory(S)' + One(Head(queue["exit_q"]) \in S)
  <1> DEFINE p == Head(queue["exit_q"])
             d == One(p \in S)
  <1>1. p \in Pcb /\ Moved(S, -d, 0, d, 0)
    BY ExitProcess_Send_Moves
  <1>2. Unmade(S)' = Unmade(S)
    <2>1. /\ at \in [Threads -> Locations] /\ queue \in [Queues -> Seq(Pcb)]
          /\ hand \in [Holders -> Pcb \cup {NoPcb}]
      BY PlaceTypes
    <2>2. /\ queue'["new_q"] = queue["new_q"]
          /\ at'["to_ready"] = at["to_ready"] /\ hand'["to_ready"] = hand["to_ready"]
      BY <2>1 DEF ExitProcess_Send, Threads, Holders, Planners, Queues
    <2>. QED BY <2>2, UnmadeSame
  <1>3. d \in Nat
    BY DEF One
  <1>4. WithMemory(S)' = WithMemory(S) + ((-d) + 0 + 0)
    <2> HIDE DEF d
    <2>. QED BY <1>1, <1>2, <1>3, MovedWithMemory
  <1>5. MemorySplits /\ MemorySplits'
    BY MemorySplit, PTL
  <1>6. WithMemory(S) \in Nat /\ WithMemory(S)' \in Nat
    BY <1>5 DEF MemorySplits
  <1>7. WithMemory(S) = WithMemory(S)' + d
    <2> HIDE DEF d
    <2>. QED BY <1>3, <1>4, <1>6
  <1>. QED BY <1>1, <1>6, <1>7

-----------------------------------------------------------------------------
(* Entries and swap files. *)

\* Neither an entry nor a number changes on the way.
LEMMA CarriedSets ==
  /\ \A k : Carried(Made(k)) /\ Made(k)' = Made(k)
  /\ \A n : Carried(WithPid(n)) /\ WithPid(n)' = WithPid(n)
  /\ \A k : ExitsOf(k)' = ExitsOf(k)
  /\ NewRequests' = NewRequests
  BY DEF Carried, Made, WithPid, ExitsOf, NewRequests

\* The owners of an entry are so many.
LEMMA OwnerCounts ==
  ASSUME SystemInv, NEW k
  PROVE  /\ WithMemory(Made(k)) \in Nat /\ Count(memory_requests, ExitsOf(k)) \in Nat
         /\ One(Fresh /\ k = Newest) \in Nat
  <1>1. MemorySplits
    BY MemorySplit
  <1>2. memory_requests \in Seq(MemoryRequests)
    BY PlaceTypes
  <1>. QED BY <1>1, <1>2, CountType DEF MemorySplits, One

\* Steps that make and give back nothing.
LEMMA MatchKept ==
  ASSUME SystemInv, OwnersInv, SwapInv,
         \A S : Carried(S) => WithMemory(S)' = WithMemory(S),
         Passes(memory_requests, memory_requests', MemoryRequests, UNION {ExitsOf(k) : k \in Nat}),
         Fresh' <=> Fresh, Fresh => hand'["to_ready"].pid = hand["to_ready"].pid,
         UNCHANGED <<processes_frames, swap_files>>
  PROVE  OwnersInv' /\ SwapInv'
  <1>1. ASSUME NEW k \in Nat PROVE Owners(k)' = Owners(k)
    <2>1. WithMemory(Made(k))' = WithMemory(Made(k))
      BY CarriedSets
    <2>2. Count(memory_requests, ExitsOf(k))' = Count(memory_requests, ExitsOf(k))
      <3>1. memory_requests \in Seq(MemoryRequests)
        BY PlaceTypes
      <3>2. ExitsOf(k) \subseteq UNION {ExitsOf(j) : j \in Nat}
        OBVIOUS
      <3>3. Count(memory_requests', ExitsOf(k)) = Count(memory_requests, ExitsOf(k))
        BY <3>1, <3>2, CountPasses
      <3>. QED BY <3>3, CarriedSets
    <2>3. One(Fresh /\ k = Newest)' = One(Fresh /\ k = Newest)
      BY DEF One, Newest
    <2>. QED BY <2>1, <2>2, <2>3 DEF Owners
  <1>2. OwnersInv'
    BY <1>1 DEF OwnersInv
  <1>3. SwapInv'
    <2>1. \A n \in Nat : WithMemory(WithPid(n))' = WithMemory(WithPid(n))
      BY CarriedSets
    <2>. QED BY <2>1 DEF SwapInv
  <1>. QED BY <1>2, <1>3

\* to_ready goes on with the newest entry, which is its process's.
LEMMA NewToReady_Ready_Match ==
  ASSUME SystemInv, SystemInv', AdmissionInv, OwnersInv, SwapInv,
         UNCHANGED <<cpuVars, memoryVars>>, NewToReady_Ready
  PROVE  OwnersInv' /\ SwapInv'
  <1> DEFINE p == hand["to_ready"]
  <1>1. sem["pcb_table_ready"] > 0
    BY DEF NewToReady_Ready
  <1>2. Fresh /\ p \in Pcb /\ p.process_frames_index = Newest
    BY <1>1, MemoryReady
  <1>3. /\ UNCHANGED <<memory_requests, hand, processes_frames, swap_files>>
        /\ at'["to_ready"] = "put_to_ready"
    <2>1. at \in [Threads -> Locations]
      BY PlaceTypes
    <2>. QED BY <2>1 DEF NewToReady_Ready, Threads, Holders, Planners, socketVars, memoryVars
  <1>4. ~Fresh'
    BY <1>3 DEF Fresh
  <1>5. ASSUME NEW k \in Nat PROVE Owners(k)' = Owners(k)
    <2> DEFINE w == WithMemory(Made(k))
               e == Count(memory_requests, ExitsOf(k))
    <2>1. w' = w + One(p \in Made(k))
      BY CarriedSets, NewToReady_Ready_WithMemory
    <2>2. One(p \in Made(k)) = One(k = Newest) /\ One(k = Newest) \in Nat
      BY <1>2 DEF One, Made
    <2>3. e' = e
      BY <1>3, CarriedSets
    <2>4. w \in Nat /\ e \in Nat
      BY OwnerCounts
    <2>5. Owners(k) = w + e + One(k = Newest)
      BY <1>2 DEF Owners, One
    <2>6. Owners(k)' = w' + e' + 0
      BY <1>4 DEF Owners, One
    <2>. QED BY <2>1, <2>2, <2>3, <2>4, <2>5, <2>6
  <1>6. OwnersInv'
    BY <1>3, <1>5 DEF OwnersInv
  <1>7. ASSUME NEW n \in Nat, n \notin swap_files PROVE WithMemory(WithPid(n))' = 0
    <2>1. WithMemory(WithPid(n))' = WithMemory(WithPid(n)) + One(p \in WithPid(n))
      BY CarriedSets, NewToReady_Ready_WithMemory
    <2>2. p \notin WithPid(n)
      BY <1>2, <1>7 DEF SwapInv, WithPid
    <2>3. WithMemory(WithPid(n)) = 0
      BY <1>7 DEF SwapInv
    <2>. QED BY <2>1, <2>2, <2>3 DEF One
  <1>8. SwapInv'
    BY <1>3, <1>4, <1>7 DEF SwapInv
  <1>. QED BY <1>6, <1>8

\* The entry of a process that ends goes with the request.
LEMMA ExitProcess_Send_Match ==
  ASSUME SystemInv, SystemInv', HandsEmpty, OwnersInv, SwapInv,
         UNCHANGED <<cpuVars, memoryVars>>, ExitProcess_Send
  PROVE  OwnersInv' /\ SwapInv'
  <1> DEFINE p == Head(queue["exit_q"])
             m == [header |-> "PROCESS_EXIT", pid |-> p.pid, page_table |-> p.page_table,
                   process_frames_index |-> p.process_frames_index]
  <1>1. p \in Pcb
    BY ExitProcess_Send_WithMemory, CarriedSets
  <1>2. /\ memory_requests' = Append(memory_requests, m)
        /\ at'["to_ready"] = at["to_ready"] /\ hand'["to_ready"] = hand["to_ready"]
        /\ UNCHANGED <<processes_frames, swap_files>>
    <2>1. at \in [Threads -> Locations] /\ hand \in [Holders -> Pcb \cup {NoPcb}]
      BY PlaceTypes
    <2>. QED BY <2>1 DEF ExitProcess_Send, Threads, Holders, Planners, memoryVars
  <1>3. memory_requests \in Seq(MemoryRequests) /\ m \in MemoryRequests
    <2>1. m \in MemoryRequests
      BY <1>1 DEF Pcb, MemoryRequests
    <2>. QED BY <2>1, PlaceTypes
  <1>4. m \notin NewRequests /\ \A k : m \in ExitsOf(k) <=> p \in Made(k)
    BY <1>1, <1>3 DEF NewRequests, ExitsOf, Made
  <1> HIDE DEF m
  <1>5. Fresh' <=> Fresh
    <2>1. Passes(memory_requests, memory_requests', MemoryRequests, NewRequests)
      BY <1>2, <1>3, <1>4 DEF Passes
    <2>2. Count(memory_requests', NewRequests) = Count(memory_requests, NewRequests)
      BY <1>3, <2>1, CountPasses
    <2>. QED BY <1>2, <2>2, CarriedSets DEF Fresh
  <1>6. ASSUME NEW k \in Nat PROVE Owners(k)' = Owners(k)
    <2> DEFINE w == WithMemory(Made(k))
               e == Count(memory_requests, ExitsOf(k))
               f == One(Fresh /\ k = Newest)
               d == One(p \in Made(k))
    <2>1. w = w' + d /\ w \in Nat /\ w' \in Nat
      BY CarriedSets, ExitProcess_Send_WithMemory
    <2>2. e' = e + d
      <3>1. Count(memory_requests', ExitsOf(k)) = e + One(m \in ExitsOf(k))
        BY <1>2, <1>3, CountAppend
      <3>2. One(m \in ExitsOf(k)) = d
        BY <1>4 DEF One
      <3>. QED BY <3>1, <3>2, CarriedSets
    <2>3. f' = f
      BY <1>2, <1>5 DEF One, Newest
    <2>4. e \in Nat /\ f \in Nat /\ d \in Nat
      BY OwnerCounts DEF One
    <2>5. Owners(k) = w + e + f /\ Owners(k)' = w' + e' + f'
      BY DEF Owners
    <2> HIDE DEF d, f
    <2>. QED BY <2>1, <2>2, <2>3, <2>4, <2>5
  <1>7. OwnersInv'
    BY <1>2, <1>6 DEF OwnersInv
  <1>8. ASSUME NEW n \in Nat, n \notin swap_files PROVE WithMemory(WithPid(n))' = 0
    <2> DEFINE d == One(p \in WithPid(n))
    <2>1. /\ WithMemory(WithPid(n)) = WithMemory(WithPid(n))' + d
          /\ WithMemory(WithPid(n))' \in Nat
      BY CarriedSets, ExitProcess_Send_WithMemory
    <2>2. WithMemory(WithPid(n)) = 0
      BY <1>8 DEF SwapInv
    <2>3. d \in Nat
      BY DEF One
    <2> HIDE DEF d
    <2>. QED BY <2>1, <2>2, <2>3
  <1>9. SwapInv'
    BY <1>2, <1>5, <1>8 DEF SwapInv
  <1>. QED BY <1>7, <1>9

\* Whoever has memory names an entry.
LEMMA IndexedWithMemory ==
  ASSUME SystemInv, IndexedInv, NEW S, \A p \in S : p \notin IndexedPcb
  PROVE  WithMemory(S) = 0
  <1>1. ASSUME NEW s \in Seq(IndexedPcb) PROVE Count(s, S) = 0
    <2>1. \A i \in DOMAIN s : s[i] \notin S
      OBVIOUS
    <2>. QED BY <2>1, CountMeans
  <1>2. /\ Count(queue["ready_q"], S) = 0 /\ Count(queue["blocked_q"], S) = 0
        /\ Count(queue["suspended_block_q"], S) = 0 /\ Count(queue["suspended_ready_q"], S) = 0
        /\ Count(queue["exit_q"], S) = 0 /\ Count(dispatch, S) = 0
    BY <1>1, IndexedParts
  <1>3. Count(Returning, S) = 0
    <2>1. returns \in Seq(IndexedReturns)
      BY IndexedParts
    <2>2. \A i \in DOMAIN returns : returns[i].pcb \in IndexedPcb
      BY <2>1 DEF IndexedReturns
    <2>3. Returning \in Seq(IndexedPcb)
      BY <2>1, <2>2 DEF Returning
    <2>. QED BY <1>1, <2>3
  <1>4. Count(InCpu, S) = 0
    <2>1. pcb_loaded + cpu_bussy > 0 => cpu_pcb \in IndexedPcb
      BY NoPcbAssumption DEF SystemInv, CpuInv, CpuLoaded, IndexedInv, IndexedInCpu
    <2>2. InCpu \in Seq(IndexedPcb)
      BY <2>1 DEF InCpu
    <2>. QED BY <1>1, <2>2
  <1>5. Count(Held("io_listener"), S) = 0
    <2>1. hand["io_listener"] \in IndexedPcb \cup {NoPcb}
      BY IndexedParts
    <2>2. Held("io_listener") \in Seq(IndexedPcb)
      BY <2>1 DEF Held
    <2>. QED BY <1>1, <2>2
  <1>6. InAdmission(S) = 0
    <2>1. CASE at["to_ready"] = "put_to_ready"
      <3>1. hand["to_ready"] \in IndexedPcb
        BY <2>1 DEF IndexedInv, IndexedInKernel
      <3>2. Held("to_ready") \in Seq(IndexedPcb)
        BY <3>1 DEF Held
      <3>. QED BY <1>1, <2>1, <3>2 DEF InAdmission
    <2>2. CASE at["to_ready"] # "put_to_ready"
      BY <2>2 DEF InAdmission
    <2>. QED BY <2>1, <2>2
  <1>. QED BY <1>2, <1>3, <1>4, <1>5, <1>6 DEF WithMemory, InExec, Queued, InIo

\* A new entry is nobody's but the process's that it was made for.
LEMMA ProcessNew_Match ==
  ASSUME SystemInv, SystemInv', IndexedInv, AdmissionInv, OwnersInv, SwapInv,
         UNCHANGED <<kernelVars, cpuVars>>, ProcessNew, ~StillSending
  PROVE  OwnersInv' /\ SwapInv'
  <1> DEFINE m == Head(memory_requests)
             n == Len(processes_frames)
  <1>1. /\ at["to_ready"] = "pcb_table_ready" /\ Count(memory_requests, NewRequests) = 1
        /\ hand["to_ready"] \in Pcb /\ m \in NewRequests /\ m.pid = hand["to_ready"].pid
    BY RequestFinds DEF ProcessNew
  <1>2. /\ memory_requests \in Seq(MemoryRequests) /\ memory_requests # <<>>
        /\ memory_requests' = Tail(memory_requests)
        /\ swap_files' = swap_files \cup {m.pid}
        /\ UNCHANGED <<at, hand>>
    BY PlaceTypes DEF ProcessNew, Requested, Reply, CreateSwap, kernelVars
  <1>3. PICK f : processes_frames' = Append(processes_frames, f)
    BY DEF ProcessNew, AssignProcessFrames
  <1>4. /\ n \in Nat /\ Len(processes_frames') = n + 1
        /\ \A i \in 1 .. n : processes_frames'[i] = processes_frames[i]
    BY <1>3 DEF SystemInv, MemoryTypeOK
  <1>5. Newest' = n
    BY <1>4 DEF Newest
  <1>6. ~Fresh
    BY <1>1 DEF Fresh
  <1>7. Fresh'
    <2>1. Count(memory_requests, NewRequests) = Count(memory_requests', NewRequests) + 1
      BY <1>1, <1>2, CountTail DEF One
    <2>2. Count(memory_requests', NewRequests) \in Nat
      <3>1. Tail(memory_requests) \in Seq(MemoryRequests)
        BY <1>2
      <3>. QED BY <1>2, <3>1, CountType
    <2>3. Count(memory_requests', NewRequests) = 0
      BY <1>1, <2>1, <2>2
    <2>. QED BY <1>1, <1>2, <2>3, CarriedSets DEF Fresh
  <1>8. \A S : WithMemory(S)' = WithMemory(S)
    BY Memory_WithMemory DEF MemoryServer
  <1>9. ASSUME NEW k \in Nat
        PROVE  Count(memory_requests, ExitsOf(k))' = Count(memory_requests, ExitsOf(k))
    <2>1. m \notin ExitsOf(k)
      BY <1>1 DEF NewRequests, ExitsOf
    <2>2. Passes(memory_requests, memory_requests', MemoryRequests, ExitsOf(k))
      BY <1>2, <2>1 DEF Passes
    <2>3. Count(memory_requests', ExitsOf(k)) = Count(memory_requests, ExitsOf(k))
      BY <1>2, <2>2, CountPasses
    <2>. QED BY <2>3, CarriedSets
  <1>10. ASSUME NEW k \in Nat PROVE Owners(k)' = Owners(k) + One(k = n)
    <2>1. Owners(k) = WithMemory(Made(k)) + Count(memory_requests, ExitsOf(k)) + 0
      BY <1>6 DEF Owners, One
    <2>2. Owners(k)' = WithMemory(Made(k)) + Count(memory_requests, ExitsOf(k)) + One(k = n)
      <3>1. WithMemory(Made(k))' = WithMemory(Made(k))
        BY <1>8, CarriedSets
      <3>2. One(Fresh /\ k = Newest)' = One(k = n)
        BY <1>5, <1>7 DEF One
      <3>. QED BY <1>9, <3>1, <3>2 DEF Owners
    <2>3. WithMemory(Made(k)) \in Nat /\ Count(memory_requests, ExitsOf(k)) \in Nat
      BY OwnerCounts
    <2>4. One(k = n) \in Nat
      BY DEF One
    <2>. QED BY <2>1, <2>2, <2>3, <2>4
  <1>11. Owners(n) = 0
    <2>1. WithMemory(Made(n)) = 0
      <3>1. \A p \in Made(n) : p \notin IndexedPcb
        BY <1>4 DEF Made, IndexedPcb, InRange
      <3>. QED BY <3>1, IndexedWithMemory
    <2>2. Count(memory_requests, ExitsOf(n)) = 0
      <3>1. memory_requests \in Seq(IndexedRequests)
        BY IndexedParts
      <3>2. \A r \in IndexedRequests : r \notin ExitsOf(n)
        BY <1>4 DEF IndexedRequests, ExitsOf, InRange
      <3>3. \A i \in DOMAIN memory_requests : memory_requests[i] \notin ExitsOf(n)
        BY <3>1, <3>2
      <3>. QED BY <1>2, <3>3, CountMeans
    <2>. QED BY <1>6, <2>1, <2>2 DEF Owners, One
  <1>12. OwnersInv'
    <2> SUFFICES ASSUME NEW k \in Nat
                 PROVE  /\ Owners(k)' <= 1
                        /\ k < Len(processes_frames') /\ processes_frames'[k + 1] # {}
                             => Owners(k)' = 1
      BY DEF OwnersInv
    <2>1. CASE k = n
      <3>1. Owners(k)' = 1
        BY <1>4, <1>10, <1>11, <2>1 DEF One
      <3>. QED BY <3>1
    <2>2. CASE k # n
      <3>1. Owners(k)' = Owners(k) + 0
        BY <1>10, <2>2 DEF One
      <3>2. Owners(k) \in Nat
        BY OwnerCounts DEF Owners
      <3>3. Owners(k)' = Owners(k)
        BY <3>1, <3>2
      <3>4. k < Len(processes_frames') => k < n /\ processes_frames'[k + 1] = processes_frames[k + 1]
        BY <1>4, <2>2
      <3>. QED BY <3>3, <3>4 DEF OwnersInv
    <2>. QED BY <2>1, <2>2
  <1>13. SwapInv'
    <2>1. \A k \in Nat : WithMemory(WithPid(k))' = WithMemory(WithPid(k))
      BY <1>8, CarriedSets
    <2>. QED BY <1>1, <1>2, <2>1 DEF SwapInv
  <1>. QED BY <1>12, <1>13

\* What is counted twice is no less.
LEMMA CountCover ==
  ASSUME NEW T, NEW s \in Seq(T), NEW A, NEW B, NEW C, A \subseteq B \cup C
  PROVE  Count(s, A) <= Count(s, B) + Count(s, C)
  <1> DEFINE a == {i \in DOMAIN s : s[i] \in A}
             b == {i \in DOMAIN s : s[i] \in B}
             c == {i \in DOMAIN s : s[i] \in C}
  <1>1. IsFiniteSet(a) /\ IsFiniteSet(b) /\ IsFiniteSet(c)
    BY CountType
  <1>2. a \subseteq b \cup c
    OBVIOUS
  <1>3. /\ Count(s, A) = Cardinality(a) /\ Count(s, B) = Cardinality(b)
        /\ Count(s, C) = Cardinality(c)
    BY DEF Count
  <1> HIDE DEF a, b, c
  <1>4. /\ IsFiniteSet(b \cup c)
        /\ Cardinality(b \cup c) = Cardinality(b) + Cardinality(c) - Cardinality(b \cap c)
    BY <1>1, FS_Union
  <1>5. Cardinality(a) <= Cardinality(b \cup c)
    BY <1>2, <1>4, FS_Subset
  <1>6. IsFiniteSet(b \cap c)
    BY <1>1, FS_Intersection
  <1>7. /\ Cardinality(a) \in Nat /\ Cardinality(b) \in Nat /\ Cardinality(c) \in Nat
        /\ Cardinality(b \cap c) \in Nat
    BY <1>1, <1>6, FS_CardinalityType
  <1>. QED BY <1>3, <1>4, <1>5, <1>7

\* The same over every place.
LEMMA TotalCover ==
  ASSUME SystemInv, NEW A, NEW B, NEW C, A \subseteq B \cup C
  PROVE  Total(A) <= Total(B) + Total(C)
  <1>1. /\ \A t \in Holders : Count(Held(t), A) <= Count(Held(t), B) + Count(Held(t), C)
        /\ Count(dispatch, A) <= Count(dispatch, B) + Count(dispatch, C)
        /\ Count(InCpu, A) <= Count(InCpu, B) + Count(InCpu, C)
        /\ Count(Returning, A) <= Count(Returning, B) + Count(Returning, C)
        /\ Count(memory_exit_q, A) <= Count(memory_exit_q, B) + Count(memory_exit_q, C)
    BY PlaceTypes, CountCover
  <1>2. \A q \in Queues : Count(queue[q], A) <= Count(queue[q], B) + Count(queue[q], C)
    BY PlaceTypes, CountCover
  <1>3. InReady(A) <= InReady(B) + InReady(C)
    BY <1>1, <1>2, PlaceCounts DEF InReady, Holders, Planners, Queues
  <1>4. InExec(A) <= InExec(B) + InExec(C)
    BY <1>1, PlaceCounts DEF InExec
  <1>5. Queued(A) <= Queued(B) + Queued(C)
    BY <1>2, PlaceCounts DEF Queued, Queues
  <1>6. InIo(A) <= InIo(B) + InIo(C) /\ Leaving(A) <= Leaving(B) + Leaving(C)
    BY <1>1, PlaceCounts DEF InIo, Leaving, Holders, Planners
  <1>7. Outside(A) <= Outside(B) + Outside(C)
    BY <1>2, PlaceCounts DEF Outside, Queues
  <1>. QED BY <1>3, <1>4, <1>5, <1>6, <1>7, GroupCounts DEF Total, Inside

\* A number is one process's.
LEMMA OneOfNumber ==
  ASSUME SystemInv, Numbering, Settled, NEW n \in Nat
  PROVE  Total(WithPid(n)) <= 1
  <1>1. Total(Misnumbered) = 0
    BY DEF Settled, Numbers
  <1>2. CASE \A p \in WithPid(n) : p \in Misnumbered
    <2>1. WithPid(n) \subseteq Misnumbered
      BY <1>2
    <2>2. Total(WithPid(n)) <= Total(Misnumbered)
      BY <2>1, TotalMonotonic
    <2>3. Total(WithPid(n)) \in Nat
      BY GroupCounts DEF Total
    <2>. QED BY <1>1, <2>2, <2>3
  <1>3. ASSUME NEW p \in WithPid(n), p \notin Misnumbered PROVE Total(WithPid(n)) <= 1
    <2> DEFINE c == p.client_socket
    <2>1. p \in Pcb /\ c \in Consoles
      BY <1>3 DEF WithPid, Pcb
    <2>2. WithPid(n) \subseteq ProcessOf(c) \cup Misnumbered
      BY <1>3, <2>1, SameNumber DEF WithPid, ProcessOf, Misnumbered
    <2>3. Total(WithPid(n)) <= Total(ProcessOf(c)) + Total(Misnumbered)
      BY <2>2, TotalCover
    <2>4. /\ Total(ProcessOf(c)) + answers[c] = One(receiving[c] = "received")
          /\ answers[c] \in Nat
      BY <2>1, PlaceTypes DEF Settled, Placed
    <2>5. Total(ProcessOf(c)) \in Nat /\ Total(WithPid(n)) \in Nat
      BY GroupCounts DEF Total
    <2>6. One(receiving[c] = "received") <= 1 /\ One(receiving[c] = "received") \in Nat
      BY DEF One
    <2>. QED BY <1>1, <2>3, <2>4, <2>5, <2>6
  <1>. QED BY <1>2, <1>3

\* The entry that is given back is no process's any more, nor is the swap file.
LEMMA ProcessExit_Match ==
  ASSUME SystemInv, SystemInv', IndexedInv, Numbering, Settled, OwnersInv, SwapInv,
         UNCHANGED <<kernelVars, cpuVars>>, ProcessExit
  PROVE  OwnersInv' /\ SwapInv'
  <1> DEFINE m == Head(memory_requests)
             j == m.process_frames_index
  <1>1. /\ memory_requests \in Seq(MemoryRequests) /\ memory_requests # <<>>
        /\ m.header = "PROCESS_EXIT" /\ memory_requests' = Tail(memory_requests)
        /\ processes_frames' = [processes_frames EXCEPT ![j + 1] = {}]
        /\ swap_files' = swap_files \ {m.pid}
        /\ UNCHANGED <<at, hand>>
    BY PlaceTypes DEF ProcessExit, Requested, Reply, DeleteSwap, UnassignProcessFrames, kernelVars
  <1>2. m \in MemoryRequests /\ m.pid \in Nat /\ j \in Nat
    <2>1. m \in MemoryRequests
      BY <1>1
    <2>. QED BY <1>1, <2>1 DEF MemoryRequests
  <1>3. \A S : WithMemory(S)' = WithMemory(S)
    BY Memory_WithMemory DEF MemoryServer
  <1>4. processes_frames \in Seq(SUBSET Frames)
    BY DEF SystemInv, MemoryTypeOK
  <1>5. Fresh' <=> Fresh
    <2>1. m \notin NewRequests
      BY <1>1 DEF NewRequests
    <2>2. Passes(memory_requests, memory_requests', MemoryRequests, NewRequests)
      BY <1>1, <2>1 DEF Passes
    <2>3. Count(memory_requests', NewRequests) = Count(memory_requests, NewRequests)
      BY <1>1, <2>2, CountPasses
    <2>. QED BY <1>1, <2>3, CarriedSets DEF Fresh
  <1>6. ASSUME NEW k \in Nat
        PROVE  /\ Owners(k)' \in Nat /\ Owners(k) = Owners(k)' + One(m \in ExitsOf(k))
    <2> DEFINE w == WithMemory(Made(k))
               e == Count(memory_requests, ExitsOf(k))
               f == One(Fresh /\ k = Newest)
               d == One(m \in ExitsOf(k))
    <2>1. w' = w
      BY <1>3, CarriedSets
    <2>2. e = e' + d /\ e' \in Nat
      <3>1. Tail(memory_requests) \in Seq(MemoryRequests)
        BY <1>1
      <3>2. e = Count(memory_requests', ExitsOf(k)) + d
        BY <1>1, CountTail
      <3>3. Count(memory_requests', ExitsOf(k)) \in Nat
        BY <1>1, <3>1, CountType
      <3>. QED BY <3>2, <3>3, CarriedSets
    <2>3. f' = f
      <3>1. Len(processes_frames') = Len(processes_frames)
        BY <1>1, <1>4
      <3>. QED BY <1>5, <3>1 DEF One, Newest
    <2>4. w \in Nat /\ e \in Nat /\ f \in Nat /\ d \in Nat
      BY OwnerCounts DEF One
    <2>5. Owners(k) = w + e + f /\ Owners(k)' = w' + e' + f'
      BY DEF Owners
    <2>6. Owners(k)' = w + e' + f /\ Owners(k) = w + e + f
      BY <2>1, <2>3, <2>5
    <2>7. /\ Owners(k)' = w + e' + f /\ Owners(k) = w + e + f
          /\ e = e' + d /\ e' \in Nat /\ w \in Nat /\ f \in Nat /\ d \in Nat
      BY <2>2, <2>4, <2>6
    <2>8. \A o1, o2, w1, e1, e2, f1, d1 :
             /\ o2 = w1 + e2 + f1 /\ o1 = w1 + e1 + f1
             /\ e1 = e2 + d1 /\ e2 \in Nat /\ w1 \in Nat /\ f1 \in Nat /\ d1 \in Nat
             => o2 \in Nat /\ o1 = o2 + d1
      OBVIOUS
    <2>. QED BY <2>7, <2>8
  <1>7. OwnersInv'
    <2> SUFFICES ASSUME NEW k \in Nat
                 PROVE  /\ Owners(k)' <= 1
                        /\ k < Len(processes_frames') /\ processes_frames'[k + 1] # {}
                             => Owners(k)' = 1
      BY DEF OwnersInv
    <2>0. Len(processes_frames') = Len(processes_frames)
      BY <1>1, <1>4
    <2>1. CASE k = j
      <3>1. k < Len(processes_frames') => processes_frames'[k + 1] = {}
        BY <1>1, <1>2, <1>4, <2>0, <2>1
      <3>2. Owners(k) <= 1
        BY DEF OwnersInv
      <3>3. One(m \in ExitsOf(k)) \in Nat
        BY DEF One
      <3>4. Owners(k)' <= 1
        BY <1>6, <3>2, <3>3
      <3>. QED BY <3>1, <3>4
    <2>2. CASE k # j
      <3>1. m \notin ExitsOf(k)
        BY <2>2 DEF ExitsOf
      <3>2. Owners(k) = Owners(k)' + 0
        BY <1>6, <3>1 DEF One
      <3>3. Owners(k)' = Owners(k)
        BY <1>6, <3>2
      <3>4. k < Len(processes_frames') => processes_frames'[k + 1] = processes_frames[k + 1]
        BY <1>1, <1>2, <1>4, <2>0, <2>2
      <3>. QED BY <2>0, <3>3, <3>4 DEF OwnersInv
    <2>. QED BY <2>1, <2>2
  <1>8. WithMemory(WithPid(m.pid)) = 0 /\ Unmade(WithPid(m.pid)) = 0
    <2> DEFINE S == WithPid(m.pid)
    <2>1. Leaving(S) > 0
      <3>1. m \in ExitRequests(m.pid)
        BY <1>1, <1>2 DEF ExitRequests
      <3>2. 1 \in DOMAIN memory_requests /\ memory_requests[1] = m
        BY <1>1
      <3>3. Count(memory_requests, ExitRequests(m.pid)) # 0
        BY <1>1, <3>1, <3>2, CountMeans
      <3>4. memory_answers \in Seq(MemoryAnswers)
        BY PlaceTypes
      <3>5. /\ Count(memory_requests, ExitRequests(m.pid)) \in Nat
            /\ Count(memory_answers, ExitAnswers(m.pid)) \in Nat
        BY <1>1, <3>4, CountType
      <3>6. Count(memory_requests, ExitRequests(m.pid)) + Count(memory_answers, ExitAnswers(m.pid))
              = Leaving(S)
        BY <1>2 DEF Settled, ExitsMatch
      <3>. QED BY <3>3, <3>5, <3>6
    <2>2. Total(S) <= 1
      BY <1>2, OneOfNumber
    <2>3. MemorySplits
      BY MemorySplit
    <2>4. /\ WithMemory(S) \in Nat /\ Unmade(S) \in Nat
          /\ WithMemory(S) + Unmade(S) = Inside(S) + InIo(S) + Outside(S)
      BY <2>3 DEF MemorySplits
    <2>5. /\ Inside(S) \in Nat /\ InIo(S) \in Nat /\ Leaving(S) \in Nat /\ Outside(S) \in Nat
          /\ Total(S) = Inside(S) + InIo(S) + Leaving(S) + Outside(S)
      BY GroupCounts DEF Total
    <2> HIDE DEF S
    <2>6. WithMemory(S) = 0 /\ Unmade(S) = 0
      BY <2>1, <2>2, <2>4, <2>5
    <2>. QED BY <2>6 DEF S
  <1>9. Fresh => hand["to_ready"].pid # m.pid
    <2> SUFFICES ASSUME Fresh, hand["to_ready"].pid = m.pid PROVE FALSE
      OBVIOUS
    <2>1. at["to_ready"] = "pcb_table_ready" /\ hand["to_ready"] \in Pcb /\ "to_ready" \in Holders
      BY PlaceTypes DEF Fresh, HandsFull, Holders, Planners
    <2>2. hand["to_ready"] \in WithPid(m.pid)
      BY <2>1 DEF WithPid
    <2>3. Count(Held("to_ready"), WithPid(m.pid)) = 1
      BY <2>1, <2>2, SinglePlaces, CarriedSets DEF One
    <2>4. Count(queue["new_q"], WithPid(m.pid)) \in Nat
      BY PlaceCounts
    <2>. QED BY <1>8, <2>1, <2>3, <2>4 DEF Unmade
  <1>10. SwapInv'
    <2>1. \A n \in Nat : WithMemory(WithPid(n))' = WithMemory(WithPid(n))
      BY <1>3, CarriedSets
    <2>2. ASSUME NEW n \in Nat, n \notin swap_files' PROVE WithMemory(WithPid(n))' = 0
      BY <1>1, <1>8, <2>1, <2>2 DEF SwapInv
    <2>3. Fresh' => hand'["to_ready"].pid \in swap_files'
      BY <1>1, <1>5, <1>9 DEF SwapInv
    <2>. QED BY <2>2, <2>3 DEF SwapInv
  <1>. QED BY <1>7, <1>10

\* Every other step of the kernel.
LEMMA Kernel_MatchKept ==
  ASSUME SystemInv, SystemInv', HandsEmpty, AdmissionInv, OwnersInv, SwapInv,
         UNCHANGED <<cpuVars, memoryVars>>,
         \/ \E c \in Consoles : ReceiveProcess(c)
         \/ ToReady_Any \/ ToReady_Admit \/ NewToReady_Send \/ NewToReady_Put
         \/ PutToReady("to_ready") \/ PutToReady_Resume("to_ready")
         \/ ToExec \/ IoListener \/ ExitProcess_Put \/ CpuDispatchListener \/ MemoryListener
  PROVE  OwnersInv' /\ SwapInv'
  <1> DEFINE exits == UNION {ExitsOf(k) : k \in Nat}
  <1>0. /\ at \in [Threads -> Locations] /\ hand \in [Holders -> Pcb \cup {NoPcb}] /\ HandsFull
        /\ memory_requests \in Seq(MemoryRequests)
    BY PlaceTypes
  <1>1. \A S : Carried(S) => WithMemory(S)' = WithMemory(S)
    BY Kernel_WithMemory
  <1>2. UNCHANGED <<processes_frames, swap_files>>
    BY DEF memoryVars
  <1>3. \A m : m.header # "PROCESS_EXIT" => m \notin exits
    BY DEF ExitsOf
  <1>4. UNCHANGED memory_requests =>
          /\ Passes(memory_requests, memory_requests', MemoryRequests, exits)
          /\ Passes(memory_requests, memory_requests', MemoryRequests, NewRequests)
    BY DEF Passes
  <1> HIDE DEF exits
  <1>5. ASSUME Passes(memory_requests, memory_requests', MemoryRequests, NewRequests)
        PROVE  Count(memory_requests, NewRequests)' = Count(memory_requests, NewRequests)
    <2>1. Count(memory_requests', NewRequests) = Count(memory_requests, NewRequests)
      BY <1>0, <1>5, CountPasses
    <2>. QED BY <2>1, CarriedSets
  <1>6. CASE NewToReady_Send
    <2> DEFINE p == hand["to_ready"]
               m == [header |-> "PROCESS_NEW", pid |-> p.pid, size |-> Size[p.client_socket]]
    <2>1. /\ at["to_ready"] = "PROCESS_NEW" /\ at'["to_ready"] = "memory_init_q"
          /\ memory_requests' = Append(memory_requests, m)
      BY <1>0, <1>6 DEF NewToReady_Send, Threads, Holders, Planners
    <2>2. m \in MemoryRequests /\ m.header = "PROCESS_NEW"
      <3>1. p \in Pcb
        BY <1>0, <2>1 DEF HandsFull
      <3>2. p.pid \in Nat /\ Size[p.client_socket] \in Nat
        BY <3>1, SizeAssumption DEF Pcb
      <3>. QED BY <3>2 DEF MemoryRequests
    <2>3. m \notin exits
      BY <1>3, <2>2
    <2> HIDE DEF m
    <2>4. Passes(memory_requests, memory_requests', MemoryRequests, exits)
      BY <2>1, <2>2, <2>3 DEF Passes
    <2>5. ~Fresh /\ ~Fresh'
      BY <2>1 DEF Fresh
    <2>. QED BY <1>1, <1>2, <2>4, <2>5, MatchKept DEF exits
  <1>7. CASE NewToReady_Put
    <2>1. at["to_ready"] = "memory_init_q" /\ UNCHANGED memory_requests
      BY <1>7 DEF NewToReady_Put, socketVars
    <2>2. Count(memory_requests, NewRequests) = 1
      BY <2>1 DEF AdmissionInv, OneRequest
    <2>3. ~Fresh /\ ~Fresh'
      BY <1>4, <1>5, <2>1, <2>2 DEF Fresh
    <2>. QED BY <1>1, <1>2, <1>4, <2>1, <2>3, MatchKept DEF exits
  <1>8. CASE ToReady_Any \/ ToReady_Admit \/ PutToReady("to_ready") \/ PutToReady_Resume("to_ready")
    <2>1. UNCHANGED memory_requests /\ at["to_ready"] # "pcb_table_ready"
      BY <1>8 DEF ToReady_Any, ToReady_Admit, PutToReady, PutToReady_Resume, socketVars
    <2>2. at'["to_ready"] # "pcb_table_ready"
      BY <1>0, <1>8 DEF ToReady_Any, ToReady_Admit, Admit, PutToReady, PutToReady_Fifo,
         PutToReady_Replan, PutToReady_Interrupt, PutToReady_Resume, LoopStart, Threads, Holders,
         Planners
    <2>3. ~Fresh /\ ~Fresh'
      BY <2>1, <2>2 DEF Fresh
    <2>. QED BY <1>1, <1>2, <1>4, <2>1, <2>3, MatchKept DEF exits
  <1>9. CASE \/ \E c \in Consoles : ReceiveProcess(c)
             \/ ToExec \/ CpuDispatchListener \/ SuspensionSuccess \/ ExitProcessSuccess
             \/ ExitProcess_Put \/ TableIndexSuccess
    <2>1. at'["to_ready"] = at["to_ready"] /\ UNCHANGED memory_requests
      BY <1>0, <1>9 DEF ReceiveProcess, ReceiveProcess_Read, ReceiveProcess_Write,
         ReceiveProcess_Put, ToExec, ToExec_Ready, ToExec_Cpu, ToExec_Dispatch,
         CpuDispatchListener, IoOp, ExitOp, HandleInterruption, SuspensionSuccess,
         ExitProcessSuccess, ExitProcess_Put, TableIndexSuccess, Threads, Holders, Planners,
         socketVars
    <2>2. Fresh' <=> Fresh
      BY <1>4, <1>5, <2>1 DEF Fresh
    <2>3. Fresh => hand'["to_ready"].pid = hand["to_ready"].pid
      <3>1. CASE TableIndexSuccess
        <4>1. Fresh => hand["to_ready"] \in Pcb
          BY <1>0 DEF Fresh, HandsFull
        <4>2. CASE hand' = hand
          BY <4>2
        <4>3. CASE \E t, i : hand' = [hand EXCEPT !["to_ready"] =
                                 [@ EXCEPT !.page_table = t, !.process_frames_index = i]]
          <5>1. PICK t, i : hand' = [hand EXCEPT !["to_ready"] =
                               [@ EXCEPT !.page_table = t, !.process_frames_index = i]]
            BY <4>3
          <5>2. "to_ready" \in DOMAIN hand
            BY <1>0 DEF Holders, Planners
          <5>3. hand'["to_ready"] = [hand["to_ready"] EXCEPT !.page_table = t,
                                                            !.process_frames_index = i]
            BY <5>1, <5>2
          <5>4. \A p \in Pcb : [p EXCEPT !.page_table = t, !.process_frames_index = i].pid = p.pid
            BY DEF Pcb
          <5>. QED BY <4>1, <5>3, <5>4
        <4>4. \/ hand' = hand
              \/ \E t, i : hand' = [hand EXCEPT !["to_ready"] =
                               [@ EXCEPT !.page_table = t, !.process_frames_index = i]]
          BY <3>1, Zenon DEF TableIndexSuccess
        <4>. QED BY <4>2, <4>3, <4>4
      <3>2. CASE \/ \E c \in Consoles : ReceiveProcess(c)
                 \/ ToExec \/ CpuDispatchListener \/ SuspensionSuccess \/ ExitProcessSuccess
                 \/ ExitProcess_Put
        <4>1. hand'["to_ready"] = hand["to_ready"]
          BY <1>0, <3>2 DEF ReceiveProcess, ReceiveProcess_Read, ReceiveProcess_Write,
             ReceiveProcess_Put, ToExec, ToExec_Ready, ToExec_Cpu, ToExec_Dispatch,
             CpuDispatchListener, IoOp, ExitOp, HandleInterruption, SuspensionSuccess,
             ExitProcessSuccess, ExitProcess_Put, Holders, Planners
        <4>. QED BY <4>1
      <3>. QED BY <1>9, <3>1, <3>2
    <2>. QED BY <1>1, <1>2, <1>4, <2>1, <2>2, <2>3, MatchKept DEF exits
  <1>10. CASE IoListener
    <2>1. at'["to_ready"] = at["to_ready"] /\ hand'["to_ready"] = hand["to_ready"]
      BY <1>0, <1>10 DEF IoListener, IoListener_Fits, IoListener_Exceeds, IoListener_Suspended,
         IoListener_Take, IoListener_Suspend, IoListener_Wait, IoListener_Finish, PutToReady,
         PutToReady_Fifo, PutToReady_Replan, PutToReady_Interrupt, PutToReady_Resume,
         Threads, Holders, Planners
    <2>2. Passes(memory_requests, memory_requests', MemoryRequests, NewRequests)
      BY <1>10, OtherRequestsPass
    <2>3. Fresh' <=> Fresh
      BY <1>5, <2>1, <2>2 DEF Fresh
    <2>4. Passes(memory_requests, memory_requests', MemoryRequests, exits)
      <3>1. CASE IoListener_Suspend
        <4> DEFINE p == hand["io_listener"]
                   m == [header |-> "PROCESS_SUSPEND", pid |-> p.pid, page_table |-> p.page_table,
                         process_frames_index |-> p.process_frames_index]
        <4>1. p \in Pcb /\ memory_requests' = Append(memory_requests, m)
          BY <1>0, <3>1 DEF IoListener_Suspend, HandsFull
        <4>2. m \in MemoryRequests /\ m.header = "PROCESS_SUSPEND"
          BY <4>1 DEF Pcb, MemoryRequests
        <4>3. m \notin exits
          BY <1>3, <4>2
        <4> HIDE DEF m
        <4>. QED BY <4>1, <4>2, <4>3 DEF Passes
      <3>2. CASE UNCHANGED memory_requests
        BY <1>4, <3>2
      <3>. QED BY <1>10, <3>1, <3>2 DEF IoListener, IoListener_Fits, IoListener_Exceeds,
           IoListener_Suspended, IoListener_Take, IoListener_Wait, IoListener_Finish, PutToReady,
           PutToReady_Resume, socketVars
    <2>. QED BY <1>1, <1>2, <2>1, <2>3, <2>4, MatchKept DEF exits
  <1>. QED BY <1>6, <1>7, <1>8, <1>9, <1>10 DEF MemoryListener

\* Suspending a process changes none of its entries.
LEMMA ProcessSuspend_Match ==
  ASSUME SystemInv, OwnersInv, SwapInv, UNCHANGED <<kernelVars, cpuVars>>,
         ProcessSuspend \/ ProcessSuspend_Crash
  PROVE  OwnersInv' /\ SwapInv'
  <1> DEFINE exits == UNION {ExitsOf(k) : k \in Nat}
  <1>1. \A S : WithMemory(S)' = WithMemory(S)
    BY Memory_WithMemory DEF MemoryServer
  <1>2. UNCHANGED <<processes_frames, swap_files, at, hand>>
    BY DEF ProcessSuspend, ProcessSuspend_Crash, memoryVars, kernelVars
  <1>3. \A m : m.header = "PROCESS_SUSPEND" => m \notin exits /\ m \notin NewRequests
    BY DEF ExitsOf, NewRequests
  <1> HIDE DEF exits
  <1>4. /\ Passes(memory_requests, memory_requests', MemoryRequests, exits)
        /\ Passes(memory_requests, memory_requests', MemoryRequests, NewRequests)
    BY <1>3 DEF ProcessSuspend, ProcessSuspend_Crash, Requested, Reply, Passes, socketVars
  <1>5. memory_requests \in Seq(MemoryRequests)
    BY PlaceTypes
  <1>6. Count(memory_requests', NewRequests) = Count(memory_requests, NewRequests)
    BY <1>4, <1>5, CountPasses
  <1>7. Fresh' <=> Fresh
    BY <1>2, <1>6, CarriedSets DEF Fresh
  <1>. QED BY <1>1, <1>2, <1>4, <1>7, MatchKept DEF exits

\* The inductive step.
LEMMA MatchInductive ==
  ASSUME SlowMemory
  PROVE  SystemInv /\ SystemInv' /\ ExecutionInv /\ PlaceInv /\ IndexedInv /\ MatchInv
           /\ [Next]_vars => MatchInv'
  <1> SUFFICES ASSUME SystemInv, SystemInv', ExecutionInv, PlaceInv, IndexedInv, MatchInv,
                      [Next]_vars
               PROVE  MatchInv'
    OBVIOUS
  <1>1. AdmissionInv'
    BY AdmissionInductive DEF MatchInv
  <1>2. ASSUME cycle' # "cpu_bussy" PROVE OwnersInv' /\ SwapInv'
    <2>1. cycle # "cpu_bussy"
      BY <1>2, StaysBlocked DEF vars, cpuVars
    <2>2. AdmissionInv /\ OwnersInv /\ SwapInv /\ Numbering /\ HandsEmpty /\ Settled
      BY <2>1 DEF MatchInv, PlaceInv
    <2>3. CASE UNCHANGED vars
      <3>1. /\ UNCHANGED <<at, hand, queue, cpu_pcb, pcb_loaded, cpu_bussy, dispatch, returns>>
            /\ UNCHANGED <<memory_requests, processes_frames, swap_files>>
        BY <2>3 DEF vars, kernelVars, memoryVars, cpuVars, socketVars
      <3>2. \A S : WithMemory(S)' = WithMemory(S)
        BY <3>1, WithMemorySame
      <3>3. Fresh' <=> Fresh
        BY <3>1, CarriedSets DEF Fresh
      <3>. QED BY <2>2, <3>1, <3>2, <3>3, MatchKept DEF Passes
    <2>4. CASE /\ UNCHANGED <<cpuVars, memoryVars>>
               /\ \/ \E c \in Consoles : ReceiveProcess(c)
                  \/ ToReady \/ ToExec \/ IoListener \/ ExitProcess
                  \/ CpuDispatchListener \/ MemoryListener
      BY <2>2, <2>4, Kernel_MatchKept, NewToReady_Ready_Match, ExitProcess_Send_Match
         DEF ToReady, ExitProcess
    <2>5. CASE /\ UNCHANGED <<kernelVars, memoryVars>>
               /\ ReceivePcb \/ ReceiveInterruption \/ CpuCycle
      <3>1. \A S : Carried(S) => WithMemory(S)' = WithMemory(S)
        BY <1>2, <2>1, <2>5, Cpu_WithMemory
      <3>2. UNCHANGED <<at, hand, processes_frames, swap_files>>
        BY <2>5 DEF kernelVars, memoryVars
      <3>3. UNCHANGED memory_requests
        BY <2>5 DEF ReceivePcb, ReceiveInterruption, CpuCycle, CycleStart, CycleEnd, ExecuteNoOp,
           ExecuteIo, ExecuteExit, ExecuteMemoryOp, Mmu, NoInterruption, Evict, EvictGone,
           FetchAndDecode, socketVars
      <3>4. Fresh' <=> Fresh
        BY <3>2, <3>3, CarriedSets DEF Fresh
      <3>. QED BY <2>2, <3>1, <3>2, <3>3, <3>4, MatchKept DEF Passes
    <2>6. CASE MemoryStep(MemoryServer)
      BY <2>2, <2>6, ProcessNew_Match, ProcessSuspend_Match, ProcessExit_Match
         DEF MemoryStep, MemoryServer
    <2>. QED BY <2>3, <2>4, <2>5, <2>6 DEF Next, KernelStep, CpuStep, Idle
  <1>. QED BY <1>1, <1>2 DEF MatchInv

\* No process, no entry.
LEMMA MatchInitially == Init => MatchInv
  <1> SUFFICES ASSUME Init PROVE MatchInv
    OBVIOUS
  <1>0. SystemInv
    BY Initially
  <1>1. /\ \A q \in Queues : queue[q] = <<>>
        /\ dispatch = <<>> /\ returns = <<>> /\ memory_requests = <<>> /\ memory_answers = <<>>
        /\ pcb_loaded = 0 /\ cpu_bussy = 0 /\ processes_frames = <<>>
    BY DEF Init, KernelInit, SocketsInit, CpuInit, MemoryInit
  <1>2. /\ hand["io_listener"] = NoPcb /\ at["to_ready"] = "any_for_ready"
        /\ sem["pcb_table_ready"] = 0
    BY DEF Init, KernelInit, Holders, Planners, Threads, Semaphores
  <1>3. \A S : Count(memory_requests, S) = 0 /\ Count(memory_answers, S) = 0
    BY <1>1, CountEmpty
  <1>4. AdmissionInv
    BY <1>2, <1>3 DEF AdmissionInv, OneRequest, NoStrays, HandNames, Asking, One
  <1>5. \A S : WithMemory(S) = 0
    <2> SUFFICES ASSUME NEW S PROVE WithMemory(S) = 0
      OBVIOUS
    <2>1. /\ Count(queue["ready_q"], S) = 0 /\ Count(queue["suspended_block_q"], S) = 0
          /\ Count(queue["suspended_ready_q"], S) = 0 /\ Count(queue["blocked_q"], S) = 0
          /\ Count(queue["exit_q"], S) = 0 /\ Count(dispatch, S) = 0
      BY <1>1, CountEmpty DEF Queues
    <2>2. Returning = <<>>
      BY <1>1 DEF Returning
    <2>3. InCpu = <<>> /\ Held("io_listener") = <<>>
      BY <1>1, <1>2 DEF InCpu, Held
    <2>4. Count(Returning, S) = 0 /\ Count(InCpu, S) = 0 /\ Count(Held("io_listener"), S) = 0
      BY <2>2, <2>3, CountEmpty
    <2>. QED BY <1>2, <2>1, <2>4 DEF WithMemory, InAdmission, InExec, Queued, InIo
  <1>6. ~Fresh
    BY <1>2 DEF Fresh
  <1>7. OwnersInv
    BY <1>1, <1>3, <1>5, <1>6 DEF OwnersInv, Owners, One
  <1>8. SwapInv
    BY <1>5, <1>6 DEF SwapInv
  <1>. QED BY <1>4, <1>7, <1>8 DEF MatchInv

\* The list of the processes with memory, counted.
LEMMA LoadedCount ==
  ASSUME SystemInv, NEW S
  PROVE  Loaded \in Seq(Pcb) /\ Count(Loaded, S) = WithMemory(S)
  <1> DEFINE first == IF at["to_ready"] = "put_to_ready" THEN Held("to_ready") ELSE <<>>
             s1 == first \o queue["ready_q"]
             s2 == s1 \o Executing
             s3 == s2 \o queue["blocked_q"]
             s4 == s3 \o Held("io_listener")
             s5 == s4 \o queue["suspended_block_q"]
             s6 == s5 \o queue["suspended_ready_q"]
  <1>1. /\ Held("to_ready") \in Seq(Pcb) /\ Held("io_listener") \in Seq(Pcb)
        /\ queue["ready_q"] \in Seq(Pcb) /\ queue["blocked_q"] \in Seq(Pcb)
        /\ queue["suspended_block_q"] \in Seq(Pcb) /\ queue["suspended_ready_q"] \in Seq(Pcb)
        /\ queue["exit_q"] \in Seq(Pcb) /\ Executing \in Seq(Pcb)
    BY PlaceTypes, ExecutingCount DEF Holders, Planners, Queues
  <1>2. first \in Seq(Pcb) /\ Count(first, S) = InAdmission(S)
    BY <1>1, CountEmpty DEF InAdmission
  <1>3. Loaded = s6 \o queue["exit_q"]
    BY DEF Loaded
  <1> HIDE DEF first
  <1>11. s1 \in Seq(Pcb) /\ Count(s1, S) = Count(first, S) + Count(queue["ready_q"], S)
    BY <1>1, <1>2, CountConcat
  <1>12. s2 \in Seq(Pcb) /\ Count(s2, S) = Count(s1, S) + InExec(S)
    <2> HIDE DEF s1
    <2>. QED BY <1>1, <1>11, CountConcat, ExecutingCount
  <1>13. s3 \in Seq(Pcb) /\ Count(s3, S) = Count(s2, S) + Count(queue["blocked_q"], S)
    <2> HIDE DEF s2
    <2>. QED BY <1>1, <1>12, CountConcat
  <1>14. s4 \in Seq(Pcb) /\ Count(s4, S) = Count(s3, S) + InIo(S)
    <2> HIDE DEF s3
    <2>. QED BY <1>1, <1>13, CountConcat DEF InIo
  <1>15. s5 \in Seq(Pcb) /\ Count(s5, S) = Count(s4, S) + Count(queue["suspended_block_q"], S)
    <2> HIDE DEF s4
    <2>. QED BY <1>1, <1>14, CountConcat
  <1>16. s6 \in Seq(Pcb) /\ Count(s6, S) = Count(s5, S) + Count(queue["suspended_ready_q"], S)
    <2> HIDE DEF s5
    <2>. QED BY <1>1, <1>15, CountConcat
  <1>17. /\ s6 \o queue["exit_q"] \in Seq(Pcb)
         /\ Count(s6 \o queue["exit_q"], S) = Count(s6, S) + Count(queue["exit_q"], S)
    <2> HIDE DEF s6
    <2>. QED BY <1>1, <1>16, CountConcat
  <1> HIDE DEF s1, s2, s3, s4, s5, s6
  <1>18. /\ Count(s4, S) \in Nat /\ Count(s6, S) \in Nat /\ InAdmission(S) \in Nat
    BY <1>2, <1>14, <1>16, CountType
  <1>19. /\ Count(queue["ready_q"], S) \in Nat /\ Count(queue["blocked_q"], S) \in Nat
         /\ Count(queue["suspended_block_q"], S) \in Nat
         /\ Count(queue["suspended_ready_q"], S) \in Nat /\ Count(queue["exit_q"], S) \in Nat
    BY PlaceCounts
  <1>20. InExec(S) \in Nat /\ InIo(S) \in Nat
    BY GroupCounts
  <1>21. Count(s4, S) = InAdmission(S) + Count(queue["ready_q"], S) + InExec(S)
                          + Count(queue["blocked_q"], S) + InIo(S)
    BY <1>2, <1>11, <1>12, <1>13, <1>14
  <1>22. Count(Loaded, S) = Count(s4, S) + Count(queue["suspended_block_q"], S)
                              + Count(queue["suspended_ready_q"], S) + Count(queue["exit_q"], S)
    BY <1>3, <1>15, <1>16, <1>17
  <1>23. WithMemory(S) = InAdmission(S) + Count(queue["ready_q"], S) + InExec(S)
           + (Count(queue["blocked_q"], S) + Count(queue["exit_q"], S)) + InIo(S)
           + Count(queue["suspended_block_q"], S) + Count(queue["suspended_ready_q"], S)
    BY DEF WithMemory, Queued
  <1>24. Count(Loaded, S) = WithMemory(S)
    BY <1>18, <1>19, <1>20, <1>21, <1>22, <1>23
  <1>. QED BY <1>3, <1>17, <1>24

\* MatchInv is an invariant when consoles do not connect at the same time and the
\* memory server's delay outlasts the put.
THEOREM MatchInvCorrect ==
  ASSUME SlowMemory, ~OverlapConsoles
  PROVE  Spec => []MatchInv
  <1>1. SystemInv /\ SystemInv' /\ ExecutionInv /\ PlaceInv /\ IndexedInv /\ MatchInv
          /\ [Next]_vars => MatchInv'
    BY MatchInductive
  <1>2. Spec => []PlaceInv
    BY PlaceInvCorrect
  <1>. QED BY <1>1, <1>2, MatchInitially, InvariantCorrect, ExecutionCorrect, IndicesCorrect, PTL
       DEF Spec

\* The kernel and the memory server agree on who has memory: a process that can run or
\* wait has entries and a swap file of its own, and frames are held only for processes
\* that have not left.  Always under FIFO, and under SRT until check_interruption
\* evicts a process that had already left.
THEOREM MemoryMatchesCorrect ==
  ASSUME SlowMemory, ~OverlapConsoles
  PROVE  Spec => [](Algorithm = "FIFO" \/ cycle # "cpu_bussy" => MemoryMatchesProcesses)
  <1>1. SystemInv /\ ExecutionInv /\ IndexedInv /\ MatchInv
          => (Algorithm = "FIFO" \/ cycle # "cpu_bussy" => MemoryMatchesProcesses)
    <2> SUFFICES ASSUME SystemInv, ExecutionInv, IndexedInv, MatchInv,
                        Algorithm = "FIFO" \/ cycle # "cpu_bussy"
                 PROVE  MemoryMatchesProcesses
      OBVIOUS
    <2>1. OwnersInv /\ SwapInv
      BY DEF MatchInv, ExecutionInv, FifoUninterrupted
    <2>2. Loaded \in Seq(Pcb) /\ \A S : Count(Loaded, S) = WithMemory(S)
      BY LoadedCount
    <2>3. ASSUME NEW i \in DOMAIN Loaded
          PROVE  /\ Loaded[i].process_frames_index < Len(processes_frames)
                 /\ Loaded[i].page_table < Len(level1_tables)
                 /\ Loaded[i].pid \in swap_files
                 /\ \A j \in DOMAIN Loaded \ {i} :
                      Loaded[i].process_frames_index # Loaded[j].process_frames_index
      <3> DEFINE p == Loaded[i]
                 k == p.process_frames_index
      <3>1. p \in Pcb /\ k \in Nat /\ p.pid \in Nat
        <4>1. p \in Pcb
          BY <2>2, <2>3
        <4>. QED BY <4>1 DEF Pcb
      <3>2. p \in IndexedPcb
        <4>1. WithMemory(Pcb \ IndexedPcb) = 0
          BY IndexedWithMemory
        <4>2. Count(Loaded, Pcb \ IndexedPcb) = 0
          BY <2>2, <4>1
        <4>3. p \notin Pcb \ IndexedPcb
          BY <2>2, <2>3, <4>2, CountMeans
        <4>. QED BY <3>1, <4>3
      <3>3. p.pid \in swap_files
        <4>1. p \in WithPid(p.pid)
          BY <3>1 DEF WithPid
        <4>2. Count(Loaded, WithPid(p.pid)) # 0
          BY <2>2, <2>3, <4>1, CountMeans
        <4>. QED BY <2>1, <2>2, <3>1, <4>2 DEF SwapInv
      <3>4. ASSUME NEW j \in DOMAIN Loaded \ {i} PROVE k # Loaded[j].process_frames_index
        <4> SUFFICES ASSUME k = Loaded[j].process_frames_index PROVE FALSE
          OBVIOUS
        <4>1. Loaded[j] \in Made(k) /\ p \in Made(k)
          BY <2>2, <3>1, <3>4 DEF Made
        <4>2. Owners(k) <= 1
          BY <2>1, <3>1 DEF OwnersInv
        <4>3. WithMemory(Made(k)) <= 1
          BY <4>2, OwnerCounts DEF Owners
        <4>4. Count(Loaded, Made(k)) <= 1
          BY <2>2, <4>3
        <4>. QED BY <2>2, <2>3, <3>4, <4>1, <4>4, CountMeans
      <3>. QED BY <3>2, <3>3, <3>4 DEF IndexedPcb, InRange
    <2>4. ASSUME NEW k \in DOMAIN processes_frames, processes_frames[k] # {}
          PROVE  \/ \E p \in Elements(Loaded) : p.process_frames_index = k - 1
                 \/ \E r \in Elements(memory_requests) :
                      r.header = "PROCESS_EXIT" /\ r.process_frames_index = k - 1
                 \/ /\ k = Len(processes_frames)
                    /\ at["to_ready"] \in {"memory_init_q", "pcb_table_ready"}
      <3> DEFINE j == k - 1
      <3>1. k \in 1 .. Len(processes_frames) /\ Len(processes_frames) \in Nat
        BY <2>4 DEF SystemInv, MemoryTypeOK
      <3>2. j \in Nat /\ j < Len(processes_frames) /\ j + 1 = k
        BY <3>1
      <3>3. Owners(j) = 1
        <4> HIDE DEF j
        <4>. QED BY <2>1, <2>4, <3>2 DEF OwnersInv
      <3>4. \/ WithMemory(Made(j)) # 0 \/ Count(memory_requests, ExitsOf(j)) # 0
            \/ One(Fresh /\ j = Newest) # 0
        BY <3>3 DEF Owners
      <3>5. CASE WithMemory(Made(j)) # 0
        <4>1. Count(Loaded, Made(j)) # 0
          BY <2>2, <3>5
        <4>2. PICK i \in DOMAIN Loaded : Loaded[i] \in Made(j)
          BY <2>2, <4>1, CountMeans
        <4>. QED BY <4>2 DEF Made, Elements
      <3>6. CASE Count(memory_requests, ExitsOf(j)) # 0
        <4>1. memory_requests \in Seq(MemoryRequests)
          BY PlaceTypes
        <4>2. PICK i \in DOMAIN memory_requests : memory_requests[i] \in ExitsOf(j)
          BY <3>6, <4>1, CountMeans
        <4>. QED BY <4>2 DEF ExitsOf, Elements
      <3>7. CASE One(Fresh /\ j = Newest) # 0
        <4>1. Fresh /\ j = Newest
          BY <3>7 DEF One
        <4>. QED BY <3>1, <4>1 DEF Fresh, Newest
      <3>. QED BY <3>4, <3>5, <3>6, <3>7
    <2>. QED BY <2>3, <2>4 DEF MemoryMatchesProcesses, LoadedHaveMemory, FramesHaveOwner
  <1>2. Spec => []MatchInv
    BY MatchInvCorrect
  <1>. QED BY <1>1, <1>2, InvariantCorrect, ExecutionCorrect, IndicesCorrect, PTL

=============================================================================
