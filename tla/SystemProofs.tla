---------------------------- MODULE SystemProofs ----------------------------
(***************************************************************************)
(* The inductive invariant of the three programs together and the theorems *)
(* that follow from it, for every value of the constants.                  *)
(*                                                                         *)
(* Types alone are not inductive: put_to_ready appends what the thread     *)
(* holds, so HandsFull says that it holds a pcb there, and                 *)
(* table_index_success writes through the pcb that to_ready holds, so      *)
(* OneAdmission says that to_ready waits whenever a pcb is in              *)
(* memory_init_q.  SemaphoresMatchQueues is part of the invariant itself:  *)
(* it is what makes to_ready find a process after its two waits.           *)
(*                                                                         *)
(* The counting facts are all of one form, sem + permits held = Len, and   *)
(* every action changes both sides alike.                                  *)
(*                                                                         *)
(* The second half is about the CPU and the planners: there is one process *)
(* in the CPU, no interrupt is lost or made up, and SRT dispatches the     *)
(* shortest process.                                                       *)
(***************************************************************************)
EXTENDS System, FiniteSetTheorems, TLAPS

\* The kernel's part of the invariant.
KernelInv ==
    KernelTypeOK /\ SocketsTypeOK /\ HandsFull /\ OneAdmission /\ SemaphoresMatchQueues

\* The CPU's variables have their types, and a cycle that runs has a pcb.
CpuInv == CpuTypeOK /\ CpuLoaded

SystemInv == KernelInv /\ CpuInv /\ MemoryTypeOK

-----------------------------------------------------------------------------
(* Queues, packets and pcbs. *)

\* pQueue_put: the queue grows by one pcb and the others stay as they are.
LEMMA PutLemma ==
  ASSUME QueuesOK, NEW q \in Queues, NEW p \in Pcb,
         queue' = [queue EXCEPT ![q] = Append(@, p)]
  PROVE  /\ QueuesOK'
         /\ Len(queue'[q]) = Len(queue[q]) + 1
         /\ \A r \in Queues \ {q} : queue'[r] = queue[r]
  BY DEF QueuesOK

\* pQueue_take on a queue that is not empty: a pcb comes out, one less is left.
LEMMA TakeLemma ==
  ASSUME QueuesOK, NEW q \in Queues, queue[q] # <<>>
  PROVE  /\ Head(queue[q]) \in Pcb
         /\ Tail(queue[q]) \in Seq(Pcb)
         /\ Len(Tail(queue[q])) = Len(queue[q]) - 1
  BY DEF QueuesOK

\* pQueue_sort(ready_q, SJF_sort) neither loses nor adds a pcb.
LEMMA SortLemma ==
  ASSUME NEW T, NEW s \in Seq(T), NEW r \in SortsOf(s)
  PROVE  r \in Seq(T) /\ Len(r) = Len(s)
  <1>1. PICK f \in Permutation(DOMAIN s) : r = [i \in DOMAIN s |-> s[f[i]]]
    BY DEF SortsOf
  <1>2. DOMAIN s = 1 .. Len(s) /\ Len(s) \in Nat
    OBVIOUS
  <1>3. f \in [DOMAIN s -> DOMAIN s]
    BY <1>1 DEF Permutation
  <1>4. \A i \in 1 .. Len(s) : f[i] \in 1 .. Len(s)
    BY <1>2, <1>3
  <1>. QED BY <1>1, <1>2, <1>4

\* packet_handler on the dispatch connection: the oldest packet carries a pcb.
LEMMA ReturnLemma ==
  ASSUME SocketsTypeOK, returns # <<>>
  PROVE  Head(returns).pcb \in Pcb /\ Tail(returns) \in Seq(Returns)
  <1>1. Head(returns) \in Returns /\ Tail(returns) \in Seq(Returns)
    BY DEF SocketsTypeOK
  <1>. QED BY <1>1 DEF Returns

\* io_op and handle_interruption store a new estimate in the pcb.
LEMMA EstimateLemma ==
  ASSUME NEW p \in Pcb, NEW e \in Estimates
  PROVE  [p EXCEPT !.left_burst_estimation = e] \in Pcb
  BY DEF Pcb

\* table_index_success stores the two indices the memory server gave in the pcb.
LEMMA TableLemma ==
  ASSUME NEW p \in Pcb, NEW i \in Nat, NEW j \in Nat
  PROVE  [p EXCEPT !.page_table = i, !.process_frames_index = j] \in Pcb
  BY DEF Pcb

\* The kernel's queues by name.
LEMMA QueueNames ==
  /\ "new_q" \in Queues /\ "ready_q" \in Queues /\ "memory_init_q" \in Queues
  /\ "blocked_q" \in Queues /\ "suspended_block_q" \in Queues
  /\ "suspended_ready_q" \in Queues /\ "exit_q" \in Queues
  BY DEF Queues

\* What the counting argument adds up, all natural numbers.
LEMMA Counts ==
  ASSUME KernelInv
  PROVE  /\ \A q \in Queues : Len(queue[q]) \in Nat /\ (queue[q] = <<>> <=> Len(queue[q]) = 0)
         /\ \A s \in Semaphores : sem[s] \in Nat
         /\ \A t \in Threads : at[t] \in Locations
         /\ \A b \in BOOLEAN : One(b) \in 0 .. 1
         /\ Len(queue["new_q"]) \in Nat /\ Len(queue["suspended_ready_q"]) \in Nat
         /\ Len(queue["ready_q"]) \in Nat /\ Len(queue["memory_init_q"]) \in Nat
         /\ sem["any_for_ready"] \in Nat /\ sem["ready_for_exec"] \in Nat
         /\ sem["pcb_table_ready"] \in Nat
         /\ One(at["to_ready"] = "sem_multiprogram") \in Nat
  <1>1. \A q \in Queues : Len(queue[q]) \in Nat /\ (queue[q] = <<>> <=> Len(queue[q]) = 0)
    BY DEF KernelInv, KernelTypeOK, QueuesOK
  <1>2. \A s \in Semaphores : sem[s] \in Nat
    BY DEF KernelInv, KernelTypeOK, SemaphoresOK
  <1>3. \A t \in Threads : at[t] \in Locations
    BY DEF KernelInv, KernelTypeOK, LocationsOK
  <1>4. \A b \in BOOLEAN : One(b) \in 0 .. 1
    BY DEF One
  <1>5. One(at["to_ready"] = "sem_multiprogram") \in Nat
    BY DEF One
  <1>. QED BY <1>1, <1>2, <1>3, <1>4, <1>5, QueueNames DEF Semaphores

\* receive_process and io_listener put a process and post any_for_ready once.
LEMMA AnyForReadyPut ==
  ASSUME KernelInv,
         sem'["any_for_ready"] = sem["any_for_ready"] + 1,
         at'["to_ready"] = at["to_ready"],
         \/ /\ Len(queue'["new_q"]) = Len(queue["new_q"]) + 1
            /\ Len(queue'["suspended_ready_q"]) = Len(queue["suspended_ready_q"])
         \/ /\ Len(queue'["new_q"]) = Len(queue["new_q"])
            /\ Len(queue'["suspended_ready_q"]) = Len(queue["suspended_ready_q"]) + 1
  PROVE  AnyForReadyCounts'
  <1> DEFINE a == sem["any_for_ready"]
             o == One(at["to_ready"] = "sem_multiprogram")
             n == Len(queue["new_q"])
             s == Len(queue["suspended_ready_q"])
  <1>1. a \in Nat /\ o \in Nat /\ n \in Nat /\ s \in Nat
    BY Counts
  <1>2. a + o = n + s
    BY DEF KernelInv, SemaphoresMatchQueues, AnyForReadyCounts
  <1>3. o' = o
    BY DEF One
  <1>4. a' + o' = n' + s'
    <2>1. a' = a + 1 /\ ((n' = n + 1 /\ s' = s) \/ (n' = n /\ s' = s + 1))
      OBVIOUS
    <2> HIDE DEF a, o, n, s
    <2>. QED BY <1>1, <1>2, <1>3, <2>1
  <1>. QED BY <1>4 DEF AnyForReadyCounts

\* to_ready, past both of its waits, finds a process in one of its two queues,
\* and taking it settles the permit of any_for_ready it took for it.
LEMMA AnyForReadyTake ==
  ASSUME KernelInv, at["to_ready"] = "sem_multiprogram"
  PROVE  /\ queue["suspended_ready_q"] # <<>> \/ queue["new_q"] # <<>>
         /\ (/\ sem'["any_for_ready"] = sem["any_for_ready"]
             /\ at'["to_ready"] # "sem_multiprogram"
             /\ \/ /\ Len(queue'["new_q"]) = Len(queue["new_q"]) - 1
                   /\ Len(queue'["suspended_ready_q"]) = Len(queue["suspended_ready_q"])
                \/ /\ Len(queue'["new_q"]) = Len(queue["new_q"])
                   /\ Len(queue'["suspended_ready_q"]) = Len(queue["suspended_ready_q"]) - 1)
            => AnyForReadyCounts'
  <1> DEFINE a == sem["any_for_ready"]
             o == One(at["to_ready"] = "sem_multiprogram")
             n == Len(queue["new_q"])
             s == Len(queue["suspended_ready_q"])
  <1>1. a \in Nat /\ n \in Nat /\ s \in Nat
    BY Counts
  <1>2. a + o = n + s
    BY DEF KernelInv, SemaphoresMatchQueues, AnyForReadyCounts
  <1>3. o = 1
    BY DEF One
  <1>4. ~(n = 0 /\ s = 0)
    <2> HIDE DEF a, o, n, s
    <2>. QED BY <1>1, <1>2, <1>3
  <1>5. queue["suspended_ready_q"] # <<>> \/ queue["new_q"] # <<>>
    BY <1>4, Counts, QueueNames
  <1>6. ASSUME a' = a, at'["to_ready"] # "sem_multiprogram",
               (n' = n - 1 /\ s' = s) \/ (n' = n /\ s' = s - 1)
        PROVE  AnyForReadyCounts'
    <2>1. o' = 0
      BY <1>6 DEF One
    <2>2. a' + o' = n' + s'
      <3> HIDE DEF a, o, n, s
      <3>. QED BY <1>1, <1>2, <1>3, <1>6, <2>1
    <2>. QED BY <2>2 DEF AnyForReadyCounts
  <1>. QED BY <1>5, <1>6

\* The packets of PROCESS_SUSPEND and PROCESS_EXIT made from a pcb.
LEMMA SuspendPacket ==
  ASSUME NEW p \in Pcb, NEW h \in {"PROCESS_SUSPEND", "PROCESS_EXIT"}
  PROVE  [header |-> h, pid |-> p.pid,
          page_table |-> p.page_table,
          process_frames_index |-> p.process_frames_index] \in MemoryRequests
  BY DEF MemoryRequests, Pcb

\* The packet of PROCESS_NEW made from a pcb.
LEMMA NewPacket ==
  ASSUME NEW p \in Pcb
  PROVE  [header |-> "PROCESS_NEW", pid |-> p.pid, size |-> Size[p.client_socket]]
           \in MemoryRequests
  BY SizeAssumption DEF MemoryRequests, Pcb

-----------------------------------------------------------------------------
(* One lemma per action of the kernel. *)

\* receive_process, pid++ reads: only the connection's register changes.
LEMMA ReceiveProcess_Read_Step ==
  ASSUME KernelInv, NEW c \in Consoles, ReceiveProcess_Read(c)
  PROVE  KernelInv'
  <1>1. ArrivalsOK'
    BY DEF KernelInv, KernelTypeOK, ReceiveProcess_Read, ArrivalsOK, arrivals
  <1>2. UNCHANGED <<sem, queue, at, hand, execution_mutex, departures, socketVars>>
    BY DEF ReceiveProcess_Read, socketVars, departures
  <1>3. KernelTypeOK' /\ SocketsTypeOK'
    BY <1>1, <1>2 DEF KernelInv, KernelTypeOK, SemaphoresOK, QueuesOK, LocationsOK, HandsOK,
       MutexOK, DeparturesOK, SocketsTypeOK, socketVars, arrivals, departures
  <1>4. HandsFull'
    BY DEF KernelInv, KernelTypeOK, ReceiveProcess_Read, HandsFull, LocationsOK, HandsOK,
       Threads, Holders, Planners
  <1>5. OneAdmission'
    BY DEF KernelInv, KernelTypeOK, ReceiveProcess_Read, OneAdmission, LocationsOK,
       SemaphoresOK, Semaphores, QueuesOK, Queues, Threads, Holders, Planners
  <1>6. SemaphoresMatchQueues'
    BY DEF KernelInv, KernelTypeOK, ReceiveProcess_Read, SemaphoresMatchQueues,
       AnyForReadyCounts, ReadyForExecCounts, ProcessForIoCounts, ToExitCounts, One,
       LocationsOK, SemaphoresOK, Semaphores, QueuesOK, Queues, Threads, Holders, Planners
  <1>. QED BY <1>3, <1>4, <1>5, <1>6 DEF KernelInv

\* receive_process, pid++ writes: only the counter changes.
LEMMA ReceiveProcess_Write_Step ==
  ASSUME KernelInv, NEW c \in Consoles, ReceiveProcess_Write(c)
  PROVE  KernelInv'
  <1>1. ArrivalsOK'
    BY DEF KernelInv, KernelTypeOK, ReceiveProcess_Write, ArrivalsOK, arrivals
  <1>2. UNCHANGED <<sem, queue, at, hand, execution_mutex, departures, socketVars>>
    BY DEF ReceiveProcess_Write, socketVars, departures
  <1>3. KernelTypeOK' /\ SocketsTypeOK'
    BY <1>1, <1>2 DEF KernelInv, KernelTypeOK, SemaphoresOK, QueuesOK, LocationsOK, HandsOK,
       MutexOK, DeparturesOK, SocketsTypeOK, socketVars, arrivals, departures
  <1>4. HandsFull'
    BY DEF KernelInv, KernelTypeOK, ReceiveProcess_Write, HandsFull, LocationsOK, HandsOK,
       Threads, Holders, Planners
  <1>5. OneAdmission'
    BY DEF KernelInv, KernelTypeOK, ReceiveProcess_Write, OneAdmission, LocationsOK,
       SemaphoresOK, Semaphores, QueuesOK, Queues, Threads, Holders, Planners
  <1>6. SemaphoresMatchQueues'
    BY DEF KernelInv, KernelTypeOK, ReceiveProcess_Write, SemaphoresMatchQueues,
       AnyForReadyCounts, ReadyForExecCounts, ProcessForIoCounts, ToExitCounts, One,
       LocationsOK, SemaphoresOK, Semaphores, QueuesOK, Queues, Threads, Holders, Planners
  <1>. QED BY <1>3, <1>4, <1>5, <1>6 DEF KernelInv

\* receive_process: one process in new_q, one permit in any_for_ready.
LEMMA ReceiveProcess_Put_Step ==
  ASSUME KernelInv, NEW c \in Consoles, ReceiveProcess_Put(c)
  PROVE  KernelInv'
  <1>1. ArrivalsOK'
    BY DEF KernelInv, KernelTypeOK, ReceiveProcess_Put, ArrivalsOK, arrivals
  <1>2. SemaphoresOK'
    BY DEF KernelInv, KernelTypeOK, ReceiveProcess_Put, SemaphoresOK, Semaphores
  <1>3. QueuesOK'
    <2>1. PICK p \in {pid, next_pid[c]} : queue' = [queue EXCEPT !["new_q"] = Append(@,
                     [client_socket |-> c, pid |-> p, program_counter |-> 0,
                      page_table |-> 0, process_frames_index |-> 0,
                      left_burst_estimation |-> InitialEstimate])]
      BY DEF ReceiveProcess_Put
    <2>2. p \in Nat
      BY DEF KernelInv, KernelTypeOK, ArrivalsOK
    <2>3. [client_socket |-> c, pid |-> p, program_counter |-> 0,
                      page_table |-> 0, process_frames_index |-> 0,
                      left_burst_estimation |-> InitialEstimate] \in Pcb
      BY <2>2, InitialEstimateAssumption DEF Pcb
    <2>. QED BY <2>1, <2>3, PutLemma, QueueNames DEF KernelInv, KernelTypeOK
  <1>4. UNCHANGED <<at, hand, execution_mutex, departures, socketVars>>
    BY DEF ReceiveProcess_Put, socketVars, departures
  <1>5. KernelTypeOK' /\ SocketsTypeOK'
    BY <1>1, <1>2, <1>3, <1>4 DEF KernelInv, KernelTypeOK, LocationsOK, HandsOK, MutexOK,
       DeparturesOK, SocketsTypeOK, socketVars, arrivals, departures
  <1>6. HandsFull'
    BY DEF KernelInv, KernelTypeOK, ReceiveProcess_Put, HandsFull, LocationsOK, HandsOK,
       Threads, Holders, Planners
  <1>7. OneAdmission'
    BY DEF KernelInv, KernelTypeOK, ReceiveProcess_Put, OneAdmission, LocationsOK,
       SemaphoresOK, Semaphores, QueuesOK, Queues, Threads, Holders, Planners
  <1>8. AnyForReadyCounts'
    <2>1. PICK p : queue' = [queue EXCEPT !["new_q"] = Append(@, p)]
      BY DEF ReceiveProcess_Put
    <2>2. /\ Len(queue'["new_q"]) = Len(queue["new_q"]) + 1
          /\ queue'["suspended_ready_q"] = queue["suspended_ready_q"]
      BY <2>1 DEF KernelInv, KernelTypeOK, QueuesOK, Queues
    <2>3. sem' = [sem EXCEPT !["any_for_ready"] = @ + 1] /\ at' = at
      BY DEF ReceiveProcess_Put
    <2>4. sem'["any_for_ready"] = sem["any_for_ready"] + 1
      BY <2>3 DEF KernelInv, KernelTypeOK, SemaphoresOK, Semaphores
    <2>. QED BY <2>2, <2>3, <2>4, AnyForReadyPut
  <1>9. ReadyForExecCounts'
    BY DEF KernelInv, KernelTypeOK, ReceiveProcess_Put, SemaphoresMatchQueues,
       ReadyForExecCounts, One, LocationsOK, SemaphoresOK, Semaphores, QueuesOK, Queues,
       Threads, Holders, Planners
  <1>10. ProcessForIoCounts'
    BY DEF KernelInv, KernelTypeOK, ReceiveProcess_Put, SemaphoresMatchQueues,
       ProcessForIoCounts, SemaphoresOK, Semaphores, QueuesOK, Queues
  <1>11. ToExitCounts'
    BY DEF KernelInv, KernelTypeOK, ReceiveProcess_Put, SemaphoresMatchQueues, ToExitCounts,
       SemaphoresOK, Semaphores, QueuesOK, Queues
  <1>. QED BY <1>5, <1>6, <1>7, <1>8, <1>9, <1>10, <1>11 DEF KernelInv, SemaphoresMatchQueues

\* to_ready takes a permit of any_for_ready and holds it at sem_multiprogram.
LEMMA ToReady_Any_Step ==
  ASSUME KernelInv, ToReady_Any
  PROVE  KernelInv'
  <1>1. SemaphoresOK'
    BY DEF KernelInv, KernelTypeOK, ToReady_Any, SemaphoresOK, Semaphores
  <1>2. LocationsOK'
    BY DEF KernelInv, KernelTypeOK, ToReady_Any, LocationsOK, Threads, Holders, Planners,
       Locations
  <1>3. UNCHANGED <<queue, hand, execution_mutex, arrivals, departures, socketVars>>
    BY DEF ToReady_Any, socketVars, arrivals, departures
  <1>4. KernelTypeOK' /\ SocketsTypeOK'
    BY <1>1, <1>2, <1>3 DEF KernelInv, KernelTypeOK, QueuesOK, HandsOK, MutexOK, ArrivalsOK,
       DeparturesOK, SocketsTypeOK, socketVars, arrivals, departures
  <1>5. HandsFull'
    BY DEF KernelInv, KernelTypeOK, ToReady_Any, HandsFull, LocationsOK, HandsOK, Threads,
       Holders, Planners
  <1>6. OneAdmission'
    BY DEF KernelInv, KernelTypeOK, ToReady_Any, OneAdmission, LocationsOK, SemaphoresOK,
       Semaphores, QueuesOK, Queues, Threads, Holders, Planners
  <1>7. AnyForReadyCounts'
    <2>1. /\ at["to_ready"] = "any_for_ready" /\ at'["to_ready"] = "sem_multiprogram"
          /\ queue' = queue
      BY DEF ToReady_Any, KernelInv, KernelTypeOK, LocationsOK, Threads, Holders, Planners
    <2>2. /\ sem["any_for_ready"] \in Nat
          /\ sem'["any_for_ready"] = sem["any_for_ready"] - 1
      BY DEF ToReady_Any, KernelInv, KernelTypeOK, SemaphoresOK, Semaphores
    <2>3. /\ One(at["to_ready"] = "sem_multiprogram") = 0
          /\ One(at'["to_ready"] = "sem_multiprogram") = 1
      BY <2>1 DEF One
    <2>4. PICK all \in Int : all = Len(queue["new_q"]) + Len(queue["suspended_ready_q"])
      BY DEF KernelInv, KernelTypeOK, QueuesOK, Queues
    <2>5. sem["any_for_ready"] + One(at["to_ready"] = "sem_multiprogram") = all
      BY <2>4 DEF KernelInv, SemaphoresMatchQueues, AnyForReadyCounts
    <2>6. sem'["any_for_ready"] + One(at'["to_ready"] = "sem_multiprogram") = all
      BY <2>2, <2>3, <2>5
    <2>. QED BY <2>1, <2>4, <2>6 DEF AnyForReadyCounts
  <1>8. ReadyForExecCounts'
    BY DEF KernelInv, KernelTypeOK, ToReady_Any, SemaphoresMatchQueues, ReadyForExecCounts,
       One, LocationsOK, SemaphoresOK, Semaphores, QueuesOK, Queues, Threads, Holders,
       Planners
  <1>9. ProcessForIoCounts'
    BY DEF KernelInv, KernelTypeOK, ToReady_Any, SemaphoresMatchQueues, ProcessForIoCounts,
       SemaphoresOK, Semaphores, QueuesOK, Queues
  <1>10. ToExitCounts'
    BY DEF KernelInv, KernelTypeOK, ToReady_Any, SemaphoresMatchQueues, ToExitCounts,
       SemaphoresOK, Semaphores, QueuesOK, Queues
  <1>. QED BY <1>4, <1>5, <1>6, <1>7, <1>8, <1>9, <1>10 DEF KernelInv, SemaphoresMatchQueues

\* to_ready takes a process for the permit it holds; by AnyForReadyTake the
\* branch that finds both queues empty is never taken.
LEMMA ToReady_Admit_Step ==
  ASSUME KernelInv, ToReady_Admit
  PROVE  KernelInv'
  <1>1. SemaphoresOK'
    BY DEF KernelInv, KernelTypeOK, ToReady_Admit, Admit, SemaphoresOK, Semaphores
  <1>2. LocationsOK'
    BY DEF KernelInv, KernelTypeOK, ToReady_Admit, Admit, LocationsOK, Threads, Holders,
       Planners, Locations
  <1>3. HandsOK'
    BY DEF KernelInv, KernelTypeOK, ToReady_Admit, Admit, HandsOK, Holders, Planners,
       QueuesOK, Queues
  <1>4. QueuesOK'
    BY TakeLemma, QueueNames DEF ToReady_Admit, Admit, KernelInv, KernelTypeOK, QueuesOK
  <1>5. UNCHANGED <<execution_mutex, arrivals, departures, socketVars>>
    BY DEF ToReady_Admit, Admit, socketVars, arrivals, departures
  <1>6. KernelTypeOK' /\ SocketsTypeOK'
    BY <1>1, <1>2, <1>3, <1>4, <1>5 DEF KernelInv, KernelTypeOK, MutexOK, ArrivalsOK,
       DeparturesOK, SocketsTypeOK, socketVars, arrivals, departures
  <1>7. HandsFull'
    BY DEF KernelInv, KernelTypeOK, ToReady_Admit, Admit, HandsFull, LocationsOK, HandsOK,
       QueuesOK, Queues, Threads, Holders, Planners, LoopStart
  <1>8. OneAdmission'
    BY DEF KernelInv, KernelTypeOK, ToReady_Admit, Admit, OneAdmission, LocationsOK,
       SemaphoresOK, Semaphores, QueuesOK, Queues, Threads, Holders, Planners
  <1>9. AnyForReadyCounts'
    <2>1. /\ at["to_ready"] = "sem_multiprogram"
          /\ sem'["any_for_ready"] = sem["any_for_ready"]
      BY DEF ToReady_Admit, KernelInv, KernelTypeOK, SemaphoresOK, Semaphores
    <2>2. queue["suspended_ready_q"] # <<>> \/ queue["new_q"] # <<>>
      BY <2>1, AnyForReadyTake
    <2>3. at'["to_ready"] # "sem_multiprogram"
      BY DEF ToReady_Admit, Admit, KernelInv, KernelTypeOK, LocationsOK, Threads, Holders,
         Planners
    <2>4. CASE queue["suspended_ready_q"] # <<>>
      <3>1. queue' = [queue EXCEPT !["suspended_ready_q"] = Tail(@)]
        BY <2>4 DEF ToReady_Admit, Admit
      <3>2. /\ queue'["new_q"] = queue["new_q"]
            /\ queue'["suspended_ready_q"] = Tail(queue["suspended_ready_q"])
        BY <3>1, QueueNames DEF KernelInv, KernelTypeOK, QueuesOK
      <3>3. Len(queue'["suspended_ready_q"]) = Len(queue["suspended_ready_q"]) - 1
        BY <3>2, <2>4, TakeLemma, QueueNames DEF KernelInv, KernelTypeOK
      <3>. QED BY <3>2, <3>3, <2>1, <2>3, AnyForReadyTake
    <2>5. CASE queue["suspended_ready_q"] = <<>>
      <3>1. queue' = [queue EXCEPT !["new_q"] = Tail(@)]
        BY <2>5, <2>2 DEF ToReady_Admit, Admit
      <3>2. /\ queue'["suspended_ready_q"] = queue["suspended_ready_q"]
            /\ queue'["new_q"] = Tail(queue["new_q"])
        BY <3>1, QueueNames DEF KernelInv, KernelTypeOK, QueuesOK
      <3>3. Len(queue'["new_q"]) = Len(queue["new_q"]) - 1
        BY <3>2, <2>2, <2>5, TakeLemma, QueueNames DEF KernelInv, KernelTypeOK
      <3>. QED BY <3>2, <3>3, <2>1, <2>3, AnyForReadyTake
    <2>. QED BY <2>4, <2>5
  <1>10. ReadyForExecCounts'
    BY DEF KernelInv, KernelTypeOK, ToReady_Admit, Admit, SemaphoresMatchQueues,
       ReadyForExecCounts, One, LocationsOK, SemaphoresOK, Semaphores, QueuesOK, Queues,
       Threads, Holders, Planners
  <1>11. ProcessForIoCounts'
    BY DEF KernelInv, KernelTypeOK, ToReady_Admit, Admit, SemaphoresMatchQueues,
       ProcessForIoCounts, SemaphoresOK, Semaphores, QueuesOK, Queues
  <1>12. ToExitCounts'
    BY DEF KernelInv, KernelTypeOK, ToReady_Admit, Admit, SemaphoresMatchQueues, ToExitCounts,
       SemaphoresOK, Semaphores, QueuesOK, Queues
  <1>. QED BY <1>6, <1>7, <1>8, <1>9, <1>10, <1>11, <1>12 DEF KernelInv, SemaphoresMatchQueues

\* new_to_ready sends PROCESS_NEW.
LEMMA NewToReady_Send_Step ==
  ASSUME KernelInv, NewToReady_Send
  PROVE  KernelInv'
  <1>1. LocationsOK'
    BY DEF KernelInv, KernelTypeOK, NewToReady_Send, LocationsOK, Threads, Holders, Planners,
       Locations
  <1>2. SocketsTypeOK'
    BY NewPacket DEF NewToReady_Send, KernelInv, HandsFull, SocketsTypeOK
  <1>3. UNCHANGED <<sem, queue, hand, execution_mutex, arrivals, departures>>
    BY DEF NewToReady_Send, arrivals, departures
  <1>4. KernelTypeOK' /\ SocketsTypeOK'
    BY <1>1, <1>2, <1>3 DEF KernelInv, KernelTypeOK, SemaphoresOK, QueuesOK, HandsOK, MutexOK,
       ArrivalsOK, DeparturesOK, socketVars, arrivals, departures
  <1>5. HandsFull'
    BY DEF KernelInv, KernelTypeOK, NewToReady_Send, HandsFull, LocationsOK, HandsOK, Threads,
       Holders, Planners
  <1>6. OneAdmission'
    BY DEF KernelInv, KernelTypeOK, NewToReady_Send, OneAdmission, LocationsOK, SemaphoresOK,
       Semaphores, QueuesOK, Queues, Threads, Holders, Planners
  <1>7. SemaphoresMatchQueues'
    BY DEF KernelInv, KernelTypeOK, NewToReady_Send, SemaphoresMatchQueues, AnyForReadyCounts,
       ReadyForExecCounts, ProcessForIoCounts, ToExitCounts, One, LocationsOK, SemaphoresOK,
       Semaphores, QueuesOK, Queues, Threads, Holders, Planners
  <1>. QED BY <1>4, <1>5, <1>6, <1>7 DEF KernelInv

\* new_to_ready puts the pcb where table_index_success looks for it.
LEMMA NewToReady_Put_Step ==
  ASSUME KernelInv, NewToReady_Put
  PROVE  KernelInv'
  <1>1. QueuesOK'
    BY DEF KernelInv, KernelTypeOK, NewToReady_Put, QueuesOK, Queues, HandsOK, HandsFull,
       LocationsOK, SocketsTypeOK, Holders, Planners, Threads, Returns
  <1>2. LocationsOK'
    BY DEF KernelInv, KernelTypeOK, NewToReady_Put, LocationsOK, Threads, Holders, Planners,
       Locations
  <1>3. UNCHANGED <<sem, hand, execution_mutex, arrivals, departures, socketVars>>
    BY DEF NewToReady_Put, socketVars, arrivals, departures
  <1>4. KernelTypeOK' /\ SocketsTypeOK'
    BY <1>1, <1>2, <1>3 DEF KernelInv, KernelTypeOK, SemaphoresOK, HandsOK, MutexOK,
       ArrivalsOK, DeparturesOK, SocketsTypeOK, socketVars, arrivals, departures
  <1>5. HandsFull'
    BY DEF KernelInv, KernelTypeOK, NewToReady_Put, HandsFull, LocationsOK, HandsOK, Threads,
       Holders, Planners
  <1>6. OneAdmission'
    <2>1. /\ Len(queue["memory_init_q"]) \in Nat /\ sem["pcb_table_ready"] \in Nat
          /\ Len(queue'["memory_init_q"]) = Len(queue["memory_init_q"]) + 1
      BY QueueNames DEF NewToReady_Put, KernelInv, KernelTypeOK, QueuesOK, HandsFull,
         SemaphoresOK, Semaphores
    <2>2. at["to_ready"] = "memory_init_q" /\ at'["to_ready"] = "pcb_table_ready" /\ sem' = sem
      BY DEF NewToReady_Put, KernelInv, KernelTypeOK, LocationsOK, Threads, Holders, Planners
    <2>. QED BY <2>1, <2>2 DEF KernelInv, OneAdmission
  <1>7. SemaphoresMatchQueues'
    BY DEF KernelInv, KernelTypeOK, NewToReady_Put, SemaphoresMatchQueues, AnyForReadyCounts,
       ReadyForExecCounts, ProcessForIoCounts, ToExitCounts, One, LocationsOK, SemaphoresOK,
       Semaphores, QueuesOK, Queues, Threads, Holders, Planners
  <1>. QED BY <1>4, <1>5, <1>6, <1>7 DEF KernelInv

\* new_to_ready passes pcb_table_ready, which ends the hand-over.
LEMMA NewToReady_Ready_Step ==
  ASSUME KernelInv, NewToReady_Ready
  PROVE  KernelInv'
  <1>1. SemaphoresOK'
    BY DEF KernelInv, KernelTypeOK, NewToReady_Ready, SemaphoresOK, Semaphores
  <1>2. LocationsOK'
    BY DEF KernelInv, KernelTypeOK, NewToReady_Ready, LocationsOK, Threads, Holders, Planners,
       Locations
  <1>3. UNCHANGED <<queue, hand, execution_mutex, arrivals, departures, socketVars>>
    BY DEF NewToReady_Ready, socketVars, arrivals, departures
  <1>4. KernelTypeOK' /\ SocketsTypeOK'
    BY <1>1, <1>2, <1>3 DEF KernelInv, KernelTypeOK, QueuesOK, HandsOK, MutexOK, ArrivalsOK,
       DeparturesOK, SocketsTypeOK, socketVars, arrivals, departures
  <1>5. HandsFull'
    BY DEF KernelInv, KernelTypeOK, NewToReady_Ready, HandsFull, LocationsOK, HandsOK,
       Threads, Holders, Planners
  <1>6. OneAdmission'
    <2>1. /\ sem["pcb_table_ready"] > 0 /\ queue' = queue
          /\ sem'["pcb_table_ready"] = sem["pcb_table_ready"] - 1
      BY DEF NewToReady_Ready, KernelInv, KernelTypeOK, SemaphoresOK, Semaphores
    <2>2. Len(queue["memory_init_q"]) + sem["pcb_table_ready"] <= 1
      BY DEF KernelInv, OneAdmission
    <2>3. Len(queue'["memory_init_q"]) + sem'["pcb_table_ready"] = 0
      BY <2>1, <2>2, Counts
    <2>. QED BY <2>3 DEF OneAdmission
  <1>7. SemaphoresMatchQueues'
    BY DEF KernelInv, KernelTypeOK, NewToReady_Ready, SemaphoresMatchQueues,
       AnyForReadyCounts, ReadyForExecCounts, ProcessForIoCounts, ToExitCounts, One,
       LocationsOK, SemaphoresOK, Semaphores, QueuesOK, Queues, Threads, Holders, Planners
  <1>. QED BY <1>4, <1>5, <1>6, <1>7 DEF KernelInv

\* put_to_ready under FIFO: one process in ready_q, one permit in ready_for_exec.
LEMMA PutToReady_Fifo_Step ==
  ASSUME KernelInv, NEW t \in Planners, PutToReady(t), PutToReady_Fifo(t)
  PROVE  KernelInv'
  <1>1. QueuesOK'
    BY DEF KernelInv, KernelTypeOK, PutToReady_Fifo, PutToReady, LoopStart, QueuesOK, Queues,
       HandsOK, HandsFull, LocationsOK, SocketsTypeOK, Holders, Planners, Threads, Returns
  <1>2. SemaphoresOK'
    BY DEF KernelInv, KernelTypeOK, PutToReady_Fifo, PutToReady, LoopStart, SemaphoresOK,
       Semaphores
  <1>3. HandsOK'
    BY DEF KernelInv, KernelTypeOK, PutToReady_Fifo, PutToReady, LoopStart, HandsOK, Holders,
       Planners, QueuesOK, Queues
  <1>4. LocationsOK'
    BY DEF KernelInv, KernelTypeOK, PutToReady_Fifo, PutToReady, LoopStart, LocationsOK,
       Threads, Holders, Planners, Locations
  <1>5. UNCHANGED <<execution_mutex, arrivals, departures, socketVars>>
    BY DEF PutToReady_Fifo, PutToReady, LoopStart, socketVars, arrivals, departures
  <1>6. KernelTypeOK' /\ SocketsTypeOK'
    BY <1>1, <1>2, <1>3, <1>4, <1>5 DEF KernelInv, KernelTypeOK, MutexOK, ArrivalsOK,
       DeparturesOK, SocketsTypeOK, socketVars, arrivals, departures
  <1>7. HandsFull'
    BY DEF KernelInv, KernelTypeOK, PutToReady_Fifo, PutToReady, LoopStart, HandsFull,
       LocationsOK, HandsOK, Threads, Holders, Planners, LoopStart
  <1>8. OneAdmission'
    BY DEF KernelInv, KernelTypeOK, PutToReady_Fifo, PutToReady, LoopStart, OneAdmission,
       LocationsOK, SemaphoresOK, Semaphores, QueuesOK, Queues, Threads, Holders, Planners,
       LoopStart
  <1>9. AnyForReadyCounts'
    BY DEF KernelInv, KernelTypeOK, PutToReady_Fifo, PutToReady, LoopStart,
       SemaphoresMatchQueues, AnyForReadyCounts, One, LocationsOK, SemaphoresOK, Semaphores,
       QueuesOK, Queues, Threads, Holders, Planners, LoopStart
  <1>10. ReadyForExecCounts'
    <2>1. Len(queue["ready_q"]) \in Nat /\ sem["ready_for_exec"] \in Nat
      BY QueueNames DEF KernelInv, KernelTypeOK, QueuesOK, SemaphoresOK, Semaphores
    <2>2. Len(queue'["ready_q"]) = Len(queue["ready_q"]) + 1
      BY QueueNames, PutLemma DEF PutToReady, PutToReady_Fifo, KernelInv, KernelTypeOK,
         HandsFull, Planners
    <2>3. /\ sem'["ready_for_exec"] = sem["ready_for_exec"] + 1
          /\ at[t] = "put_to_ready" /\ at'[t] # "interrupt_ready"
          /\ at'["to_exec"] = at["to_exec"]
          /\ \A u \in Planners \ {t} : at'[u] = at[u]
      BY DEF PutToReady, PutToReady_Fifo, LoopStart, KernelInv, KernelTypeOK, SemaphoresOK,
         Semaphores, LocationsOK, Threads, Holders, Planners
    <2>. QED BY <2>1, <2>2, <2>3 DEF KernelInv, SemaphoresMatchQueues, ReadyForExecCounts,
       One, Planners
  <1>11. ProcessForIoCounts'
    BY DEF KernelInv, KernelTypeOK, PutToReady_Fifo, PutToReady, SemaphoresMatchQueues,
       ProcessForIoCounts, SemaphoresOK, Semaphores, QueuesOK, Queues
  <1>12. ToExitCounts'
    BY DEF KernelInv, KernelTypeOK, PutToReady_Fifo, PutToReady, SemaphoresMatchQueues,
       ToExitCounts, SemaphoresOK, Semaphores, QueuesOK, Queues
  <1>. QED BY <1>6, <1>7, <1>8, <1>9, <1>10, <1>11, <1>12 DEF KernelInv, SemaphoresMatchQueues

\* put_to_ready under SRT with the CPU free: the same after sorting.
LEMMA PutToReady_Replan_Step ==
  ASSUME KernelInv, NEW t \in Planners, PutToReady(t), PutToReady_Replan(t)
  PROVE  KernelInv'
  <1>1. QueuesOK'
    <2>1. PICK r \in SortsOf(Append(queue["ready_q"], hand[t])) :
                 queue' = [queue EXCEPT !["ready_q"] = r]
      BY DEF PutToReady_Replan
    <2>2. Append(queue["ready_q"], hand[t]) \in Seq(Pcb)
      BY QueueNames DEF KernelInv, KernelTypeOK, QueuesOK, HandsFull, PutToReady, Planners
    <2>. QED BY <2>1, <2>2, SortLemma, QueueNames DEF KernelInv, KernelTypeOK, QueuesOK
  <1>2. SemaphoresOK'
    BY DEF KernelInv, KernelTypeOK, PutToReady_Replan, PutToReady, LoopStart, SemaphoresOK,
       Semaphores
  <1>3. HandsOK'
    BY DEF KernelInv, KernelTypeOK, PutToReady_Replan, PutToReady, LoopStart, HandsOK,
       Holders, Planners, QueuesOK, Queues
  <1>4. LocationsOK'
    BY DEF KernelInv, KernelTypeOK, PutToReady_Replan, PutToReady, LoopStart, LocationsOK,
       Threads, Holders, Planners, Locations
  <1>5. UNCHANGED <<execution_mutex, arrivals, departures, socketVars>>
    BY DEF PutToReady_Replan, PutToReady, LoopStart, socketVars, arrivals, departures
  <1>6. KernelTypeOK' /\ SocketsTypeOK'
    BY <1>1, <1>2, <1>3, <1>4, <1>5 DEF KernelInv, KernelTypeOK, MutexOK, ArrivalsOK,
       DeparturesOK, SocketsTypeOK, socketVars, arrivals, departures
  <1>7. HandsFull'
    BY DEF KernelInv, KernelTypeOK, PutToReady_Replan, PutToReady, LoopStart, HandsFull,
       LocationsOK, HandsOK, Threads, Holders, Planners, LoopStart
  <1>8. OneAdmission'
    BY DEF KernelInv, KernelTypeOK, PutToReady_Replan, PutToReady, LoopStart, OneAdmission,
       LocationsOK, SemaphoresOK, Semaphores, QueuesOK, Queues, Threads, Holders, Planners,
       LoopStart
  <1>9. AnyForReadyCounts'
    BY DEF KernelInv, KernelTypeOK, PutToReady_Replan, PutToReady, LoopStart,
       SemaphoresMatchQueues, AnyForReadyCounts, One, LocationsOK, SemaphoresOK, Semaphores,
       QueuesOK, Queues, Threads, Holders, Planners, LoopStart
  <1>10. ReadyForExecCounts'
    <2>1. Len(queue["ready_q"]) \in Nat /\ sem["ready_for_exec"] \in Nat
      BY QueueNames DEF KernelInv, KernelTypeOK, QueuesOK, SemaphoresOK, Semaphores
    <2>2. Len(queue'["ready_q"]) = Len(queue["ready_q"]) + 1
      <3>1. PICK r \in SortsOf(Append(queue["ready_q"], hand[t])) :
                 queue' = [queue EXCEPT !["ready_q"] = r]
        BY DEF PutToReady_Replan
      <3>2. /\ Append(queue["ready_q"], hand[t]) \in Seq(Pcb)
            /\ Len(Append(queue["ready_q"], hand[t])) = Len(queue["ready_q"]) + 1
        BY <2>1, QueueNames DEF KernelInv, KernelTypeOK, QueuesOK, HandsFull, PutToReady,
           Planners
      <3>. QED BY <3>1, <3>2, SortLemma, QueueNames DEF KernelInv, KernelTypeOK, QueuesOK
    <2>3. /\ sem'["ready_for_exec"] = sem["ready_for_exec"] + 1
          /\ at[t] = "put_to_ready" /\ at'[t] # "interrupt_ready"
          /\ at'["to_exec"] = at["to_exec"]
          /\ \A u \in Planners \ {t} : at'[u] = at[u]
      BY DEF PutToReady, PutToReady_Replan, LoopStart, KernelInv, KernelTypeOK, SemaphoresOK,
         Semaphores, LocationsOK, Threads, Holders, Planners
    <2>. QED BY <2>1, <2>2, <2>3 DEF KernelInv, SemaphoresMatchQueues, ReadyForExecCounts,
       One, Planners
  <1>11. ProcessForIoCounts'
    BY DEF KernelInv, KernelTypeOK, PutToReady_Replan, PutToReady, SemaphoresMatchQueues,
       ProcessForIoCounts, SemaphoresOK, Semaphores, QueuesOK, Queues
  <1>12. ToExitCounts'
    BY DEF KernelInv, KernelTypeOK, PutToReady_Replan, PutToReady, SemaphoresMatchQueues,
       ToExitCounts, SemaphoresOK, Semaphores, QueuesOK, Queues
  <1>. QED BY <1>6, <1>7, <1>8, <1>9, <1>10, <1>11, <1>12 DEF KernelInv, SemaphoresMatchQueues

\* put_to_ready under SRT with the CPU taken: the process is in ready_q, and the
\* permit it is worth stays with the planner that waits for the interruption.
LEMMA PutToReady_Interrupt_Step ==
  ASSUME KernelInv, NEW t \in Planners, PutToReady(t), PutToReady_Interrupt(t)
  PROVE  KernelInv'
  <1>1. QueuesOK'
    BY DEF KernelInv, KernelTypeOK, PutToReady_Interrupt, PutToReady, QueuesOK, Queues,
       HandsOK, HandsFull, LocationsOK, SocketsTypeOK, Holders, Planners, Threads, Returns
  <1>2. HandsOK'
    BY DEF KernelInv, KernelTypeOK, PutToReady_Interrupt, PutToReady, HandsOK, Holders,
       Planners, QueuesOK, Queues
  <1>3. LocationsOK'
    BY DEF KernelInv, KernelTypeOK, PutToReady_Interrupt, PutToReady, LocationsOK, Threads,
       Holders, Planners, Locations
  <1>4. MutexOK'
    BY DEF KernelInv, KernelTypeOK, PutToReady_Interrupt, PutToReady, MutexOK, Planners
  <1>5. SocketsTypeOK'
    BY DEF KernelInv, KernelTypeOK, PutToReady_Interrupt, PutToReady, SocketsTypeOK, QueuesOK,
       Queues
  <1>6. UNCHANGED <<sem, arrivals, departures>>
    BY DEF PutToReady_Interrupt, PutToReady, arrivals, departures
  <1>7. KernelTypeOK' /\ SocketsTypeOK'
    BY <1>1, <1>2, <1>3, <1>4, <1>5, <1>6 DEF KernelInv, KernelTypeOK, SemaphoresOK,
       ArrivalsOK, DeparturesOK, socketVars, arrivals, departures
  <1>8. HandsFull'
    BY DEF KernelInv, KernelTypeOK, PutToReady_Interrupt, PutToReady, HandsFull, LocationsOK,
       HandsOK, Threads, Holders, Planners, LoopStart
  <1>9. OneAdmission'
    BY DEF KernelInv, KernelTypeOK, PutToReady_Interrupt, PutToReady, OneAdmission,
       LocationsOK, SemaphoresOK, Semaphores, QueuesOK, Queues, Threads, Holders, Planners,
       LoopStart
  <1>10. AnyForReadyCounts'
    BY DEF KernelInv, KernelTypeOK, PutToReady_Interrupt, PutToReady, SemaphoresMatchQueues,
       AnyForReadyCounts, One, LocationsOK, SemaphoresOK, Semaphores, QueuesOK, Queues,
       Threads, Holders, Planners, LoopStart
  <1>11. ReadyForExecCounts'
    <2>1. Len(queue["ready_q"]) \in Nat /\ sem["ready_for_exec"] \in Nat
      BY QueueNames DEF KernelInv, KernelTypeOK, QueuesOK, SemaphoresOK, Semaphores
    <2>2. Len(queue'["ready_q"]) = Len(queue["ready_q"]) + 1
      BY QueueNames, PutLemma DEF PutToReady, PutToReady_Interrupt, KernelInv, KernelTypeOK,
         HandsFull, Planners
    <2>3. /\ sem' = sem
          /\ at[t] = "put_to_ready" /\ at'[t] = "interrupt_ready"
          /\ at'["to_exec"] = at["to_exec"]
          /\ \A u \in Planners \ {t} : at'[u] = at[u]
      BY DEF PutToReady, PutToReady_Interrupt, KernelInv, KernelTypeOK, SemaphoresOK,
         Semaphores, LocationsOK, Threads, Holders, Planners
    <2>. QED BY <2>1, <2>2, <2>3 DEF KernelInv, SemaphoresMatchQueues, ReadyForExecCounts,
       One, Planners
  <1>12. ProcessForIoCounts'
    BY DEF KernelInv, KernelTypeOK, PutToReady_Interrupt, PutToReady, SemaphoresMatchQueues,
       ProcessForIoCounts, SemaphoresOK, Semaphores, QueuesOK, Queues
  <1>13. ToExitCounts'
    BY DEF KernelInv, KernelTypeOK, PutToReady_Interrupt, PutToReady, SemaphoresMatchQueues,
       ToExitCounts, SemaphoresOK, Semaphores, QueuesOK, Queues
  <1>. QED BY <1>7, <1>8, <1>9, <1>10, <1>11, <1>12, <1>13 DEF KernelInv,
     SemaphoresMatchQueues

\* put_to_ready after interrupt_ready: the planner posts the permit it owed.
LEMMA PutToReady_Resume_Step ==
  ASSUME KernelInv, NEW t \in Planners, PutToReady_Resume(t)
  PROVE  KernelInv'
  <1>1. QueuesOK'
    <2>1. PICK r \in SortsOf(queue["ready_q"]) : queue' = [queue EXCEPT !["ready_q"] = r]
      BY DEF PutToReady_Resume
    <2>2. queue["ready_q"] \in Seq(Pcb)
      BY QueueNames DEF KernelInv, KernelTypeOK, QueuesOK, HandsFull, PutToReady, Planners
    <2>. QED BY <2>1, <2>2, SortLemma, QueueNames DEF KernelInv, KernelTypeOK, QueuesOK
  <1>2. SemaphoresOK'
    BY DEF KernelInv, KernelTypeOK, PutToReady_Resume, LoopStart, SemaphoresOK, Semaphores
  <1>3. LocationsOK'
    BY DEF KernelInv, KernelTypeOK, PutToReady_Resume, LoopStart, LocationsOK, Threads,
       Holders, Planners, Locations
  <1>4. MutexOK'
    BY DEF KernelInv, KernelTypeOK, PutToReady_Resume, LoopStart, MutexOK, Planners
  <1>5. UNCHANGED <<hand, arrivals, departures, socketVars>>
    BY DEF PutToReady_Resume, LoopStart, socketVars, arrivals, departures
  <1>6. KernelTypeOK' /\ SocketsTypeOK'
    BY <1>1, <1>2, <1>3, <1>4, <1>5 DEF KernelInv, KernelTypeOK, HandsOK, ArrivalsOK,
       DeparturesOK, SocketsTypeOK, socketVars, arrivals, departures
  <1>7. HandsFull'
    BY DEF KernelInv, KernelTypeOK, PutToReady_Resume, LoopStart, HandsFull, LocationsOK,
       HandsOK, Threads, Holders, Planners, LoopStart
  <1>8. OneAdmission'
    BY DEF KernelInv, KernelTypeOK, PutToReady_Resume, LoopStart, OneAdmission, LocationsOK,
       SemaphoresOK, Semaphores, QueuesOK, Queues, Threads, Holders, Planners, LoopStart
  <1>9. AnyForReadyCounts'
    BY DEF KernelInv, KernelTypeOK, PutToReady_Resume, LoopStart, SemaphoresMatchQueues,
       AnyForReadyCounts, One, LocationsOK, SemaphoresOK, Semaphores, QueuesOK, Queues,
       Threads, Holders, Planners, LoopStart
  <1>10. ReadyForExecCounts'
    <2>1. Len(queue["ready_q"]) \in Nat /\ sem["ready_for_exec"] \in Nat
      BY QueueNames DEF KernelInv, KernelTypeOK, QueuesOK, SemaphoresOK, Semaphores
    <2>2. Len(queue'["ready_q"]) = Len(queue["ready_q"])
      <3>1. PICK r \in SortsOf(queue["ready_q"]) : queue' = [queue EXCEPT !["ready_q"] = r]
        BY DEF PutToReady_Resume
      <3>2. queue["ready_q"] \in Seq(Pcb)
        BY <2>1, QueueNames DEF KernelInv, KernelTypeOK, QueuesOK, HandsFull, PutToReady,
           Planners
      <3>. QED BY <3>1, <3>2, SortLemma, QueueNames DEF KernelInv, KernelTypeOK, QueuesOK
    <2>3. /\ sem'["ready_for_exec"] = sem["ready_for_exec"] + 1
          /\ at[t] = "interrupt_ready" /\ at'[t] # "interrupt_ready"
          /\ at'["to_exec"] = at["to_exec"]
          /\ \A u \in Planners \ {t} : at'[u] = at[u]
      BY DEF PutToReady_Resume, LoopStart, KernelInv, KernelTypeOK, SemaphoresOK, Semaphores,
         LocationsOK, Threads, Holders, Planners
    <2>. QED BY <2>1, <2>2, <2>3 DEF KernelInv, SemaphoresMatchQueues, ReadyForExecCounts,
       One, Planners
  <1>11. ProcessForIoCounts'
    BY DEF KernelInv, KernelTypeOK, PutToReady_Resume, SemaphoresMatchQueues,
       ProcessForIoCounts, SemaphoresOK, Semaphores, QueuesOK, Queues
  <1>12. ToExitCounts'
    BY DEF KernelInv, KernelTypeOK, PutToReady_Resume, SemaphoresMatchQueues, ToExitCounts,
       SemaphoresOK, Semaphores, QueuesOK, Queues
  <1>. QED BY <1>6, <1>7, <1>8, <1>9, <1>10, <1>11, <1>12 DEF KernelInv, SemaphoresMatchQueues

\* to_exec takes a permit of ready_for_exec and holds it.
LEMMA ToExec_Ready_Step ==
  ASSUME KernelInv, ToExec_Ready
  PROVE  KernelInv'
  <1>1. SemaphoresOK'
    BY DEF KernelInv, KernelTypeOK, ToExec_Ready, SemaphoresOK, Semaphores
  <1>2. LocationsOK'
    BY DEF KernelInv, KernelTypeOK, ToExec_Ready, LocationsOK, Threads, Holders, Planners,
       Locations
  <1>3. UNCHANGED <<queue, hand, execution_mutex, arrivals, departures, socketVars>>
    BY DEF ToExec_Ready, socketVars, arrivals, departures
  <1>4. KernelTypeOK' /\ SocketsTypeOK'
    BY <1>1, <1>2, <1>3 DEF KernelInv, KernelTypeOK, QueuesOK, HandsOK, MutexOK, ArrivalsOK,
       DeparturesOK, SocketsTypeOK, socketVars, arrivals, departures
  <1>5. HandsFull'
    BY DEF KernelInv, KernelTypeOK, ToExec_Ready, HandsFull, LocationsOK, HandsOK, Threads,
       Holders, Planners
  <1>6. OneAdmission'
    BY DEF KernelInv, KernelTypeOK, ToExec_Ready, OneAdmission, LocationsOK, SemaphoresOK,
       Semaphores, QueuesOK, Queues, Threads, Holders, Planners
  <1>7. AnyForReadyCounts'
    BY DEF KernelInv, KernelTypeOK, ToExec_Ready, SemaphoresMatchQueues, AnyForReadyCounts,
       One, LocationsOK, SemaphoresOK, Semaphores, QueuesOK, Queues, Threads, Holders,
       Planners
  <1>8. ReadyForExecCounts'
    <2>1. /\ sem'["ready_for_exec"] = sem["ready_for_exec"] - 1 /\ queue' = queue
          /\ at["to_exec"] = "ready_for_exec" /\ at'["to_exec"] = "cpu_free"
          /\ \A t \in Planners : at'[t] = at[t]
      BY DEF ToExec_Ready, KernelInv, KernelTypeOK, SemaphoresOK, Semaphores, LocationsOK,
         Threads, Holders, Planners
    <2>. QED BY <2>1, Counts DEF KernelInv, SemaphoresMatchQueues, ReadyForExecCounts, One,
       Planners
  <1>9. ProcessForIoCounts'
    BY DEF KernelInv, KernelTypeOK, ToExec_Ready, SemaphoresMatchQueues, ProcessForIoCounts,
       SemaphoresOK, Semaphores, QueuesOK, Queues
  <1>10. ToExitCounts'
    BY DEF KernelInv, KernelTypeOK, ToExec_Ready, SemaphoresMatchQueues, ToExitCounts,
       SemaphoresOK, Semaphores, QueuesOK, Queues
  <1>. QED BY <1>4, <1>5, <1>6, <1>7, <1>8, <1>9, <1>10 DEF KernelInv, SemaphoresMatchQueues

\* to_exec takes cpu_free, still holding its permit of ready_for_exec.
LEMMA ToExec_Cpu_Step ==
  ASSUME KernelInv, ToExec_Cpu
  PROVE  KernelInv'
  <1>1. SemaphoresOK'
    BY DEF KernelInv, KernelTypeOK, ToExec_Cpu, SemaphoresOK, Semaphores
  <1>2. LocationsOK'
    BY DEF KernelInv, KernelTypeOK, ToExec_Cpu, LocationsOK, Threads, Holders, Planners,
       Locations
  <1>3. UNCHANGED <<queue, hand, execution_mutex, arrivals, departures, socketVars>>
    BY DEF ToExec_Cpu, socketVars, arrivals, departures
  <1>4. KernelTypeOK' /\ SocketsTypeOK'
    BY <1>1, <1>2, <1>3 DEF KernelInv, KernelTypeOK, QueuesOK, HandsOK, MutexOK, ArrivalsOK,
       DeparturesOK, SocketsTypeOK, socketVars, arrivals, departures
  <1>5. HandsFull'
    BY DEF KernelInv, KernelTypeOK, ToExec_Cpu, HandsFull, LocationsOK, HandsOK, Threads,
       Holders, Planners
  <1>6. OneAdmission'
    BY DEF KernelInv, KernelTypeOK, ToExec_Cpu, OneAdmission, LocationsOK, SemaphoresOK,
       Semaphores, QueuesOK, Queues, Threads, Holders, Planners
  <1>7. SemaphoresMatchQueues'
    BY DEF KernelInv, KernelTypeOK, ToExec_Cpu, SemaphoresMatchQueues, AnyForReadyCounts,
       ReadyForExecCounts, ProcessForIoCounts, ToExitCounts, One, LocationsOK, SemaphoresOK,
       Semaphores, QueuesOK, Queues, Threads, Holders, Planners
  <1>. QED BY <1>4, <1>5, <1>6, <1>7 DEF KernelInv

\* to_exec takes from ready_q for the permit it holds, and dispatches.
LEMMA ToExec_Dispatch_Step ==
  ASSUME KernelInv, ToExec_Dispatch
  PROVE  KernelInv'
  <1>1. QueuesOK'
    BY DEF KernelInv, KernelTypeOK, ToExec_Dispatch, QueuesOK, Queues, HandsOK, HandsFull,
       LocationsOK, SocketsTypeOK, Holders, Planners, Threads, Returns
  <1>2. LocationsOK'
    BY DEF KernelInv, KernelTypeOK, ToExec_Dispatch, LocationsOK, Threads, Holders, Planners,
       Locations
  <1>3. SocketsTypeOK'
    BY DEF KernelInv, KernelTypeOK, ToExec_Dispatch, SocketsTypeOK, QueuesOK, Queues
  <1>4. UNCHANGED <<sem, hand, execution_mutex, arrivals, departures>>
    BY DEF ToExec_Dispatch, arrivals, departures
  <1>5. KernelTypeOK' /\ SocketsTypeOK'
    BY <1>1, <1>2, <1>3, <1>4 DEF KernelInv, KernelTypeOK, SemaphoresOK, HandsOK, MutexOK,
       ArrivalsOK, DeparturesOK, socketVars, arrivals, departures
  <1>6. HandsFull'
    BY DEF KernelInv, KernelTypeOK, ToExec_Dispatch, HandsFull, LocationsOK, HandsOK, Threads,
       Holders, Planners
  <1>7. OneAdmission'
    BY DEF KernelInv, KernelTypeOK, ToExec_Dispatch, OneAdmission, LocationsOK, SemaphoresOK,
       Semaphores, QueuesOK, Queues, Threads, Holders, Planners
  <1>8. AnyForReadyCounts'
    BY DEF KernelInv, KernelTypeOK, ToExec_Dispatch, SemaphoresMatchQueues, AnyForReadyCounts,
       One, LocationsOK, SemaphoresOK, Semaphores, QueuesOK, Queues, Threads, Holders,
       Planners
  <1>9. ReadyForExecCounts'
    <2>1. Len(queue["ready_q"]) \in Nat /\ sem["ready_for_exec"] \in Nat
      BY QueueNames DEF KernelInv, KernelTypeOK, QueuesOK, SemaphoresOK, Semaphores
    <2>2. Len(queue'["ready_q"]) = Len(queue["ready_q"]) - 1
      BY TakeLemma, QueueNames DEF ToExec_Dispatch, KernelInv, KernelTypeOK, QueuesOK
    <2>3. /\ sem' = sem
          /\ at["to_exec"] = "execution_mutex" /\ at'["to_exec"] = "ready_for_exec"
          /\ \A u \in Planners : at'[u] = at[u]
      BY DEF ToExec_Dispatch, KernelInv, KernelTypeOK, SemaphoresOK, Semaphores, LocationsOK,
         Threads, Holders, Planners
    <2>4. PICK i \in Nat, j \in Nat :
            /\ i = One(at["to_ready"] = "interrupt_ready")
            /\ j = One(at["io_listener"] = "interrupt_ready")
      BY DEF One
    <2>5. at'["to_ready"] = at["to_ready"] /\ at'["io_listener"] = at["io_listener"]
      BY <2>3 DEF Planners
    <2>6. /\ One(at["to_exec"] # "ready_for_exec") = 1
          /\ One(at'["to_exec"] # "ready_for_exec") = 0
      BY <2>3 DEF One
    <2>7. sem["ready_for_exec"] + 1 + i + j = Len(queue["ready_q"])
      BY <2>4, <2>6 DEF KernelInv, SemaphoresMatchQueues, ReadyForExecCounts
    <2>8. sem["ready_for_exec"] + 0 + i + j = Len(queue'["ready_q"])
      BY <2>1, <2>2, <2>7
    <2>. QED BY <2>3, <2>4, <2>5, <2>6, <2>8 DEF ReadyForExecCounts
  <1>10. ProcessForIoCounts'
    BY DEF KernelInv, KernelTypeOK, ToExec_Dispatch, SemaphoresMatchQueues,
       ProcessForIoCounts, SemaphoresOK, Semaphores, QueuesOK, Queues
  <1>11. ToExitCounts'
    BY DEF KernelInv, KernelTypeOK, ToExec_Dispatch, SemaphoresMatchQueues, ToExitCounts,
       SemaphoresOK, Semaphores, QueuesOK, Queues
  <1>. QED BY <1>5, <1>6, <1>7, <1>8, <1>9, <1>10, <1>11 DEF KernelInv, SemaphoresMatchQueues

\* io_listener takes a blocked process whose I/O fits.
LEMMA IoListener_Fits_Step ==
  ASSUME KernelInv, IoListener_Fits
  PROVE  KernelInv'
  <1>1. SemaphoresOK'
    BY DEF KernelInv, KernelTypeOK, IoListener_Fits, IoListener_Take, SemaphoresOK, Semaphores
  <1>2. HandsOK'
    BY DEF KernelInv, KernelTypeOK, IoListener_Fits, IoListener_Take, HandsOK, Holders,
       Planners, QueuesOK, Queues
  <1>3. QueuesOK'
    BY DEF KernelInv, KernelTypeOK, IoListener_Fits, IoListener_Take, QueuesOK, Queues,
       HandsOK, HandsFull, LocationsOK, SocketsTypeOK, Holders, Planners, Threads, Returns
  <1>4. LocationsOK'
    BY DEF KernelInv, KernelTypeOK, IoListener_Fits, IoListener_Take, LocationsOK, Threads,
       Holders, Planners, Locations
  <1>5. UNCHANGED <<execution_mutex, arrivals, departures, socketVars>>
    BY DEF IoListener_Fits, IoListener_Take, socketVars, arrivals, departures
  <1>6. KernelTypeOK' /\ SocketsTypeOK'
    BY <1>1, <1>2, <1>3, <1>4, <1>5 DEF KernelInv, KernelTypeOK, MutexOK, ArrivalsOK,
       DeparturesOK, SocketsTypeOK, socketVars, arrivals, departures
  <1>7. HandsFull'
    BY DEF KernelInv, KernelTypeOK, IoListener_Fits, IoListener_Take, HandsFull, LocationsOK,
       HandsOK, QueuesOK, Queues, Threads, Holders, Planners, LoopStart
  <1>8. OneAdmission'
    BY DEF KernelInv, KernelTypeOK, IoListener_Fits, IoListener_Take, OneAdmission,
       LocationsOK, SemaphoresOK, Semaphores, QueuesOK, Queues, Threads, Holders, Planners
  <1>9. SemaphoresMatchQueues'
    BY DEF KernelInv, KernelTypeOK, IoListener_Fits, IoListener_Take, SemaphoresMatchQueues,
       AnyForReadyCounts, ReadyForExecCounts, ProcessForIoCounts, ToExitCounts, One,
       LocationsOK, SemaphoresOK, Semaphores, QueuesOK, Queues, Threads, Holders, Planners
  <1>. QED BY <1>6, <1>7, <1>8, <1>9 DEF KernelInv

\* io_listener takes a blocked process whose I/O is too long.
LEMMA IoListener_Exceeds_Step ==
  ASSUME KernelInv, IoListener_Exceeds
  PROVE  KernelInv'
  <1>1. SemaphoresOK'
    BY DEF KernelInv, KernelTypeOK, IoListener_Exceeds, IoListener_Take, SemaphoresOK,
       Semaphores
  <1>2. HandsOK'
    BY DEF KernelInv, KernelTypeOK, IoListener_Exceeds, IoListener_Take, HandsOK, Holders,
       Planners, QueuesOK, Queues
  <1>3. QueuesOK'
    BY DEF KernelInv, KernelTypeOK, IoListener_Exceeds, IoListener_Take, QueuesOK, Queues,
       HandsOK, HandsFull, LocationsOK, SocketsTypeOK, Holders, Planners, Threads, Returns
  <1>4. LocationsOK'
    BY DEF KernelInv, KernelTypeOK, IoListener_Exceeds, IoListener_Take, LocationsOK, Threads,
       Holders, Planners, Locations
  <1>5. UNCHANGED <<execution_mutex, arrivals, departures, socketVars>>
    BY DEF IoListener_Exceeds, IoListener_Take, socketVars, arrivals, departures
  <1>6. KernelTypeOK' /\ SocketsTypeOK'
    BY <1>1, <1>2, <1>3, <1>4, <1>5 DEF KernelInv, KernelTypeOK, MutexOK, ArrivalsOK,
       DeparturesOK, SocketsTypeOK, socketVars, arrivals, departures
  <1>7. HandsFull'
    BY DEF KernelInv, KernelTypeOK, IoListener_Exceeds, IoListener_Take, HandsFull,
       LocationsOK, HandsOK, QueuesOK, Queues, Threads, Holders, Planners, LoopStart
  <1>8. OneAdmission'
    BY DEF KernelInv, KernelTypeOK, IoListener_Exceeds, IoListener_Take, OneAdmission,
       LocationsOK, SemaphoresOK, Semaphores, QueuesOK, Queues, Threads, Holders, Planners
  <1>9. SemaphoresMatchQueues'
    BY DEF KernelInv, KernelTypeOK, IoListener_Exceeds, IoListener_Take,
       SemaphoresMatchQueues, AnyForReadyCounts, ReadyForExecCounts, ProcessForIoCounts,
       ToExitCounts, One, LocationsOK, SemaphoresOK, Semaphores, QueuesOK, Queues, Threads,
       Holders, Planners
  <1>. QED BY <1>6, <1>7, <1>8, <1>9 DEF KernelInv

\* io_listener takes a suspended process when none is blocked.
LEMMA IoListener_Suspended_Step ==
  ASSUME KernelInv, IoListener_Suspended
  PROVE  KernelInv'
  <1>1. SemaphoresOK'
    BY DEF KernelInv, KernelTypeOK, IoListener_Suspended, IoListener_Take, SemaphoresOK,
       Semaphores
  <1>2. HandsOK'
    BY DEF KernelInv, KernelTypeOK, IoListener_Suspended, IoListener_Take, HandsOK, Holders,
       Planners, QueuesOK, Queues
  <1>3. QueuesOK'
    BY DEF KernelInv, KernelTypeOK, IoListener_Suspended, IoListener_Take, QueuesOK, Queues,
       HandsOK, HandsFull, LocationsOK, SocketsTypeOK, Holders, Planners, Threads, Returns
  <1>4. LocationsOK'
    BY DEF KernelInv, KernelTypeOK, IoListener_Suspended, IoListener_Take, LocationsOK,
       Threads, Holders, Planners, Locations
  <1>5. UNCHANGED <<execution_mutex, arrivals, departures, socketVars>>
    BY DEF IoListener_Suspended, IoListener_Take, socketVars, arrivals, departures
  <1>6. KernelTypeOK' /\ SocketsTypeOK'
    BY <1>1, <1>2, <1>3, <1>4, <1>5 DEF KernelInv, KernelTypeOK, MutexOK, ArrivalsOK,
       DeparturesOK, SocketsTypeOK, socketVars, arrivals, departures
  <1>7. HandsFull'
    BY DEF KernelInv, KernelTypeOK, IoListener_Suspended, IoListener_Take, HandsFull,
       LocationsOK, HandsOK, QueuesOK, Queues, Threads, Holders, Planners, LoopStart
  <1>8. OneAdmission'
    BY DEF KernelInv, KernelTypeOK, IoListener_Suspended, IoListener_Take, OneAdmission,
       LocationsOK, SemaphoresOK, Semaphores, QueuesOK, Queues, Threads, Holders, Planners
  <1>9. SemaphoresMatchQueues'
    BY DEF KernelInv, KernelTypeOK, IoListener_Suspended, IoListener_Take,
       SemaphoresMatchQueues, AnyForReadyCounts, ReadyForExecCounts, ProcessForIoCounts,
       ToExitCounts, One, LocationsOK, SemaphoresOK, Semaphores, QueuesOK, Queues, Threads,
       Holders, Planners
  <1>. QED BY <1>6, <1>7, <1>8, <1>9 DEF KernelInv

\* io_listener sends PROCESS_SUSPEND for the process it holds.
LEMMA IoListener_Suspend_Step ==
  ASSUME KernelInv, IoListener_Suspend
  PROVE  KernelInv'
  <1>1. LocationsOK'
    BY DEF KernelInv, KernelTypeOK, IoListener_Suspend, LocationsOK, Threads, Holders,
       Planners, Locations
  <1>2. SocketsTypeOK'
    <2>1. hand["io_listener"] \in Pcb
      BY DEF IoListener_Suspend, KernelInv, HandsFull
    <2>2. PICK m \in MemoryRequests : memory_requests' = Append(memory_requests, m)
      BY <2>1, SuspendPacket DEF IoListener_Suspend
    <2>3. UNCHANGED <<dispatch, interrupts, returns, memory_answers>>
      BY DEF IoListener_Suspend
    <2>. QED BY <2>2, <2>3 DEF KernelInv, SocketsTypeOK
  <1>3. UNCHANGED <<sem, queue, hand, execution_mutex, arrivals, departures>>
    BY DEF IoListener_Suspend, arrivals, departures
  <1>4. KernelTypeOK' /\ SocketsTypeOK'
    BY <1>1, <1>2, <1>3 DEF KernelInv, KernelTypeOK, SemaphoresOK, QueuesOK, HandsOK, MutexOK,
       ArrivalsOK, DeparturesOK, socketVars, arrivals, departures
  <1>5. HandsFull'
    BY DEF KernelInv, KernelTypeOK, IoListener_Suspend, HandsFull, LocationsOK, HandsOK,
       Threads, Holders, Planners
  <1>6. OneAdmission'
    BY DEF KernelInv, KernelTypeOK, IoListener_Suspend, OneAdmission, LocationsOK,
       SemaphoresOK, Semaphores, QueuesOK, Queues, Threads, Holders, Planners
  <1>7. SemaphoresMatchQueues'
    BY DEF KernelInv, KernelTypeOK, IoListener_Suspend, SemaphoresMatchQueues,
       AnyForReadyCounts, ReadyForExecCounts, ProcessForIoCounts, ToExitCounts, One,
       LocationsOK, SemaphoresOK, Semaphores, QueuesOK, Queues, Threads, Holders, Planners
  <1>. QED BY <1>4, <1>5, <1>6, <1>7 DEF KernelInv

\* io_listener suspends the process it holds and posts process_for_IO again for
\* the rest of its I/O.
LEMMA IoListener_Wait_Step ==
  ASSUME KernelInv, IoListener_Wait
  PROVE  KernelInv'
  <1>1. SemaphoresOK'
    <2>1. sem' = [sem EXCEPT !["waiting_for_suspension"] = @ - 1,
                          !["sem_multiprogram"] = @ + 1, !["process_for_IO"] = @ + 1]
          /\ sem["waiting_for_suspension"] > 0
      BY DEF IoListener_Wait
    <2>. QED BY <2>1 DEF KernelInv, KernelTypeOK, SemaphoresOK, Semaphores
  <1>2. QueuesOK'
    BY DEF KernelInv, KernelTypeOK, IoListener_Wait, QueuesOK, Queues, HandsOK, HandsFull,
       LocationsOK, SocketsTypeOK, Holders, Planners, Threads, Returns
  <1>3. HandsOK'
    BY DEF KernelInv, KernelTypeOK, IoListener_Wait, HandsOK, Holders, Planners, QueuesOK,
       Queues
  <1>4. LocationsOK'
    BY DEF KernelInv, KernelTypeOK, IoListener_Wait, LocationsOK, Threads, Holders, Planners,
       Locations
  <1>5. UNCHANGED <<execution_mutex, arrivals, departures, socketVars>>
    BY DEF IoListener_Wait, socketVars, arrivals, departures
  <1>6. KernelTypeOK' /\ SocketsTypeOK'
    BY <1>1, <1>2, <1>3, <1>4, <1>5 DEF KernelInv, KernelTypeOK, MutexOK, ArrivalsOK,
       DeparturesOK, SocketsTypeOK, socketVars, arrivals, departures
  <1>7. HandsFull'
    BY DEF KernelInv, KernelTypeOK, IoListener_Wait, HandsFull, LocationsOK, HandsOK, Threads,
       Holders, Planners
  <1>8. OneAdmission'
    BY DEF KernelInv, KernelTypeOK, IoListener_Wait, OneAdmission, LocationsOK, SemaphoresOK,
       Semaphores, QueuesOK, Queues, Threads, Holders, Planners
  <1>9. AnyForReadyCounts'
    BY DEF KernelInv, KernelTypeOK, IoListener_Wait, SemaphoresMatchQueues, AnyForReadyCounts,
       One, LocationsOK, SemaphoresOK, Semaphores, QueuesOK, Queues, Threads, Holders,
       Planners
  <1>10. ReadyForExecCounts'
    BY DEF KernelInv, KernelTypeOK, IoListener_Wait, SemaphoresMatchQueues,
       ReadyForExecCounts, One, LocationsOK, SemaphoresOK, Semaphores, QueuesOK, Queues,
       Threads, Holders, Planners
  <1>11. ProcessForIoCounts'
    BY DEF KernelInv, KernelTypeOK, IoListener_Wait, SemaphoresMatchQueues,
       ProcessForIoCounts, SemaphoresOK, Semaphores, QueuesOK, Queues
  <1>12. ToExitCounts'
    BY DEF KernelInv, KernelTypeOK, IoListener_Wait, SemaphoresMatchQueues, ToExitCounts,
       SemaphoresOK, Semaphores, QueuesOK, Queues
  <1>. QED BY <1>6, <1>7, <1>8, <1>9, <1>10, <1>11, <1>12 DEF KernelInv, SemaphoresMatchQueues

\* io_listener hands a suspended process to to_ready.
LEMMA IoListener_Finish_Step ==
  ASSUME KernelInv, IoListener_Finish
  PROVE  KernelInv'
  <1>1. SemaphoresOK'
    BY DEF KernelInv, KernelTypeOK, IoListener_Finish, SemaphoresOK, Semaphores
  <1>2. QueuesOK'
    BY DEF KernelInv, KernelTypeOK, IoListener_Finish, QueuesOK, Queues, HandsOK, HandsFull,
       LocationsOK, SocketsTypeOK, Holders, Planners, Threads, Returns
  <1>3. HandsOK'
    BY DEF KernelInv, KernelTypeOK, IoListener_Finish, HandsOK, Holders, Planners, QueuesOK,
       Queues
  <1>4. LocationsOK'
    BY DEF KernelInv, KernelTypeOK, IoListener_Finish, LocationsOK, Threads, Holders,
       Planners, Locations
  <1>5. UNCHANGED <<execution_mutex, arrivals, departures, socketVars>>
    BY DEF IoListener_Finish, socketVars, arrivals, departures
  <1>6. KernelTypeOK' /\ SocketsTypeOK'
    BY <1>1, <1>2, <1>3, <1>4, <1>5 DEF KernelInv, KernelTypeOK, MutexOK, ArrivalsOK,
       DeparturesOK, SocketsTypeOK, socketVars, arrivals, departures
  <1>7. HandsFull'
    BY DEF KernelInv, KernelTypeOK, IoListener_Finish, HandsFull, LocationsOK, HandsOK,
       Threads, Holders, Planners
  <1>8. OneAdmission'
    BY DEF KernelInv, KernelTypeOK, IoListener_Finish, OneAdmission, LocationsOK,
       SemaphoresOK, Semaphores, QueuesOK, Queues, Threads, Holders, Planners
  <1>9. AnyForReadyCounts'
    <2>1. /\ Len(queue'["suspended_ready_q"]) = Len(queue["suspended_ready_q"]) + 1
          /\ queue'["new_q"] = queue["new_q"]
      BY QueueNames DEF IoListener_Finish, KernelInv, KernelTypeOK, QueuesOK, Queues,
         HandsFull
    <2>2. /\ sem'["any_for_ready"] = sem["any_for_ready"] + 1
          /\ at'["to_ready"] = at["to_ready"]
      BY DEF IoListener_Finish, KernelInv, KernelTypeOK, SemaphoresOK, Semaphores,
         LocationsOK, Threads, Holders, Planners
    <2>. QED BY <2>1, <2>2, AnyForReadyPut
  <1>10. ReadyForExecCounts'
    BY DEF KernelInv, KernelTypeOK, IoListener_Finish, SemaphoresMatchQueues,
       ReadyForExecCounts, One, LocationsOK, SemaphoresOK, Semaphores, QueuesOK, Queues,
       Threads, Holders, Planners
  <1>11. ProcessForIoCounts'
    BY DEF KernelInv, KernelTypeOK, IoListener_Finish, SemaphoresMatchQueues,
       ProcessForIoCounts, SemaphoresOK, Semaphores, QueuesOK, Queues
  <1>12. ToExitCounts'
    BY DEF KernelInv, KernelTypeOK, IoListener_Finish, SemaphoresMatchQueues, ToExitCounts,
       SemaphoresOK, Semaphores, QueuesOK, Queues
  <1>. QED BY <1>6, <1>7, <1>8, <1>9, <1>10, <1>11, <1>12 DEF KernelInv, SemaphoresMatchQueues

\* exit_process takes from exit_q and sends PROCESS_EXIT.
LEMMA ExitProcess_Send_Step ==
  ASSUME KernelInv, ExitProcess_Send
  PROVE  KernelInv'
  <1>1. HandsOK'
    BY DEF KernelInv, KernelTypeOK, ExitProcess_Send, HandsOK, Holders, Planners, QueuesOK,
       Queues
  <1>2. SocketsTypeOK'
    <2>1. Head(queue["exit_q"]) \in Pcb
      BY TakeLemma, QueueNames DEF ExitProcess_Send, KernelInv, KernelTypeOK
    <2>2. PICK m \in MemoryRequests : memory_requests' = Append(memory_requests, m)
      BY <2>1, SuspendPacket DEF ExitProcess_Send
    <2>3. UNCHANGED <<dispatch, interrupts, returns, memory_answers>>
      BY DEF ExitProcess_Send
    <2>. QED BY <2>2, <2>3 DEF KernelInv, SocketsTypeOK
  <1>3. SemaphoresOK'
    BY DEF KernelInv, KernelTypeOK, ExitProcess_Send, SemaphoresOK, Semaphores
  <1>4. QueuesOK'
    <2>1. queue' = [queue EXCEPT !["exit_q"] = Tail(@)] /\ queue["exit_q"] # <<>>
      BY DEF ExitProcess_Send
    <2>. QED BY <2>1, TakeLemma, QueueNames DEF KernelInv, KernelTypeOK, QueuesOK
  <1>5. LocationsOK'
    BY DEF KernelInv, KernelTypeOK, ExitProcess_Send, LocationsOK, Threads, Holders, Planners,
       Locations
  <1>6. UNCHANGED <<execution_mutex, arrivals, departures>>
    BY DEF ExitProcess_Send, arrivals, departures
  <1>7. KernelTypeOK' /\ SocketsTypeOK'
    BY <1>1, <1>2, <1>3, <1>4, <1>5, <1>6 DEF KernelInv, KernelTypeOK, MutexOK, ArrivalsOK,
       DeparturesOK, socketVars, arrivals, departures
  <1>8. HandsFull'
    BY DEF KernelInv, KernelTypeOK, ExitProcess_Send, HandsFull, LocationsOK, HandsOK,
       QueuesOK, Queues, Threads, Holders, Planners, LoopStart
  <1>9. OneAdmission'
    BY DEF KernelInv, KernelTypeOK, ExitProcess_Send, OneAdmission, LocationsOK, SemaphoresOK,
       Semaphores, QueuesOK, Queues, Threads, Holders, Planners
  <1>10. SemaphoresMatchQueues'
    BY DEF KernelInv, KernelTypeOK, ExitProcess_Send, SemaphoresMatchQueues,
       AnyForReadyCounts, ReadyForExecCounts, ProcessForIoCounts, ToExitCounts, One,
       LocationsOK, SemaphoresOK, Semaphores, QueuesOK, Queues, Threads, Holders, Planners
  <1>. QED BY <1>7, <1>8, <1>9, <1>10 DEF KernelInv

\* exit_process puts the pcb where exit_process_success looks for it.
LEMMA ExitProcess_Put_Step ==
  ASSUME KernelInv, ExitProcess_Put
  PROVE  KernelInv'
  <1>1. DeparturesOK'
    BY DEF KernelInv, KernelTypeOK, ExitProcess_Put, DeparturesOK, Holders, Planners, HandsOK,
       HandsFull, departures
  <1>2. HandsOK'
    BY DEF KernelInv, KernelTypeOK, ExitProcess_Put, HandsOK, Holders, Planners, QueuesOK,
       Queues
  <1>3. LocationsOK'
    BY DEF KernelInv, KernelTypeOK, ExitProcess_Put, LocationsOK, Threads, Holders, Planners,
       Locations
  <1>4. UNCHANGED <<sem, queue, execution_mutex, arrivals, socketVars>>
    BY DEF ExitProcess_Put, socketVars, arrivals
  <1>5. KernelTypeOK' /\ SocketsTypeOK'
    BY <1>1, <1>2, <1>3, <1>4 DEF KernelInv, KernelTypeOK, SemaphoresOK, QueuesOK, MutexOK,
       ArrivalsOK, SocketsTypeOK, socketVars, arrivals, departures
  <1>6. HandsFull'
    BY DEF KernelInv, KernelTypeOK, ExitProcess_Put, HandsFull, LocationsOK, HandsOK, Threads,
       Holders, Planners
  <1>7. OneAdmission'
    BY DEF KernelInv, KernelTypeOK, ExitProcess_Put, OneAdmission, LocationsOK, SemaphoresOK,
       Semaphores, QueuesOK, Queues, Threads, Holders, Planners
  <1>8. SemaphoresMatchQueues'
    BY DEF KernelInv, KernelTypeOK, ExitProcess_Put, SemaphoresMatchQueues, AnyForReadyCounts,
       ReadyForExecCounts, ProcessForIoCounts, ToExitCounts, One, LocationsOK, SemaphoresOK,
       Semaphores, QueuesOK, Queues, Threads, Holders, Planners
  <1>. QED BY <1>5, <1>6, <1>7, <1>8 DEF KernelInv

\* io_op: one process in blocked_q, one permit in process_for_IO.
LEMMA IoOp_Step ==
  ASSUME KernelInv, IoOp
  PROVE  KernelInv'
  <1>1. QueuesOK'
    <2>1. PICK e \in Estimates : queue' = [queue EXCEPT !["blocked_q"] =
                     Append(@, [Head(returns).pcb EXCEPT !.left_burst_estimation = e])]
      BY DEF IoOp
    <2>. QED BY <2>1, ReturnLemma, EstimateLemma, PutLemma, QueueNames DEF IoOp, Returned,
       KernelInv, KernelTypeOK
  <1>2. SemaphoresOK'
    <2>1. sem' = [sem EXCEPT !["cpu_free"] = @ + 1, !["process_for_IO"] = @ + 1]
      BY DEF IoOp
    <2>. QED BY <2>1 DEF KernelInv, KernelTypeOK, SemaphoresOK, Semaphores
  <1>3. SocketsTypeOK'
    BY DEF KernelInv, KernelTypeOK, IoOp, Returned, SocketsTypeOK, QueuesOK, Queues
  <1>4. UNCHANGED <<at, hand, execution_mutex, arrivals, departures>>
    BY DEF IoOp, Returned, arrivals, departures
  <1>5. KernelTypeOK' /\ SocketsTypeOK'
    BY <1>1, <1>2, <1>3, <1>4 DEF KernelInv, KernelTypeOK, LocationsOK, HandsOK, MutexOK,
       ArrivalsOK, DeparturesOK, socketVars, arrivals, departures
  <1>6. HandsFull'
    BY DEF KernelInv, KernelTypeOK, IoOp, Returned, HandsFull, LocationsOK, HandsOK, Threads,
       Holders, Planners
  <1>7. OneAdmission'
    BY DEF KernelInv, KernelTypeOK, IoOp, Returned, OneAdmission, LocationsOK, SemaphoresOK,
       Semaphores, QueuesOK, Queues, Threads, Holders, Planners
  <1>8. AnyForReadyCounts'
    BY DEF KernelInv, KernelTypeOK, IoOp, Returned, SemaphoresMatchQueues, AnyForReadyCounts,
       One, LocationsOK, SemaphoresOK, Semaphores, QueuesOK, Queues, Threads, Holders,
       Planners
  <1>9. ReadyForExecCounts'
    BY DEF KernelInv, KernelTypeOK, IoOp, Returned, SemaphoresMatchQueues, ReadyForExecCounts,
       One, LocationsOK, SemaphoresOK, Semaphores, QueuesOK, Queues, Threads, Holders,
       Planners
  <1>10. ProcessForIoCounts'
    BY DEF KernelInv, KernelTypeOK, IoOp, Returned, SemaphoresMatchQueues, ProcessForIoCounts,
       SemaphoresOK, Semaphores, QueuesOK, Queues
  <1>11. ToExitCounts'
    BY DEF KernelInv, KernelTypeOK, IoOp, Returned, SemaphoresMatchQueues, ToExitCounts,
       SemaphoresOK, Semaphores, QueuesOK, Queues
  <1>. QED BY <1>5, <1>6, <1>7, <1>8, <1>9, <1>10, <1>11 DEF KernelInv, SemaphoresMatchQueues

\* exit_op: one process in exit_q, one permit in to_exit.
LEMMA ExitOp_Step ==
  ASSUME KernelInv, ExitOp
  PROVE  KernelInv'
  <1>1. QueuesOK'
    BY ReturnLemma, PutLemma, QueueNames DEF ExitOp, Returned, KernelInv, KernelTypeOK
  <1>2. SemaphoresOK'
    <2>1. sem' = [sem EXCEPT !["to_exit"] = @ + 1, !["cpu_free"] = @ + 1]
      BY DEF ExitOp
    <2>. QED BY <2>1 DEF KernelInv, KernelTypeOK, SemaphoresOK, Semaphores
  <1>3. SocketsTypeOK'
    BY DEF KernelInv, KernelTypeOK, ExitOp, Returned, SocketsTypeOK, QueuesOK, Queues
  <1>4. UNCHANGED <<at, hand, execution_mutex, arrivals, departures>>
    BY DEF ExitOp, Returned, arrivals, departures
  <1>5. KernelTypeOK' /\ SocketsTypeOK'
    BY <1>1, <1>2, <1>3, <1>4 DEF KernelInv, KernelTypeOK, LocationsOK, HandsOK, MutexOK,
       ArrivalsOK, DeparturesOK, socketVars, arrivals, departures
  <1>6. HandsFull'
    BY DEF KernelInv, KernelTypeOK, ExitOp, Returned, HandsFull, LocationsOK, HandsOK,
       Threads, Holders, Planners
  <1>7. OneAdmission'
    BY DEF KernelInv, KernelTypeOK, ExitOp, Returned, OneAdmission, LocationsOK, SemaphoresOK,
       Semaphores, QueuesOK, Queues, Threads, Holders, Planners
  <1>8. AnyForReadyCounts'
    BY DEF KernelInv, KernelTypeOK, ExitOp, Returned, SemaphoresMatchQueues,
       AnyForReadyCounts, One, LocationsOK, SemaphoresOK, Semaphores, QueuesOK, Queues,
       Threads, Holders, Planners
  <1>9. ReadyForExecCounts'
    BY DEF KernelInv, KernelTypeOK, ExitOp, Returned, SemaphoresMatchQueues,
       ReadyForExecCounts, One, LocationsOK, SemaphoresOK, Semaphores, QueuesOK, Queues,
       Threads, Holders, Planners
  <1>10. ProcessForIoCounts'
    BY DEF KernelInv, KernelTypeOK, ExitOp, Returned, SemaphoresMatchQueues,
       ProcessForIoCounts, SemaphoresOK, Semaphores, QueuesOK, Queues
  <1>11. ToExitCounts'
    BY DEF KernelInv, KernelTypeOK, ExitOp, Returned, SemaphoresMatchQueues, ToExitCounts,
       SemaphoresOK, Semaphores, QueuesOK, Queues
  <1>. QED BY <1>5, <1>6, <1>7, <1>8, <1>9, <1>10, <1>11 DEF KernelInv, SemaphoresMatchQueues

\* handle_interruption: one process in ready_q, one permit in ready_for_exec,
\* whoever holds execution_mutex.
LEMMA HandleInterruption_Step ==
  ASSUME KernelInv, HandleInterruption
  PROVE  KernelInv'
  <1>1. QueuesOK'
    <2>1. PICK e \in Estimates : queue' = [queue EXCEPT !["ready_q"] =
                     Append(@, [Head(returns).pcb EXCEPT !.left_burst_estimation = e])]
      BY DEF HandleInterruption
    <2>. QED BY <2>1, ReturnLemma, EstimateLemma, PutLemma, QueueNames DEF HandleInterruption,
       Returned, KernelInv, KernelTypeOK
  <1>2. SemaphoresOK'
    <2>1. sem' = [sem EXCEPT !["ready_for_exec"] = @ + 1, !["cpu_free"] = @ + 1,
                                !["interrupt_ready"] = @ + 1]
      BY DEF HandleInterruption
    <2>. QED BY <2>1 DEF KernelInv, KernelTypeOK, SemaphoresOK, Semaphores
  <1>3. SocketsTypeOK'
    BY DEF KernelInv, KernelTypeOK, HandleInterruption, Returned, SocketsTypeOK, QueuesOK,
       Queues
  <1>4. UNCHANGED <<at, hand, execution_mutex, arrivals, departures>>
    BY DEF HandleInterruption, Returned, arrivals, departures
  <1>5. KernelTypeOK' /\ SocketsTypeOK'
    BY <1>1, <1>2, <1>3, <1>4 DEF KernelInv, KernelTypeOK, LocationsOK, HandsOK, MutexOK,
       ArrivalsOK, DeparturesOK, socketVars, arrivals, departures
  <1>6. HandsFull'
    BY DEF KernelInv, KernelTypeOK, HandleInterruption, Returned, HandsFull, LocationsOK,
       HandsOK, Threads, Holders, Planners
  <1>7. OneAdmission'
    BY DEF KernelInv, KernelTypeOK, HandleInterruption, Returned, OneAdmission, LocationsOK,
       SemaphoresOK, Semaphores, QueuesOK, Queues, Threads, Holders, Planners
  <1>8. AnyForReadyCounts'
    BY DEF KernelInv, KernelTypeOK, HandleInterruption, Returned, SemaphoresMatchQueues,
       AnyForReadyCounts, One, LocationsOK, SemaphoresOK, Semaphores, QueuesOK, Queues,
       Threads, Holders, Planners
  <1>9. ReadyForExecCounts'
    <2>1. Len(queue["ready_q"]) \in Nat /\ sem["ready_for_exec"] \in Nat
      BY QueueNames DEF KernelInv, KernelTypeOK, QueuesOK, SemaphoresOK, Semaphores
    <2>2. Len(queue'["ready_q"]) = Len(queue["ready_q"]) + 1
      <3>1. PICK p : queue' = [queue EXCEPT !["ready_q"] = Append(@, p)]
        BY DEF HandleInterruption
      <3>. QED BY <3>1, QueueNames DEF KernelInv, KernelTypeOK, QueuesOK
    <2>3. sem'["ready_for_exec"] = sem["ready_for_exec"] + 1 /\ at' = at
      BY DEF HandleInterruption, KernelInv, KernelTypeOK, SemaphoresOK, Semaphores,
         LocationsOK, Threads, Holders, Planners
    <2>. QED BY <2>1, <2>2, <2>3 DEF KernelInv, SemaphoresMatchQueues, ReadyForExecCounts,
       One, Planners
  <1>10. ProcessForIoCounts'
    BY DEF KernelInv, KernelTypeOK, HandleInterruption, Returned, SemaphoresMatchQueues,
       ProcessForIoCounts, SemaphoresOK, Semaphores, QueuesOK, Queues
  <1>11. ToExitCounts'
    BY DEF KernelInv, KernelTypeOK, HandleInterruption, Returned, SemaphoresMatchQueues,
       ToExitCounts, SemaphoresOK, Semaphores, QueuesOK, Queues
  <1>. QED BY <1>5, <1>6, <1>7, <1>8, <1>9, <1>10, <1>11 DEF KernelInv, SemaphoresMatchQueues

\* table_index_success: a pid that is found ends the wait of the one admission
\* under way; one that is not changes nothing.
LEMMA TableIndexSuccess_Step ==
  ASSUME KernelInv, TableIndexSuccess
  PROVE KernelInv'
  <1> DEFINE m == Head(memory_answers)
             found == \E i \in DOMAIN queue["memory_init_q"] :
                        queue["memory_init_q"][i].pid = m.pid
  <1>1. /\ memory_answers # <<>> /\ m.header = "PROCESS_MEMORY_READY"
        /\ memory_answers' = Tail(memory_answers)
        /\ UNCHANGED <<at, execution_mutex, arrivals, departures,
                       dispatch, interrupts, returns, memory_requests>>
    BY DEF TableIndexSuccess, Answered
  <1>2. m \in MemoryAnswers /\ SocketsTypeOK'
    BY <1>1 DEF KernelInv, SocketsTypeOK
  <1>3. m.page_table \in Nat /\ m.process_frames_index \in Nat
    BY <1>1, <1>2 DEF MemoryAnswers
  <1>4. CASE ~found
    <2>1. UNCHANGED <<hand, queue, sem>>
      BY <1>4 DEF TableIndexSuccess
    <2>2. KernelTypeOK' /\ HandsFull' /\ OneAdmission' /\ SemaphoresMatchQueues'
      BY <2>1, <1>1 DEF KernelInv, KernelTypeOK, HandsFull, OneAdmission,
         SemaphoresMatchQueues, SemaphoresOK, QueuesOK, LocationsOK, HandsOK, MutexOK,
         ArrivalsOK, DeparturesOK, arrivals, departures, AnyForReadyCounts,
         ReadyForExecCounts, ProcessForIoCounts, ToExitCounts
    <2>. QED BY <2>2, <1>2 DEF KernelInv
  <1>5. CASE found
    <2>1. /\ hand' = [hand EXCEPT !["to_ready"] = [@ EXCEPT !.page_table = m.page_table,
                        !.process_frames_index = m.process_frames_index]]
          /\ queue' = [queue EXCEPT !["memory_init_q"] = Tail(@)]
          /\ sem' = [sem EXCEPT !["pcb_table_ready"] = @ + 1]
      BY <1>5 DEF TableIndexSuccess
    <2>2. /\ Len(queue["memory_init_q"]) \in Nat /\ sem["pcb_table_ready"] \in Nat
          /\ queue["memory_init_q"] # <<>> /\ Len(queue["memory_init_q"]) > 0
      BY <1>5, QueueNames DEF KernelInv, KernelTypeOK, QueuesOK, SemaphoresOK, Semaphores
    <2>3. at["to_ready"] = "pcb_table_ready" /\ hand["to_ready"] \in Pcb
      BY <2>2 DEF KernelInv, OneAdmission, HandsFull
    <2>4. hand'["to_ready"] \in Pcb /\ HandsOK'
          /\ \A t \in Holders \ {"to_ready"} : hand'[t] = hand[t]
      BY <2>1, <2>3, <1>3, TableLemma DEF KernelInv, KernelTypeOK, HandsOK, Holders, Planners
    <2>5. /\ QueuesOK' /\ Len(queue'["memory_init_q"]) = Len(queue["memory_init_q"]) - 1
          /\ \A q \in Queues \ {"memory_init_q"} : queue'[q] = queue[q]
      BY <2>1, <2>2, TakeLemma, QueueNames DEF KernelInv, KernelTypeOK, QueuesOK
    <2>6. /\ SemaphoresOK' /\ sem'["pcb_table_ready"] = sem["pcb_table_ready"] + 1
          /\ \A s \in Semaphores \ {"pcb_table_ready"} : sem'[s] = sem[s]
      BY <2>1 DEF KernelInv, KernelTypeOK, SemaphoresOK, Semaphores
    <2>7. KernelTypeOK'
      BY <2>4, <2>5, <2>6, <1>1 DEF KernelInv, KernelTypeOK, LocationsOK, MutexOK, ArrivalsOK,
         DeparturesOK, arrivals, departures
    <2>8. HandsFull'
      BY <2>4, <1>1 DEF KernelInv, HandsFull, Holders, Planners
    <2>9. OneAdmission'
      BY <2>2, <2>3, <2>5, <2>6, <1>1 DEF KernelInv, OneAdmission
    <2>10. SemaphoresMatchQueues'
      BY <2>5, <2>6, <1>1 DEF KernelInv, SemaphoresMatchQueues, AnyForReadyCounts,
         ReadyForExecCounts, ProcessForIoCounts, ToExitCounts, Queues, Semaphores
    <2>. QED BY <2>7, <2>8, <2>9, <2>10, <1>2 DEF KernelInv
  <1>. QED BY <1>4, <1>5

\* suspension_success only posts waiting_for_suspension.
LEMMA SuspensionSuccess_Step ==
  ASSUME KernelInv, SuspensionSuccess
  PROVE  KernelInv'
  <1>1. SemaphoresOK'
    BY DEF KernelInv, KernelTypeOK, SuspensionSuccess, Answered, SemaphoresOK, Semaphores
  <1>2. SocketsTypeOK'
    BY DEF KernelInv, KernelTypeOK, SuspensionSuccess, Answered, SocketsTypeOK, QueuesOK,
       Queues
  <1>3. UNCHANGED <<queue, at, hand, execution_mutex, arrivals, departures>>
    BY DEF SuspensionSuccess, Answered, arrivals, departures
  <1>4. KernelTypeOK' /\ SocketsTypeOK'
    BY <1>1, <1>2, <1>3 DEF KernelInv, KernelTypeOK, QueuesOK, LocationsOK, HandsOK, MutexOK,
       ArrivalsOK, DeparturesOK, socketVars, arrivals, departures
  <1>5. HandsFull'
    BY DEF KernelInv, KernelTypeOK, SuspensionSuccess, Answered, HandsFull, LocationsOK,
       HandsOK, Threads, Holders, Planners
  <1>6. OneAdmission'
    BY DEF KernelInv, KernelTypeOK, SuspensionSuccess, Answered, OneAdmission, LocationsOK,
       SemaphoresOK, Semaphores, QueuesOK, Queues, Threads, Holders, Planners
  <1>7. SemaphoresMatchQueues'
    BY DEF KernelInv, KernelTypeOK, SuspensionSuccess, Answered, SemaphoresMatchQueues,
       AnyForReadyCounts, ReadyForExecCounts, ProcessForIoCounts, ToExitCounts, One,
       LocationsOK, SemaphoresOK, Semaphores, QueuesOK, Queues, Threads, Holders, Planners
  <1>. QED BY <1>4, <1>5, <1>6, <1>7 DEF KernelInv

\* exit_process_success frees pcbs in memory_exit_q and posts sem_multiprogram.
LEMMA ExitProcessSuccess_Step ==
  ASSUME KernelInv, ExitProcessSuccess
  PROVE  KernelInv'
  <1>1. SemaphoresOK'
    BY DEF KernelInv, KernelTypeOK, ExitProcessSuccess, Answered, AnswerConsole, ExitsWithPid,
       SemaphoresOK, Semaphores
  <1>2. SocketsTypeOK'
    BY DEF KernelInv, KernelTypeOK, ExitProcessSuccess, Answered, AnswerConsole, ExitsWithPid,
       SocketsTypeOK, QueuesOK, Queues
  <1>3. DeparturesOK'
    <2>1. PICK found \in SUBSET DOMAIN memory_exit_q : AnswerConsole(found)
      BY DEF ExitProcessSuccess, ExitsWithPid
    <2>2. memory_exit_q' = [i \in DOMAIN memory_exit_q |->
                             IF i \in found THEN Freed ELSE memory_exit_q[i]]
      BY <2>1 DEF AnswerConsole
    <2>3. memory_exit_q' \in Seq(Pcb \cup {Freed})
      BY <2>2 DEF KernelInv, KernelTypeOK, DeparturesOK
    <2>4. answers' \in [Consoles -> Nat]
      BY <2>1 DEF AnswerConsole, KernelInv, KernelTypeOK, DeparturesOK
    <2>. QED BY <2>3, <2>4 DEF DeparturesOK
  <1>4. UNCHANGED <<queue, at, hand, execution_mutex, arrivals>>
    BY DEF ExitProcessSuccess, Answered, AnswerConsole, ExitsWithPid, arrivals
  <1>5. KernelTypeOK' /\ SocketsTypeOK'
    BY <1>1, <1>2, <1>3, <1>4 DEF KernelInv, KernelTypeOK, QueuesOK, LocationsOK, HandsOK,
       MutexOK, ArrivalsOK, socketVars, arrivals, departures
  <1>6. HandsFull'
    BY DEF KernelInv, KernelTypeOK, ExitProcessSuccess, Answered, AnswerConsole, ExitsWithPid,
       HandsFull, LocationsOK, HandsOK, Threads, Holders, Planners
  <1>7. OneAdmission'
    BY DEF KernelInv, KernelTypeOK, ExitProcessSuccess, Answered, AnswerConsole, ExitsWithPid,
       OneAdmission, LocationsOK, SemaphoresOK, Semaphores, QueuesOK, Queues, Threads,
       Holders, Planners
  <1>8. SemaphoresMatchQueues'
    BY DEF KernelInv, KernelTypeOK, ExitProcessSuccess, Answered, AnswerConsole, ExitsWithPid,
       SemaphoresMatchQueues, AnyForReadyCounts, ReadyForExecCounts, ProcessForIoCounts,
       ToExitCounts, One, LocationsOK, SemaphoresOK, Semaphores, QueuesOK, Queues, Threads,
       Holders, Planners
  <1>. QED BY <1>5, <1>6, <1>7, <1>8 DEF KernelInv

-----------------------------------------------------------------------------
(* Initial states. *)

\* The connections start empty.
LEMMA SocketsInitially == SocketsInit => SocketsTypeOK
  BY DEF SocketsInit, SocketsTypeOK

\* main of the kernel establishes its invariant: every queue empty, every
\* counting semaphore zero, every thread at the start of its loop.
LEMMA KernelInitially ==
  ASSUME KernelInit, SocketsInit
  PROVE  KernelInv
  <1>1. SemaphoresOK
    BY MultiprogrammingAssumption DEF KernelInit, SemaphoresOK, Semaphores
  <1>2. QueuesOK /\ HandsOK /\ MutexOK
    BY DEF KernelInit, QueuesOK, HandsOK, MutexOK
  <1>3. LocationsOK
    BY DEF KernelInit, LocationsOK, Threads, Holders, Planners, Locations
  <1>4. ArrivalsOK
    BY DEF KernelInit, ArrivalsOK
  <1>5. DeparturesOK
    BY DEF KernelInit, DeparturesOK
  <1>6. HandsFull
    BY DEF KernelInit, HandsFull, Threads, Holders, Planners
  <1>7. OneAdmission
    BY DEF KernelInit, OneAdmission, Queues, Semaphores
  <1>8. SemaphoresMatchQueues
    BY DEF KernelInit, SemaphoresMatchQueues, AnyForReadyCounts, ReadyForExecCounts,
       ProcessForIoCounts, ToExitCounts, One, Queues, Semaphores, Threads, Holders, Planners
  <1>. QED BY <1>1, <1>2, <1>3, <1>4, <1>5, <1>6, <1>7, <1>8, SocketsInitially
           DEF KernelInv, KernelTypeOK

\* main of the CPU establishes its invariant.
LEMMA CpuInitially == CpuInit => CpuInv
  <1> SUFFICES ASSUME CpuInit PROVE CpuInv
    OBVIOUS
  <1>1. new_interruption \in BOOLEAN
    BY DEF CpuInit
  <1>. QED BY <1>1 DEF CpuInit, CpuInv, CpuTypeOK, CpuLoaded

\* main of the memory server establishes its types.
LEMMA MemoryInitially == MemoryInit => MemoryTypeOK
  <1> SUFFICES ASSUME MemoryInit PROVE MemoryTypeOK
    OBVIOUS
  <1>1. memory_crashed \in BOOLEAN
    BY DEF MemoryInit
  <1>. QED BY <1>1 DEF MemoryInit, MemoryTypeOK

-----------------------------------------------------------------------------
(* Steps. *)

\* put_to_ready, in its three cases, called by to_ready or by io_listener.
LEMMA PutToReady_Step ==
  ASSUME KernelInv, NEW t \in Planners, PutToReady(t)
  PROVE  KernelInv'
  <1>1. PutToReady_Fifo(t) \/ PutToReady_Replan(t) \/ PutToReady_Interrupt(t)
    BY DEF PutToReady
  <1>. QED BY <1>1, PutToReady_Fifo_Step, PutToReady_Replan_Step, PutToReady_Interrupt_Step

\* Every step of a kernel thread preserves the kernel's invariant.
LEMMA Kernel_Step ==
  ASSUME KernelInv,
         \/ \E c \in Consoles : ReceiveProcess(c)
         \/ ToReady \/ ToExec \/ IoListener \/ ExitProcess
         \/ CpuDispatchListener \/ MemoryListener
  PROVE  KernelInv'
  <1>1. CASE \E c \in Consoles : ReceiveProcess(c)
    BY <1>1, ReceiveProcess_Read_Step, ReceiveProcess_Write_Step, ReceiveProcess_Put_Step
       DEF ReceiveProcess
  <1>2. CASE ToReady
    <2>1. "to_ready" \in Planners
      BY DEF Planners
    <2>. QED BY <1>2, <2>1, ToReady_Any_Step, ToReady_Admit_Step, NewToReady_Send_Step,
             NewToReady_Put_Step, NewToReady_Ready_Step, PutToReady_Step,
             PutToReady_Resume_Step DEF ToReady
  <1>3. CASE ToExec
    BY <1>3, ToExec_Ready_Step, ToExec_Cpu_Step, ToExec_Dispatch_Step DEF ToExec
  <1>4. CASE IoListener
    <2>1. "io_listener" \in Planners
      BY DEF Planners
    <2>. QED BY <1>4, <2>1, IoListener_Fits_Step, IoListener_Exceeds_Step,
             IoListener_Suspended_Step, IoListener_Suspend_Step, IoListener_Wait_Step,
             IoListener_Finish_Step, PutToReady_Step, PutToReady_Resume_Step DEF IoListener
  <1>5. CASE ExitProcess
    BY <1>5, ExitProcess_Send_Step, ExitProcess_Put_Step DEF ExitProcess
  <1>6. CASE CpuDispatchListener
    BY <1>6, IoOp_Step, ExitOp_Step, HandleInterruption_Step DEF CpuDispatchListener
  <1>7. CASE MemoryListener
    BY <1>7, TableIndexSuccess_Step, SuspensionSuccess_Step, ExitProcessSuccess_Step
       DEF MemoryListener
  <1>. QED BY <1>1, <1>2, <1>3, <1>4, <1>5, <1>6, <1>7

\* Steps of the CPU and of the memory server leave the kernel's invariant alone.
LEMMA KernelUnchanged ==
  ASSUME KernelInv, UNCHANGED kernelVars, SocketsTypeOK'
  PROVE  KernelInv'
  <1>1. UNCHANGED <<sem, queue, at, hand, execution_mutex, pid, receiving, next_pid,
                    memory_exit_q, answers>>
    BY DEF kernelVars, arrivals, departures
  <1>2. KernelTypeOK'
    BY <1>1 DEF KernelInv, KernelTypeOK, SemaphoresOK, QueuesOK, LocationsOK, HandsOK,
       MutexOK, ArrivalsOK, DeparturesOK
  <1>3. HandsFull' /\ OneAdmission' /\ SemaphoresMatchQueues'
    BY <1>1 DEF KernelInv, HandsFull, OneAdmission, SemaphoresMatchQueues,
       AnyForReadyCounts, ReadyForExecCounts, ProcessForIoCounts, ToExitCounts
  <1>. QED BY <1>2, <1>3 DEF KernelInv

\* Steps of the kernel and of the memory server leave the CPU's invariant alone.
LEMMA CpuUnchanged == CpuInv /\ UNCHANGED cpuVars => CpuInv'
  BY DEF CpuInv, CpuTypeOK, CpuLoaded, cpuVars

\* Steps of the kernel and of the CPU leave the memory server's types alone.
LEMMA MemoryUnchanged == MemoryTypeOK /\ UNCHANGED memoryVars => MemoryTypeOK'
  BY DEF MemoryTypeOK, memoryVars

\* fetch_and_decode runs only with a process in the CPU, and leaves a process
\* there.
LEMMA AdvancedLemma ==
  ASSUME CpuInv, NEW ops, FetchAndDecode(ops)
  PROVE  cpu_bussy > 0 /\ Advanced \in Pcb /\ cpu_pcb' = Advanced
  <1>1. cpu_pcb \in Pcb
    BY DEF FetchAndDecode, CpuInv, CpuLoaded
  <1>. QED BY <1>1 DEF FetchAndDecode, Runs, Advanced, Pcb

\* pcb_to_kernel sends a well-formed packet.
LEMMA ReturnPacket ==
  ASSUME SocketsTypeOK, NEW p \in Pcb,
         NEW h \in {"IO_CALL", "EXIT_CALL", "INTERRUPT_DISPATCH"},
         returns' = Append(returns, [header |-> h, pcb |-> p]),
         UNCHANGED <<dispatch, interrupts, memory_requests, memory_answers>>
  PROVE  SocketsTypeOK'
  <1>1. [header |-> h, pcb |-> p] \in Returns
    BY DEF Returns
  <1>2. returns' \in Seq(Returns)
    BY <1>1 DEF SocketsTypeOK
  <1>. QED BY <1>2 DEF SocketsTypeOK

\* Every step of a CPU thread preserves the CPU's invariant and the connections'
\* types.
LEMMA Cpu_Step ==
  ASSUME SocketsTypeOK, CpuInv, ReceivePcb \/ ReceiveInterruption \/ CpuCycle
  PROVE  SocketsTypeOK' /\ CpuInv'
  <1> USE DEF CpuInv
  <1>1. CASE ReceivePcb
    <2>1. Head(dispatch) \in Pcb /\ Tail(dispatch) \in Seq(Pcb)
      BY <1>1 DEF ReceivePcb, SocketsTypeOK
    <2>2. new_interruption' \in BOOLEAN
      BY <1>1 DEF ReceivePcb, CpuTypeOK
    <2>. QED BY <1>1, <2>1, <2>2 DEF ReceivePcb, SocketsTypeOK, CpuTypeOK, CpuLoaded
  <1>2. CASE ReceiveInterruption
    <2>1. new_interruption' \in BOOLEAN
      BY <1>2 DEF ReceiveInterruption
    <2>. QED BY <1>2, <2>1 DEF ReceiveInterruption, SocketsTypeOK, CpuTypeOK, CpuLoaded
  <1>3. CASE CycleStart
    <2>1. new_interruption' \in BOOLEAN
      BY <1>3 DEF CycleStart, CpuTypeOK
    <2>. QED BY <1>3, <2>1 DEF CycleStart, SocketsTypeOK, socketVars, CpuTypeOK, CpuLoaded
  <1>4. CASE CycleEnd
    <2>1. new_interruption' \in BOOLEAN
      BY <1>4 DEF CycleEnd, CpuTypeOK
    <2>. QED BY <1>4, <2>1 DEF CycleEnd, SocketsTypeOK, socketVars, CpuTypeOK, CpuLoaded
  <1>5. CASE ExecuteNoOp \/ ExecuteMemoryOp
    <2>1. Advanced \in Pcb /\ cpu_pcb' = Advanced
      BY <1>5, AdvancedLemma DEF ExecuteNoOp, ExecuteMemoryOp
    <2>2. new_interruption' \in BOOLEAN
      BY <1>5 DEF ExecuteNoOp, ExecuteMemoryOp, Mmu, CpuTypeOK
    <2>. QED BY <1>5, <2>1, <2>2 DEF ExecuteNoOp, ExecuteMemoryOp, Mmu, SocketsTypeOK,
             socketVars, CpuTypeOK, CpuLoaded
  <1>6. CASE ExecuteIo \/ ExecuteExit
    <2>1. Advanced \in Pcb /\ cpu_pcb' = Advanced /\ cpu_bussy > 0
      BY <1>6, AdvancedLemma DEF ExecuteIo, ExecuteExit
    <2>2. new_interruption' \in BOOLEAN
      BY <1>6 DEF ExecuteIo, ExecuteExit, CpuTypeOK
    <2>3. cpu_bussy' = cpu_bussy - 1 /\ cycle' = "check" /\ pcb_loaded' = pcb_loaded
      BY <1>6 DEF ExecuteIo, ExecuteExit, PcbToKernel
    <2>4. SocketsTypeOK'
      BY <1>6, <2>1, ReturnPacket DEF ExecuteIo, ExecuteExit, PcbToKernel
    <2>. QED BY <2>1, <2>2, <2>3, <2>4 DEF CpuTypeOK, CpuLoaded
  <1>7. CASE NoInterruption
    <2>1. new_interruption' \in BOOLEAN
      BY <1>7 DEF NoInterruption, CpuTypeOK
    <2>. QED BY <1>7, <2>1 DEF NoInterruption, SocketsTypeOK, socketVars, CpuTypeOK, CpuLoaded
  <1>8. CASE Evict
    <2>1. cpu_pcb \in Pcb
      BY <1>8 DEF Evict, CpuLoaded
    <2>2. new_interruption' \in BOOLEAN
      BY <1>8 DEF Evict
    <2>3. SocketsTypeOK'
      BY <1>8, <2>1, ReturnPacket DEF Evict, PcbToKernel
    <2>. QED BY <1>8, <2>1, <2>2, <2>3 DEF Evict, PcbToKernel, CpuTypeOK, CpuLoaded
  <1>9. CASE EvictGone
    <2>1. cpu_pcb \in Pcb
      BY <1>9 DEF EvictGone, CpuLoaded
    <2>2. new_interruption' \in BOOLEAN
      BY <1>9 DEF EvictGone, CpuTypeOK
    <2>3. SocketsTypeOK'
      BY <1>9, <2>1, ReturnPacket DEF EvictGone
    <2>. QED BY <1>9, <2>1, <2>2, <2>3 DEF EvictGone, CpuTypeOK, CpuLoaded
  <1>. QED BY <1>1, <1>2, <1>3, <1>4, <1>5, <1>6, <1>7, <1>8, <1>9 DEF CpuCycle

\* packet_handler of the memory server: the fields of the oldest request.
LEMMA RequestFields ==
  ASSUME SocketsTypeOK, NEW h, Requested(h)
  PROVE  LET m == Head(memory_requests) IN
         /\ m \in MemoryRequests /\ m.header = h /\ m.pid \in Nat
         /\ h = "PROCESS_NEW" => m.size \in Nat
         /\ h # "PROCESS_NEW" => m.page_table \in Nat /\ m.process_frames_index \in Nat
         /\ Tail(memory_requests) \in Seq(MemoryRequests)
  <1> DEFINE m == Head(memory_requests)
  <1>1. m \in MemoryRequests /\ m.header = h /\ Tail(memory_requests) \in Seq(MemoryRequests)
    BY DEF Requested, SocketsTypeOK
  <1> HIDE DEF m
  <1>2. /\ m.pid \in Nat
        /\ h = "PROCESS_NEW" => m.size \in Nat
        /\ h # "PROCESS_NEW" => m.page_table \in Nat /\ m.process_frames_index \in Nat
    BY <1>1 DEF MemoryRequests
  <1>. QED BY <1>1, <1>2 DEF m

\* A handler of the memory server consumes its request and sends a well-formed
\* answer.
LEMMA ReplyLemma ==
  ASSUME SocketsTypeOK, memory_requests # <<>>, NEW m \in MemoryAnswers, Reply(m),
         UNCHANGED <<dispatch, interrupts, returns>>
  PROVE  SocketsTypeOK'
  BY DEF Reply, SocketsTypeOK

\* page_table_init makes a whole number of second-level tables.
LEMMA TablesLemma ==
  ASSUME NEW n \in Nat
  PROVE  TablesRequired(n) \in Nat
  <1>1. n \div PageSize \in Nat
    BY PageSizeAssumption
  <1>2. ASSUME NEW k \in Nat PROVE CeilDiv(k, EntriesPerTable) \in Nat
    <2>1. k \div EntriesPerTable \in Nat
      BY EntriesPerTableAssumption
    <2>. QED BY <2>1 DEF CeilDiv
  <1>. QED BY <1>1, <1>2 DEF TablesRequired

\* Every step of the memory server preserves its types and the connections'.
LEMMA Memory_Step ==
  ASSUME SocketsTypeOK, MemoryTypeOK, MemoryServer
  PROVE  SocketsTypeOK' /\ MemoryTypeOK'
  <1> DEFINE m == Head(memory_requests)
  <1>1. CASE ProcessNew
    <2> DEFINE mine == FirstUnassigned(frames_bitmap)
               reply == [header |-> "PROCESS_MEMORY_READY", pid |-> m.pid,
                         page_table |-> Len(level1_tables),
                         process_frames_index |-> Len(processes_frames)]
    <2>1. m.pid \in Nat /\ m.size \in Nat /\ memory_requests # <<>>
      BY <1>1, RequestFields DEF ProcessNew, Requested
    <2>2. mine \subseteq Frames
      BY DEF FirstUnassigned
    <2>3. /\ level1_tables' = Append(level1_tables, TablesRequired(m.size))
          /\ processes_frames' = Append(processes_frames, mine)
          /\ frames_bitmap' = frames_bitmap \cup mine
          /\ swap_files' = swap_files \cup {m.pid}
          /\ Reply(reply)
          /\ UNCHANGED <<memory_crashed, dispatch, interrupts, returns>>
      BY <1>1 DEF ProcessNew, PageTableInit, AssignProcessFrames, CreateSwap
    <2>4. Len(level1_tables) \in Nat /\ Len(processes_frames) \in Nat
      BY DEF MemoryTypeOK
    <2>5. reply \in MemoryAnswers
      BY <2>1, <2>4 DEF MemoryAnswers
    <2>6. SocketsTypeOK'
      BY <2>1, <2>3, <2>5, ReplyLemma
    <2>7. level1_tables' \in Seq(Nat)
      <3>1. TablesRequired(m.size) \in Nat
        BY <2>1, TablesLemma
      <3>2. level1_tables \in Seq(Nat)
        BY DEF MemoryTypeOK
      <3>. QED BY <2>3, <3>1, <3>2
    <2>8. processes_frames' \in Seq(SUBSET Frames) /\ frames_bitmap' \subseteq Frames
      BY <2>2, <2>3 DEF MemoryTypeOK
    <2>9. swap_files' \subseteq Nat
      BY <2>1, <2>3 DEF MemoryTypeOK
    <2>10. memory_crashed' \in BOOLEAN
      BY <2>3 DEF MemoryTypeOK
    <2>. QED BY <2>6, <2>7, <2>8, <2>9, <2>10 DEF MemoryTypeOK
  <1>2. CASE ProcessSuspend
    <2>1. [header |-> "PROCESS_SUSPENSION_READY"] \in MemoryAnswers
      BY DEF MemoryAnswers
    <2>2. memory_requests # <<>>
      BY <1>2 DEF ProcessSuspend, Requested
    <2>3. SocketsTypeOK'
      BY <1>2, <2>1, <2>2, ReplyLemma DEF ProcessSuspend
    <2>. QED BY <1>2, <2>3, MemoryUnchanged DEF ProcessSuspend
  <1>3. CASE ProcessSuspend_Crash
    <2>1. memory_crashed' \in BOOLEAN
      BY <1>3 DEF ProcessSuspend_Crash
    <2>. QED BY <1>3, <2>1 DEF ProcessSuspend_Crash, MemoryTypeOK, SocketsTypeOK, socketVars
  <1>4. CASE ProcessExit
    <2> DEFINE i == m.process_frames_index + 1
    <2>1. m.pid \in Nat /\ memory_requests # <<>>
      BY <1>4, RequestFields DEF ProcessExit, Requested
    <2>2. /\ frames_bitmap' = frames_bitmap \ processes_frames[i]
          /\ processes_frames' = [processes_frames EXCEPT ![i] = {}]
          /\ swap_files' = swap_files \ {m.pid}
          /\ Reply([header |-> "PROCESS_EXIT_READY", pid |-> m.pid])
          /\ UNCHANGED <<level1_tables, memory_crashed, dispatch, interrupts, returns>>
      BY <1>4 DEF ProcessExit, UnassignProcessFrames, DeleteSwap
    <2>3. [header |-> "PROCESS_EXIT_READY", pid |-> m.pid] \in MemoryAnswers
      BY <2>1 DEF MemoryAnswers
    <2>4. SocketsTypeOK'
      BY <2>1, <2>2, <2>3, ReplyLemma
    <2>5. processes_frames' \in Seq(SUBSET Frames)
      <3>1. PICK n \in Nat : processes_frames \in [1 .. n -> SUBSET Frames]
        BY DEF MemoryTypeOK
      <3>2. {} \in SUBSET Frames
        OBVIOUS
      <3>3. processes_frames' \in [1 .. n -> SUBSET Frames]
        <4> HIDE DEF i
        <4>. QED BY <2>2, <3>1, <3>2
      <3>. QED BY <3>3
    <2>6. frames_bitmap' \subseteq Frames /\ swap_files' \subseteq Nat
      BY <2>2 DEF MemoryTypeOK
    <2>7. memory_crashed' \in BOOLEAN
      BY <2>2 DEF MemoryTypeOK
    <2>. QED BY <2>2, <2>4, <2>5, <2>6, <2>7 DEF MemoryTypeOK
  <1>. QED BY <1>1, <1>2, <1>3, <1>4 DEF MemoryServer

\* The three mains establish the invariant.
LEMMA Initially == Init => SystemInv
  BY KernelInitially, CpuInitially, MemoryInitially DEF Init, SystemInv

\* Every step of the system preserves the invariant: one case per program.
LEMMA Inductive == SystemInv /\ [Next]_vars => SystemInv'
  <1> SUFFICES ASSUME SystemInv, [Next]_vars PROVE SystemInv'
    OBVIOUS
  <1>. USE DEF SystemInv
  <1>1. CASE UNCHANGED vars
    <2>1. SocketsTypeOK'
      BY <1>1 DEF vars, socketVars, KernelInv, SocketsTypeOK
    <2>. QED BY <1>1, <2>1, KernelUnchanged, CpuUnchanged, MemoryUnchanged DEF vars
  <1>2. ASSUME \/ \E c \in Consoles : ReceiveProcess(c)
               \/ ToReady \/ ToExec \/ IoListener \/ ExitProcess
               \/ CpuDispatchListener \/ MemoryListener,
               UNCHANGED <<cpuVars, memoryVars>>
        PROVE  SystemInv'
    BY <1>2, Kernel_Step, CpuUnchanged, MemoryUnchanged
  <1>3. ASSUME ReceivePcb \/ ReceiveInterruption \/ CpuCycle,
               UNCHANGED <<kernelVars, memoryVars>>
        PROVE  SystemInv'
    <2>1. SocketsTypeOK
      BY DEF KernelInv
    <2>. QED BY <1>3, <2>1, Cpu_Step, KernelUnchanged, MemoryUnchanged
  <1>4. ASSUME MemoryServer, UNCHANGED <<kernelVars, cpuVars>>
        PROVE  SystemInv'
    <2>1. SocketsTypeOK
      BY DEF KernelInv
    <2>. QED BY <1>4, <2>1, Memory_Step, KernelUnchanged, CpuUnchanged
  <1>. QED BY <1>1, <1>2, <1>3, <1>4 DEF Next, KernelStep, CpuStep, MemoryStep, Idle

-----------------------------------------------------------------------------
(* Theorems. *)

\* SystemInv is an invariant of the three programs, under either algorithm, for
\* any number of consoles and any programs, with overlapping consoles and with a
\* memory server that answers at once.
THEOREM InvariantCorrect == Spec => []SystemInv
  BY Initially, Inductive, PTL DEF Spec

\* Every variable keeps its type: no thread uses a pcb it does not hold, the CPU
\* runs none it was not given, and every packet has the fields its handler reads.
THEOREM TypeCorrect == Spec => []TypeOK
  <1>1. SystemInv => TypeOK
    BY DEF SystemInv, KernelInv, CpuInv, TypeOK
  <1>. QED BY <1>1, InvariantCorrect, PTL

\* The counting semaphores match their queues in every reachable state: no
\* scheduler thread sleeps with work queued for it, and none wakes up to find
\* nothing, so that the pQueue_take after a sem_wait never blocks.
THEOREM SemaphoresCorrect == Spec => []SemaphoresMatchQueues
  <1>1. SystemInv => SemaphoresMatchQueues
    BY DEF SystemInv, KernelInv
  <1>. QED BY <1>1, InvariantCorrect, PTL

-----------------------------------------------------------------------------
(* Counting the elements of a queue that are in a set. *)

\* 1 or 0.
LEMMA OneLemma ==
  ASSUME NEW b \in BOOLEAN
  PROVE  One(b) \in Nat /\ (b => One(b) = 1) /\ (~b => One(b) = 0)
  BY DEF One

\* A count is a number, and the positions counted are finitely many.
LEMMA CountType ==
  ASSUME NEW T, NEW s \in Seq(T), NEW S
  PROVE  /\ Count(s, S) \in Nat
         /\ IsFiniteSet({i \in DOMAIN s : s[i] \in S})
  <1>1. DOMAIN s = 1 .. Len(s) /\ Len(s) \in Nat
    OBVIOUS
  <1>2. IsFiniteSet(1 .. Len(s))
    BY <1>1, FS_Interval
  <1>3. IsFiniteSet({i \in DOMAIN s : s[i] \in S})
    BY <1>1, <1>2, FS_Subset
  <1>. QED BY <1>3, FS_CardinalityType DEF Count

\* An empty queue counts for nothing.
LEMMA CountEmpty ==
  ASSUME NEW S
  PROVE  Count(<<>>, S) = 0
  <1>1. {i \in DOMAIN <<>> : <<>>[i] \in S} = {}
    OBVIOUS
  <1>. QED BY <1>1, FS_EmptySet DEF Count

\* A put adds the element it puts.
LEMMA CountAppend ==
  ASSUME NEW T, NEW s \in Seq(T), NEW e \in T, NEW S
  PROVE  Count(Append(s, e), S) = Count(s, S) + One(e \in S)
  <1> DEFINE old == {i \in DOMAIN s : s[i] \in S}
             new == {i \in DOMAIN Append(s, e) : Append(s, e)[i] \in S}
             n == Len(s) + 1
  <1>1. IsFiniteSet(old) /\ Cardinality(old) \in Nat
    BY CountType, FS_CardinalityType
  <1>2. n \notin old /\ n \in Nat
    OBVIOUS
  <1>3. Count(s, S) = Cardinality(old) /\ Count(Append(s, e), S) = Cardinality(new)
    BY DEF Count
  <1>4. CASE e \in S
    <2>1. new = old \cup {n}
      BY <1>4
    <2>2. Cardinality(new) = Cardinality(old) + 1
      <3> HIDE DEF old, new, n
      <3>. QED BY <1>1, <1>2, <2>1, FS_AddElement
    <2> HIDE DEF old, new
    <2>. QED BY <1>1, <1>3, <1>4, <2>2 DEF One
  <1>5. CASE e \notin S
    <2>1. new = old
      BY <1>5
    <2>2. Cardinality(new) = Cardinality(old)
      BY <2>1
    <2> HIDE DEF old, new
    <2>. QED BY <1>1, <1>3, <1>5, <2>2 DEF One
  <1>. QED BY <1>4, <1>5

\* A take removes the first.
LEMMA CountTail ==
  ASSUME NEW T, NEW s \in Seq(T), s # <<>>, NEW S
  PROVE  Count(s, S) = Count(Tail(s), S) + One(Head(s) \in S)
  <1> DEFINE old == {i \in DOMAIN s : s[i] \in S}
             rest == old \ {1}
             new == {i \in DOMAIN Tail(s) : Tail(s)[i] \in S}
             shift == [i \in new |-> i + 1]
  <1>1. IsFiniteSet(old) /\ Cardinality(old) \in Nat
    BY CountType, FS_CardinalityType
  <1>2. Tail(s) \in Seq(T) /\ Len(Tail(s)) = Len(s) - 1 /\ Head(s) = s[1] /\ 1 \in DOMAIN s
    OBVIOUS
  <1>3. \A i \in DOMAIN Tail(s) : Tail(s)[i] = s[i + 1] /\ i + 1 \in DOMAIN s \ {1}
    OBVIOUS
  <1>4. \A j \in DOMAIN s \ {1} : j - 1 \in DOMAIN Tail(s) /\ Tail(s)[j - 1] = s[j]
    OBVIOUS
  <1>5. shift \in Bijection(new, rest)
    <2>1. shift \in [new -> rest]
      BY <1>3
    <2>2. \A a, b \in new : shift[a] = shift[b] => a = b
      OBVIOUS
    <2>3. \A j \in rest : \E i \in new : shift[i] = j
      <3> SUFFICES ASSUME NEW j \in rest PROVE \E i \in new : shift[i] = j
        OBVIOUS
      <3>1. j - 1 \in new /\ shift[j - 1] = j
        BY <1>4
      <3>. QED BY <3>1
    <2>. QED BY <2>1, <2>2, <2>3 DEF Bijection, Injection, Surjection, IsInjective
  <1>6. IsFiniteSet(new)
    BY <1>2, CountType
  <1>7. Cardinality(rest) = Cardinality(new)
    <2> HIDE DEF new, rest, shift
    <2>. QED BY <1>5, <1>6, FS_Bijection DEF ExistsBijection
  <1>8. Cardinality(rest) = IF 1 \in old THEN Cardinality(old) - 1 ELSE Cardinality(old)
    <2> HIDE DEF old
    <2>. QED BY <1>1, FS_RemoveElement
  <1>9. 1 \in old <=> Head(s) \in S
    BY <1>2
  <1>10. Cardinality(new) \in Nat
    BY <1>6, FS_CardinalityType
  <1>11. Count(s, S) = Cardinality(old) /\ Count(Tail(s), S) = Cardinality(new)
    BY DEF Count
  <1>. QED
    <2> HIDE DEF old, new, rest
    <2>. QED BY <1>1, <1>7, <1>8, <1>9, <1>10, <1>11 DEF One

-----------------------------------------------------------------------------
(* The inductive invariant. *)

\* The CPU's permit, the planner that took it, and the process it was taken for
\* are one, until a process that had left is evicted (the cycle thread then stays
\* at cpu_bussy for good).
Permit == sem["cpu_free"]
Dispatching == One(at["to_exec"] = "execution_mutex")
Sent == Len(dispatch)
Back == Len(returns)

CpuTotal == Permit + Dispatching + Sent + pcb_loaded + cpu_bussy + Back

CpuConserved == cycle # "cpu_bussy" => CpuTotal = 1

\* Whoever may dispatch finds ready_q sorted: what is appended unsorted is sorted
\* before execution_mutex is free again.
ReadySorted ==
    Algorithm = "SRT" /\ execution_mutex = "free" => Sorted(queue["ready_q"])

\* FIFO never interrupts.
FifoUninterrupted ==
    Algorithm = "FIFO" => execution_mutex = "free" /\ cycle # "cpu_bussy"

ExecutionInv ==
    CpuConserved /\ InterruptsConserved /\ ReadySorted /\ FifoUninterrupted

\* The numbers that the invariant adds up.
LEMMA ExecutionTypes ==
  ASSUME SystemInv
  PROVE  /\ sem["cpu_free"] \in Nat /\ sem["interrupt_ready"] \in Nat
         /\ sem["ready_for_exec"] \in Nat
         /\ dispatch \in Seq(Pcb) /\ Len(dispatch) \in Nat
         /\ returns \in Seq(Returns) /\ Len(returns) \in Nat
         /\ Count(returns, Interrupted) \in Nat
         /\ interrupts \in Nat /\ pcb_loaded \in Nat /\ cpu_bussy \in Nat
         /\ queue["ready_q"] \in Seq(Pcb)
         /\ execution_mutex \in Planners \cup {"free"}
         /\ sem \in [Semaphores -> Nat] /\ at \in [Threads -> Locations]
         /\ queue \in [Queues -> Seq(Pcb)]
         /\ hand \in [Holders -> Pcb \cup {NoPcb}]
  <1>1. sem \in [Semaphores -> Nat] /\ at \in [Threads -> Locations]
    BY DEF SystemInv, KernelInv, KernelTypeOK, SemaphoresOK, LocationsOK
  <1>2. /\ queue \in [Queues -> Seq(Pcb)] /\ execution_mutex \in Planners \cup {"free"}
        /\ hand \in [Holders -> Pcb \cup {NoPcb}]
    BY DEF SystemInv, KernelInv, KernelTypeOK, QueuesOK, MutexOK, HandsOK
  <1>3. dispatch \in Seq(Pcb) /\ returns \in Seq(Returns) /\ interrupts \in Nat
    BY DEF SystemInv, KernelInv, SocketsTypeOK
  <1>4. pcb_loaded \in Nat /\ cpu_bussy \in Nat
    BY DEF SystemInv, CpuInv, CpuTypeOK
  <1>5. Count(returns, Interrupted) \in Nat
    BY <1>3, CountType
  <1>6. /\ sem["cpu_free"] \in Nat /\ sem["interrupt_ready"] \in Nat
        /\ sem["ready_for_exec"] \in Nat /\ queue["ready_q"] \in Seq(Pcb)
    BY <1>1, <1>2 DEF Semaphores, Queues
  <1>. QED BY <1>1, <1>2, <1>3, <1>4, <1>5, <1>6

\* The CPU's permit goes round: it is taken, a process is sent for it, received,
\* started and returned, and it is posted again.
LEMMA CpuGoesRound ==
  ASSUME SystemInv, ExecutionInv, cycle # "cpu_bussy" \/ cycle' = "cpu_bussy",
         \/ /\ Permit' = Permit - 1 /\ Dispatching' = Dispatching + 1
            /\ UNCHANGED <<Sent, pcb_loaded, cpu_bussy, Back>>
         \/ /\ Dispatching' = Dispatching - 1 /\ Sent' = Sent + 1
            /\ UNCHANGED <<Permit, pcb_loaded, cpu_bussy, Back>>
         \/ /\ Sent' = Sent - 1 /\ pcb_loaded' = pcb_loaded + 1
            /\ UNCHANGED <<Permit, Dispatching, cpu_bussy, Back>>
         \/ /\ pcb_loaded' = pcb_loaded - 1 /\ cpu_bussy' = cpu_bussy + 1
            /\ UNCHANGED <<Permit, Dispatching, Sent, Back>>
         \/ /\ cpu_bussy' = cpu_bussy - 1 /\ Back' = Back + 1
            /\ UNCHANGED <<Permit, Dispatching, Sent, pcb_loaded>>
         \/ /\ Back' = Back - 1 /\ Permit' = Permit + 1
            /\ UNCHANGED <<Dispatching, Sent, pcb_loaded, cpu_bussy>>
  PROVE  CpuConserved'
  <1>1. /\ Permit \in Nat /\ Dispatching \in Nat /\ Sent \in Nat
        /\ pcb_loaded \in Nat /\ cpu_bussy \in Nat /\ Back \in Nat
    BY ExecutionTypes DEF Permit, Dispatching, Sent, Back, One
  <1>2. CpuTotal' = CpuTotal
    BY <1>1 DEF CpuTotal
  <1>. QED BY <1>2 DEF ExecutionInv, CpuConserved

-----------------------------------------------------------------------------
(* Steps that leave the parts of the invariant alone. *)

\* Steps that move nothing between the kernel and the CPU.
LEMMA CpuConservedFrame ==
  ASSUME CpuConserved,
         UNCHANGED <<sem["cpu_free"], dispatch, pcb_loaded, cpu_bussy, returns, cycle>>,
         at'["to_exec"] = "execution_mutex" <=> at["to_exec"] = "execution_mutex"
  PROVE  CpuConserved'
  <1>1. UNCHANGED <<Permit, Dispatching, Sent, Back>>
    BY DEF Permit, Dispatching, Sent, Back, One
  <1>. QED BY <1>1 DEF CpuConserved, CpuTotal

\* Steps that touch neither the planners, the mutex nor the interrupts under way.
LEMMA InterruptsFrame ==
  ASSUME InterruptsConserved,
         UNCHANGED <<interrupts, new_interruption, returns, sem["interrupt_ready"],
                     execution_mutex>>,
         cycle' = "cpu_bussy" <=> cycle = "cpu_bussy",
         \A t \in Planners : Waiting(t)' <=> Waiting(t)
  PROVE  InterruptsConserved'
  <1>1. /\ One(execution_mutex # "free")' = One(execution_mutex # "free")
        /\ One(new_interruption /\ cycle # "cpu_bussy")'
             = One(new_interruption /\ cycle # "cpu_bussy")
    BY DEF One
  <1>. QED BY <1>1 DEF InterruptsConserved

\* Steps that leave ready_q and its planners alone.
LEMMA ReadySortedFrame ==
  ASSUME ReadySorted, UNCHANGED <<execution_mutex, queue["ready_q"]>>
  PROVE  ReadySorted'
  BY DEF ReadySorted, Sorted

\* Steps that leave the mutex alone and do not block the CPU.
LEMMA FifoFrame ==
  ASSUME FifoUninterrupted, UNCHANGED execution_mutex,
         cycle' = "cpu_bussy" <=> cycle = "cpu_bussy"
  PROVE  FifoUninterrupted'
  BY DEF FifoUninterrupted

\* Steps of the kernel that neither plan nor dispatch nor hear from the CPU.
LEMMA Aside ==
  ASSUME ExecutionInv,
         UNCHANGED <<sem["cpu_free"], sem["interrupt_ready"], queue["ready_q"],
                     execution_mutex, dispatch, interrupts, returns, cpuVars>>,
         at'["to_exec"] = "execution_mutex" <=> at["to_exec"] = "execution_mutex",
         \A t \in Planners : Waiting(t)' <=> Waiting(t)
  PROVE  ExecutionInv'
  <1>1. UNCHANGED <<pcb_loaded, cpu_bussy, new_interruption, cycle>>
    BY DEF cpuVars
  <1>. QED BY <1>1, CpuConservedFrame, InterruptsFrame, ReadySortedFrame, FifoFrame
           DEF ExecutionInv

\* The steps that Aside is about: consoles arrive, processes are admitted up to
\* put_to_ready, wait for I/O, are suspended and leave, the memory server answers.
LEMMA Aside_Step ==
  ASSUME SystemInv, ExecutionInv, UNCHANGED cpuVars,
         \/ \E c \in Consoles : ReceiveProcess(c)
         \/ ToReady_Any \/ ToReady_Admit
         \/ NewToReady_Send \/ NewToReady_Put \/ NewToReady_Ready
         \/ ToExec_Ready
         \/ IoListener_Fits \/ IoListener_Exceeds \/ IoListener_Suspended
         \/ IoListener_Suspend \/ IoListener_Wait \/ IoListener_Finish
         \/ ExitProcess \/ MemoryListener
  PROVE  ExecutionInv'
  <1> DEFINE Same == /\ UNCHANGED <<sem["cpu_free"], sem["interrupt_ready"], queue["ready_q"],
                                    execution_mutex, dispatch, interrupts, returns, cpuVars>>
                     /\ at'["to_exec"] = "execution_mutex"
                          <=> at["to_exec"] = "execution_mutex"
                     /\ \A t \in Planners : Waiting(t)' <=> Waiting(t)
  <1>0. /\ sem \in [Semaphores -> Nat] /\ at \in [Threads -> Locations]
        /\ queue \in [Queues -> Seq(Pcb)]
    BY ExecutionTypes
  <1> USE DEF Semaphores, Threads, Holders, Planners, Queues, socketVars, arrivals,
          departures, Waiting
  <1>1. CASE \E c \in Consoles : ReceiveProcess(c)
    <2>1. Same
      BY <1>0, <1>1 DEF ReceiveProcess, ReceiveProcess_Read, ReceiveProcess_Write,
         ReceiveProcess_Put
    <2>. QED BY <2>1, Aside
  <1>2. CASE ToReady_Any \/ NewToReady_Send \/ NewToReady_Put \/ NewToReady_Ready \/ ToExec_Ready
    <2>1. Same
      BY <1>0, <1>2 DEF ToReady_Any, NewToReady_Send, NewToReady_Put, NewToReady_Ready,
         ToExec_Ready
    <2>. QED BY <2>1, Aside
  <1>3. CASE ToReady_Admit
    <2>1. Same
      BY <1>0, <1>3 DEF ToReady_Admit, Admit
    <2>. QED BY <2>1, Aside
  <1>4. CASE IoListener_Fits \/ IoListener_Exceeds \/ IoListener_Suspended
    <2>1. Same
      BY <1>0, <1>4 DEF IoListener_Fits, IoListener_Exceeds, IoListener_Suspended,
         IoListener_Take
    <2>. QED BY <2>1, Aside
  <1>5. CASE IoListener_Suspend \/ IoListener_Wait \/ IoListener_Finish
    <2>1. Same
      BY <1>0, <1>5 DEF IoListener_Suspend, IoListener_Wait, IoListener_Finish
    <2>. QED BY <2>1, Aside
  <1>6. CASE ExitProcess
    <2>1. Same
      BY <1>0, <1>6 DEF ExitProcess, ExitProcess_Send, ExitProcess_Put
    <2>. QED BY <2>1, Aside
  <1>7. CASE MemoryListener
    <2>1. Same
      BY <1>0, <1>7 DEF MemoryListener, TableIndexSuccess, SuspensionSuccess,
         ExitProcessSuccess
    <2>. QED BY <2>1, Aside
  <1>. QED BY <1>1, <1>2, <1>3, <1>4, <1>5, <1>6, <1>7

-----------------------------------------------------------------------------
(* put_to_ready and the thread to_exec. *)

\* A queue replanned is sorted.
LEMMA SortsAreSorted ==
  ASSUME NEW s, NEW r \in SortsOf(s)
  PROVE  Sorted(r)
  BY DEF SortsOf

\* put_to_ready when the planner does not interrupt: it appends under FIFO, and
\* sorts under SRT.
LEMMA PutToReady_Put_Execution ==
  ASSUME SystemInv, ExecutionInv, UNCHANGED cpuVars, NEW t \in Planners, PutToReady(t),
         PutToReady_Fifo(t) \/ PutToReady_Replan(t)
  PROVE  ExecutionInv'
  <1>0. /\ sem \in [Semaphores -> Nat] /\ at \in [Threads -> Locations]
        /\ queue \in [Queues -> Seq(Pcb)]
    BY ExecutionTypes
  <1>1. /\ UNCHANGED <<sem["cpu_free"], sem["interrupt_ready"], execution_mutex, dispatch,
                       interrupts, returns, pcb_loaded, cpu_bussy, new_interruption, cycle>>
        /\ at'["to_exec"] = at["to_exec"]
        /\ \A p \in Planners : Waiting(p)' <=> Waiting(p)
    BY <1>0 DEF PutToReady, PutToReady_Fifo, PutToReady_Replan, cpuVars, Semaphores, Threads,
       Holders, Planners, Waiting, LoopStart
  <1>2. ReadySorted'
    <2>1. CASE PutToReady_Fifo(t)
      BY <2>1 DEF PutToReady_Fifo, ReadySorted
    <2>2. CASE PutToReady_Replan(t)
      <3>1. PICK r \in SortsOf(Append(queue["ready_q"], hand[t])) :
              queue' = [queue EXCEPT !["ready_q"] = r]
        BY <2>2 DEF PutToReady_Replan
      <3>2. queue'["ready_q"] = r
        BY <1>0, <3>1 DEF Queues
      <3>. QED BY <3>2, SortsAreSorted DEF ReadySorted
    <2>. QED BY <2>1, <2>2
  <1>. QED BY <1>1, <1>2, CpuConservedFrame, InterruptsFrame, FifoFrame DEF ExecutionInv

\* put_to_ready when the CPU is taken: an interrupt leaves, and its planner waits
\* for it with execution_mutex.
LEMMA PutToReady_Interrupt_Execution ==
  ASSUME SystemInv, ExecutionInv, UNCHANGED cpuVars, NEW t \in Planners, PutToReady(t),
         PutToReady_Interrupt(t)
  PROVE  ExecutionInv'
  <1>0. /\ sem \in [Semaphores -> Nat] /\ at \in [Threads -> Locations]
        /\ interrupts \in Nat /\ sem["interrupt_ready"] \in Nat
        /\ Count(returns, Interrupted) \in Nat
    BY ExecutionTypes
  <1>1. /\ UNCHANGED <<sem, dispatch, returns, pcb_loaded, cpu_bussy, new_interruption, cycle>>
        /\ at' = [at EXCEPT ![t] = "interrupt_ready"]
        /\ interrupts' = interrupts + 1
        /\ execution_mutex = "free" /\ execution_mutex' = t /\ t # "free"
        /\ Algorithm = "SRT"
    BY DEF PutToReady, PutToReady_Interrupt, cpuVars, Planners
  <1>2. CpuConserved'
    BY <1>0, <1>1, CpuConservedFrame DEF ExecutionInv, Threads, Holders, Planners
  <1>3. InterruptsConserved'
    <2> DEFINE o == One(new_interruption /\ cycle # "cpu_bussy")
               k == Count(returns, Interrupted)
               i == sem["interrupt_ready"]
    <2>1. interrupts + o + k + i = 0 /\ o \in Nat
      BY <1>1 DEF ExecutionInv, InterruptsConserved, One
    <2>2. o' = o /\ k' = k /\ i' = i /\ One(execution_mutex # "free")' = 1
      BY <1>1 DEF One
    <2>3. (interrupts + o + k + i)' = 1
      <3>1. k \in Nat /\ i \in Nat
        BY <1>0
      <3> HIDE DEF o, k, i
      <3>. QED BY <1>0, <1>1, <2>1, <2>2, <3>1
    <2>4. \A p \in Planners : ~Waiting(p)
      BY <1>1 DEF ExecutionInv, InterruptsConserved, Planners
    <2>5. \A p \in Planners : Waiting(p)' <=> execution_mutex' = p
      BY <1>0, <1>1, <2>4 DEF Waiting, Threads, Holders, Planners
    <2>. QED BY <2>2, <2>3, <2>5 DEF InterruptsConserved
  <1>4. ReadySorted' /\ FifoUninterrupted'
    BY <1>1 DEF ReadySorted, FifoUninterrupted
  <1>. QED BY <1>2, <1>3, <1>4 DEF ExecutionInv

\* put_to_ready goes on after its interrupt: it sorts and frees the mutex.
LEMMA PutToReady_Resume_Execution ==
  ASSUME SystemInv, ExecutionInv, UNCHANGED cpuVars, NEW t \in Planners, PutToReady_Resume(t)
  PROVE  ExecutionInv'
  <1>0. /\ sem \in [Semaphores -> Nat] /\ at \in [Threads -> Locations]
        /\ queue \in [Queues -> Seq(Pcb)]
        /\ interrupts \in Nat /\ sem["interrupt_ready"] \in Nat
        /\ Count(returns, Interrupted) \in Nat
    BY ExecutionTypes
  <1>1. /\ UNCHANGED <<dispatch, interrupts, returns, pcb_loaded, cpu_bussy, new_interruption,
                       cycle>>
        /\ sem' = [sem EXCEPT !["interrupt_ready"] = @ - 1, !["ready_for_exec"] = @ + 1]
        /\ sem["interrupt_ready"] > 0
        /\ at[t] = "interrupt_ready"
        /\ at' = [at EXCEPT ![t] = LoopStart(t)]
        /\ execution_mutex' = "free"
    BY DEF PutToReady_Resume, socketVars, cpuVars
  <1>2. /\ sem'["cpu_free"] = sem["cpu_free"]
        /\ sem'["interrupt_ready"] = sem["interrupt_ready"] - 1
    BY <1>0, <1>1 DEF Semaphores
  <1>3. CpuConserved'
    BY <1>0, <1>1, <1>2, CpuConservedFrame DEF ExecutionInv, Threads, Holders, Planners
  <1>4. execution_mutex = t
    BY <1>1 DEF ExecutionInv, InterruptsConserved, Waiting
  <1>5. InterruptsConserved'
    <2> DEFINE o == One(new_interruption /\ cycle # "cpu_bussy")
               k == Count(returns, Interrupted)
               i == sem["interrupt_ready"]
    <2>1. interrupts + o + k + i = 1 /\ o \in Nat
      <3>1. interrupts + o + k + i = One(execution_mutex # "free")
        BY DEF ExecutionInv, InterruptsConserved
      <3>2. One(execution_mutex # "free") = 1 /\ o \in Nat
        BY <1>4 DEF One, Planners
      <3>. QED BY <3>1, <3>2
    <2>2. o' = o /\ k' = k /\ i' = i - 1 /\ One(execution_mutex # "free")' = 0
      BY <1>1, <1>2 DEF One
    <2>3. (interrupts + o + k + i)' = 0
      <3>1. k \in Nat /\ i \in Nat
        BY <1>0
      <3> HIDE DEF o, k, i
      <3>. QED BY <1>0, <1>1, <2>1, <2>2, <3>1
    <2>4. \A p \in Planners : Waiting(p) => p = t
      BY <1>4 DEF ExecutionInv, InterruptsConserved
    <2>5. \A p \in Planners : ~Waiting(p)' /\ execution_mutex' # p
      BY <1>0, <1>1, <2>4 DEF Waiting, Threads, Holders, Planners, LoopStart
    <2>. QED BY <2>2, <2>3, <2>5 DEF InterruptsConserved
  <1>6. ReadySorted'
    <2>1. PICK r \in SortsOf(queue["ready_q"]) : queue' = [queue EXCEPT !["ready_q"] = r]
      BY DEF PutToReady_Resume
    <2>2. queue'["ready_q"] = r
      BY <1>0, <2>1 DEF Queues
    <2>. QED BY <2>2, SortsAreSorted DEF ReadySorted
  <1>7. FifoUninterrupted'
    BY <1>1 DEF ExecutionInv, FifoUninterrupted
  <1>. QED BY <1>3, <1>5, <1>6, <1>7 DEF ExecutionInv

\* to_exec takes the CPU's permit.
LEMMA ToExec_Cpu_Execution ==
  ASSUME SystemInv, ExecutionInv, UNCHANGED cpuVars, ToExec_Cpu
  PROVE  ExecutionInv'
  <1>0. sem \in [Semaphores -> Nat] /\ at \in [Threads -> Locations]
    BY ExecutionTypes
  <1>1. /\ UNCHANGED <<queue, execution_mutex, dispatch, interrupts, returns, pcb_loaded,
                       cpu_bussy, new_interruption, cycle, sem["interrupt_ready"]>>
        /\ sem'["cpu_free"] = sem["cpu_free"] - 1
        /\ at["to_exec"] = "cpu_free" /\ at'["to_exec"] = "execution_mutex"
        /\ \A p \in Planners : Waiting(p)' <=> Waiting(p)
    BY <1>0 DEF ToExec_Cpu, socketVars, cpuVars, Semaphores, Threads, Holders, Planners, Waiting
  <1>2. CpuConserved'
    <2>1. /\ Permit' = Permit - 1 /\ Dispatching' = Dispatching + 1
          /\ UNCHANGED <<Sent, pcb_loaded, cpu_bussy, Back, cycle>>
      BY <1>1 DEF Permit, Dispatching, Sent, Back, One
    <2>. QED BY <2>1, CpuGoesRound
  <1>. QED BY <1>1, <1>2, InterruptsFrame, ReadySortedFrame, FifoFrame DEF ExecutionInv

\* to_exec dispatches the first process of ready_q for the permit it took.
LEMMA ToExec_Dispatch_Execution ==
  ASSUME SystemInv, ExecutionInv, UNCHANGED cpuVars, ToExec_Dispatch
  PROVE  ExecutionInv'
  <1>0. /\ at \in [Threads -> Locations] /\ queue \in [Queues -> Seq(Pcb)]
        /\ queue["ready_q"] \in Seq(Pcb) /\ dispatch \in Seq(Pcb)
    BY ExecutionTypes
  <1>1. /\ UNCHANGED <<sem, execution_mutex, interrupts, returns, pcb_loaded, cpu_bussy,
                       new_interruption, cycle>>
        /\ dispatch' = Append(dispatch, Head(queue["ready_q"]))
        /\ queue["ready_q"] # <<>> /\ queue'["ready_q"] = Tail(queue["ready_q"])
        /\ at["to_exec"] = "execution_mutex" /\ at'["to_exec"] = "ready_for_exec"
        /\ \A p \in Planners : Waiting(p)' <=> Waiting(p)
    BY <1>0 DEF ToExec_Dispatch, cpuVars, Queues, Threads, Holders, Planners, Waiting
  <1>2. CpuConserved'
    <2>1. Len(dispatch') = Len(dispatch) + 1
      BY <1>0, <1>1
    <2>2. /\ Dispatching' = Dispatching - 1 /\ Sent' = Sent + 1
          /\ UNCHANGED <<Permit, pcb_loaded, cpu_bussy, Back, cycle>>
      BY <1>1, <2>1 DEF Permit, Dispatching, Sent, Back, One
    <2>. QED BY <2>2, CpuGoesRound
  <1>3. ReadySorted'
    <2> DEFINE s == queue["ready_q"]
    <2>1. s \in Seq(Pcb) /\ s # <<>>
      BY <1>0, <1>1
    <2>2. Sorted(s) => Sorted(Tail(s))
      <3> HIDE DEF s
      <3>1. \A i \in DOMAIN Tail(s) : i \in Nat /\ i + 1 \in DOMAIN s /\ Tail(s)[i] = s[i + 1]
        BY <2>1
      <3>. QED BY <3>1 DEF Sorted
    <2>. QED BY <1>1, <2>2 DEF ExecutionInv, ReadySorted
  <1>. QED BY <1>1, <1>2, <1>3, InterruptsFrame, FifoFrame DEF ExecutionInv

-----------------------------------------------------------------------------
(* What the CPU returns. *)

\* The kernel takes the oldest packet: one less is on its way.
LEMMA ReturnTaken ==
  ASSUME SystemInv, returns # <<>>, returns' = Tail(returns)
  PROVE  /\ Len(returns') = Len(returns) - 1
         /\ Count(returns, Interrupted)
              = Count(returns', Interrupted)
                + One(Head(returns).header = "INTERRUPT_DISPATCH")
         /\ Count(returns', Interrupted) \in Nat
  <1>1. returns \in Seq(Returns) /\ Head(returns) \in Returns /\ Tail(returns) \in Seq(Returns)
    BY ExecutionTypes
  <1>2. Head(returns) \in Interrupted <=> Head(returns).header = "INTERRUPT_DISPATCH"
    BY <1>1 DEF Interrupted
  <1>3. One(Head(returns) \in Interrupted) = One(Head(returns).header = "INTERRUPT_DISPATCH")
    BY <1>2 DEF One
  <1>4. Count(returns, Interrupted)
          = Count(Tail(returns), Interrupted) + One(Head(returns) \in Interrupted)
    BY <1>1, CountTail
  <1>5. Count(Tail(returns), Interrupted) \in Nat
    BY <1>1, CountType
  <1>6. Len(Tail(returns)) = Len(returns) - 1
    BY <1>1
  <1>. QED BY <1>3, <1>4, <1>5, <1>6

\* cpu_free is posted for the process that came back.
LEMMA CpuFreed ==
  ASSUME SystemInv, ExecutionInv, returns # <<>>, returns' = Tail(returns),
         sem'["cpu_free"] = sem["cpu_free"] + 1,
         UNCHANGED <<at["to_exec"], dispatch, pcb_loaded, cpu_bussy, cycle>>
  PROVE  CpuConserved'
  <1>1. Len(returns') = Len(returns) - 1
    BY ReturnTaken
  <1>2. /\ Back' = Back - 1 /\ Permit' = Permit + 1
        /\ UNCHANGED <<Dispatching, Sent, pcb_loaded, cpu_bussy, cycle>>
    BY <1>1 DEF Permit, Dispatching, Sent, Back, One
  <1>. QED BY <1>2, CpuGoesRound

\* io_op and exit_op: the CPU is free, and ready_q is not touched.
LEMMA CallOp_Execution ==
  ASSUME SystemInv, ExecutionInv, UNCHANGED cpuVars, IoOp \/ ExitOp
  PROVE  ExecutionInv'
  <1>0. /\ sem \in [Semaphores -> Nat] /\ queue \in [Queues -> Seq(Pcb)]
    BY ExecutionTypes
  <1>1. /\ UNCHANGED <<at, execution_mutex, dispatch, interrupts, pcb_loaded,
                       cpu_bussy, new_interruption, cycle>>
        /\ sem'["cpu_free"] = sem["cpu_free"] + 1
        /\ UNCHANGED <<sem["interrupt_ready"], queue["ready_q"]>>
        /\ returns # <<>> /\ returns' = Tail(returns)
        /\ Head(returns).header # "INTERRUPT_DISPATCH"
    BY <1>0 DEF IoOp, ExitOp, Returned, cpuVars, Semaphores, Queues
  <1>2. Count(returns', Interrupted) = Count(returns, Interrupted)
    <2>1. One(Head(returns).header = "INTERRUPT_DISPATCH") = 0
      BY <1>1 DEF One
    <2>. QED BY <1>1, <2>1, ReturnTaken
  <1>3. InterruptsConserved'
    <2>1. \A t \in Planners : Waiting(t)' <=> Waiting(t)
      BY <1>1 DEF Waiting
    <2>2. /\ One(execution_mutex # "free")' = One(execution_mutex # "free")
          /\ One(new_interruption /\ cycle # "cpu_bussy")'
               = One(new_interruption /\ cycle # "cpu_bussy")
      BY <1>1 DEF One
    <2>. QED BY <1>1, <1>2, <2>1, <2>2 DEF ExecutionInv, InterruptsConserved
  <1>. QED BY <1>1, <1>3, CpuFreed, ReadySortedFrame, FifoFrame DEF ExecutionInv

\* handle_interruption: the interrupt comes back to the planner that waits for it.
\* ready_q grows unsorted, but that planner holds execution_mutex.
LEMMA HandleInterruption_Execution ==
  ASSUME SystemInv, ExecutionInv, UNCHANGED cpuVars, HandleInterruption
  PROVE  ExecutionInv'
  <1>0. /\ sem \in [Semaphores -> Nat] /\ interrupts \in Nat
        /\ sem["interrupt_ready"] \in Nat /\ Count(returns, Interrupted) \in Nat
    BY ExecutionTypes
  <1>1. /\ UNCHANGED <<at, execution_mutex, dispatch, interrupts, pcb_loaded,
                       cpu_bussy, new_interruption, cycle>>
        /\ sem'["cpu_free"] = sem["cpu_free"] + 1
        /\ sem'["interrupt_ready"] = sem["interrupt_ready"] + 1
        /\ returns # <<>> /\ returns' = Tail(returns)
        /\ Head(returns).header = "INTERRUPT_DISPATCH"
    BY <1>0 DEF HandleInterruption, Returned, cpuVars, Semaphores
  <1> DEFINE o == One(new_interruption /\ cycle # "cpu_bussy")
             k == Count(returns, Interrupted)
             i == sem["interrupt_ready"]
             m == One(execution_mutex # "free")
  <1>2. k' = k - 1 /\ k > 0
    <2>1. One(Head(returns).header = "INTERRUPT_DISPATCH") = 1
      BY <1>1 DEF One
    <2>2. k = k' + 1
      BY <1>1, <2>1, ReturnTaken
    <2>3. k' \in Nat
      BY <1>1, ReturnTaken
    <2>. QED BY <2>2, <2>3
  <1>3. interrupts + o + k + i = m /\ o \in Nat /\ m \in 0 .. 1
    <2>1. interrupts + o + k + i = m
      BY DEF ExecutionInv, InterruptsConserved
    <2>. QED BY <2>1 DEF One
  <1>4. o' = o /\ i' = i + 1 /\ m' = m
    BY <1>1 DEF One
  <1>5. m = 1 /\ (interrupts + o + k + i)' = m'
    <2>1. interrupts \in Nat /\ i \in Nat /\ k \in Nat /\ interrupts' = interrupts
      BY <1>0, <1>1
    <2> HIDE DEF o, k, i, m
    <2>2. m = 1
      BY <1>2, <1>3, <2>1
    <2>. QED BY <1>2, <1>3, <1>4, <2>1, <2>2
  <1>6. execution_mutex # "free"
    BY <1>5 DEF One
  <1>7. InterruptsConserved'
    <2>1. \A t \in Planners : Waiting(t)' <=> Waiting(t)
      BY <1>1 DEF Waiting
    <2>. QED BY <1>1, <1>5, <2>1 DEF ExecutionInv, InterruptsConserved
  <1>8. ReadySorted'
    BY <1>1, <1>6 DEF ReadySorted
  <1>. QED BY <1>1, <1>7, <1>8, CpuFreed, FifoFrame DEF ExecutionInv

-----------------------------------------------------------------------------
(* The CPU. *)

\* A packet that returns a process.
LEMMA ReturnSent ==
  ASSUME SystemInv, NEW h \in {"IO_CALL", "EXIT_CALL", "INTERRUPT_DISPATCH"}, NEW p \in Pcb,
         returns' = Append(returns, [header |-> h, pcb |-> p])
  PROVE  /\ Len(returns') = Len(returns) + 1
         /\ Count(returns', Interrupted)
              = Count(returns, Interrupted) + One(h = "INTERRUPT_DISPATCH")
  <1> DEFINE r == [header |-> h, pcb |-> p]
  <1>1. returns \in Seq(Returns)
    BY ExecutionTypes
  <1>2. r \in Returns /\ (r \in Interrupted <=> h = "INTERRUPT_DISPATCH")
    BY DEF Returns, Interrupted
  <1>3. One(r \in Interrupted) = One(h = "INTERRUPT_DISPATCH")
    BY <1>2 DEF One
  <1> HIDE DEF r
  <1>4. Count(Append(returns, r), Interrupted)
          = Count(returns, Interrupted) + One(r \in Interrupted)
    BY <1>1, <1>2, CountAppend
  <1>5. Len(Append(returns, r)) = Len(returns) + 1
    BY <1>1, <1>2
  <1>. QED BY <1>3, <1>4, <1>5 DEF r

\* The dispatch thread: the process is no longer on its way but in the CPU.
LEMMA ReceivePcb_Execution ==
  ASSUME SystemInv, ExecutionInv, UNCHANGED kernelVars, ReceivePcb
  PROVE  ExecutionInv'
  <1>1. /\ UNCHANGED <<sem, queue, at, execution_mutex, interrupts, returns, cpu_bussy,
                       new_interruption, cycle>>
        /\ dispatch # <<>> /\ dispatch' = Tail(dispatch)
        /\ pcb_loaded' = pcb_loaded + 1
    BY DEF ReceivePcb, kernelVars
  <1>2. CpuConserved'
    <2>1. Len(dispatch') = Len(dispatch) - 1
      BY <1>1, ExecutionTypes
    <2>2. /\ Sent' = Sent - 1 /\ pcb_loaded' = pcb_loaded + 1
          /\ UNCHANGED <<Permit, Dispatching, cpu_bussy, Back, cycle>>
      BY <1>1, <2>1 DEF Permit, Dispatching, Sent, Back, One
    <2>. QED BY <2>2, CpuGoesRound
  <1>3. \A t \in Planners : Waiting(t)' <=> Waiting(t)
    BY <1>1 DEF Waiting
  <1>. QED BY <1>1, <1>2, <1>3, InterruptsFrame, ReadySortedFrame, FifoFrame DEF ExecutionInv

\* The interrupt thread: the flag was down, as there is one interrupt at a time.
LEMMA ReceiveInterruption_Execution ==
  ASSUME SystemInv, ExecutionInv, UNCHANGED kernelVars, ReceiveInterruption
  PROVE  ExecutionInv'
  <1>1. /\ UNCHANGED <<sem, queue, at, execution_mutex, dispatch, returns, pcb_loaded,
                       cpu_bussy, cycle>>
        /\ cycle # "cpu_bussy"
        /\ interrupts > 0 /\ interrupts' = interrupts - 1
        /\ new_interruption' = TRUE
    BY DEF ReceiveInterruption, kernelVars
  <1> DEFINE o == One(new_interruption /\ cycle # "cpu_bussy")
             k == Count(returns, Interrupted)
             i == sem["interrupt_ready"]
             m == One(execution_mutex # "free")
  <1>2. interrupts + o + k + i = m
    BY DEF ExecutionInv, InterruptsConserved
  <1>3. o \in Nat /\ m \in 0 .. 1 /\ o' = 1 /\ k' = k /\ i' = i /\ m' = m
    BY <1>1 DEF One
  <1>4. (interrupts + o + k + i)' = m'
    <2>1. interrupts \in Nat /\ k \in Nat /\ i \in Nat
      BY ExecutionTypes
    <2> HIDE DEF o, k, i, m
    <2>. QED BY <1>1, <1>2, <1>3, <2>1
  <1>5. InterruptsConserved'
    <2>1. \A t \in Planners : Waiting(t)' <=> Waiting(t)
      BY <1>1 DEF Waiting
    <2>. QED BY <1>1, <1>4, <2>1 DEF ExecutionInv, InterruptsConserved
  <1>. QED BY <1>1, <1>5, CpuConservedFrame, ReadySortedFrame, FifoFrame DEF ExecutionInv

\* The cycle thread starts the process that was loaded.
LEMMA CycleStart_Execution ==
  ASSUME SystemInv, ExecutionInv, UNCHANGED kernelVars, CycleStart
  PROVE  ExecutionInv'
  <1>1. /\ UNCHANGED <<sem, queue, at, execution_mutex, dispatch, interrupts, returns,
                       new_interruption>>
        /\ pcb_loaded' = pcb_loaded - 1 /\ cpu_bussy' = cpu_bussy + 1
        /\ cycle # "cpu_bussy" /\ cycle' # "cpu_bussy"
    BY DEF CycleStart, kernelVars, socketVars
  <1>2. CpuConserved'
    <2>1. UNCHANGED <<Permit, Dispatching, Sent, Back>>
      BY <1>1 DEF Permit, Dispatching, Sent, Back, One
    <2>. QED BY <1>1, <2>1, CpuGoesRound
  <1>3. \A t \in Planners : Waiting(t)' <=> Waiting(t)
    BY <1>1 DEF Waiting
  <1>. QED BY <1>1, <1>2, <1>3, InterruptsFrame, ReadySortedFrame, FifoFrame DEF ExecutionInv

\* Steps of the cycle thread that return nothing.
LEMMA CycleRuns_Execution ==
  ASSUME SystemInv, ExecutionInv, UNCHANGED kernelVars,
         CycleEnd \/ ExecuteNoOp \/ ExecuteMemoryOp \/ NoInterruption
  PROVE  ExecutionInv'
  <1>1. /\ UNCHANGED <<sem, queue, at, execution_mutex, dispatch, interrupts, returns,
                       pcb_loaded, cpu_bussy, new_interruption>>
        /\ cycle # "cpu_bussy" /\ cycle' # "cpu_bussy"
    BY DEF CycleEnd, ExecuteNoOp, ExecuteMemoryOp, Mmu, FetchAndDecode, NoInterruption,
       kernelVars, socketVars
  <1>2. \A t \in Planners : Waiting(t)' <=> Waiting(t)
    BY <1>1 DEF Waiting
  <1>3. CpuConserved'
    <2>1. UNCHANGED <<Permit, Dispatching, Sent, Back>>
      BY <1>1 DEF Permit, Dispatching, Sent, Back, One
    <2>. QED BY <1>1, <2>1 DEF ExecutionInv, CpuConserved, CpuTotal
  <1>. QED BY <1>1, <1>2, <1>3, InterruptsFrame, ReadySortedFrame, FifoFrame DEF ExecutionInv

\* A process leaves the CPU by a packet.
LEMMA CpuLeft ==
  ASSUME SystemInv, ExecutionInv, cycle # "cpu_bussy",
         UNCHANGED <<sem, at, dispatch, pcb_loaded>>,
         cpu_bussy' = cpu_bussy - 1, Len(returns') = Len(returns) + 1
  PROVE  CpuConserved'
  <1>1. Back' = Back + 1 /\ UNCHANGED <<Permit, Dispatching, Sent>>
    BY DEF Permit, Dispatching, Sent, Back, One
  <1>. QED BY <1>1, CpuGoesRound

\* IO_CALL and EXIT_CALL.
LEMMA CycleCalls_Execution ==
  ASSUME SystemInv, ExecutionInv, UNCHANGED kernelVars, ExecuteIo \/ ExecuteExit
  PROVE  ExecutionInv'
  <1>1. /\ UNCHANGED <<sem, queue, at, execution_mutex, dispatch, interrupts,
                       pcb_loaded, new_interruption>>
        /\ cycle # "cpu_bussy" /\ cycle' # "cpu_bussy"
        /\ cpu_bussy' = cpu_bussy - 1
    BY DEF ExecuteIo, ExecuteExit, PcbToKernel, FetchAndDecode, kernelVars
  <1>2. Advanced \in Pcb
    BY AdvancedLemma DEF ExecuteIo, ExecuteExit, SystemInv
  <1>3. PICK h \in {"IO_CALL", "EXIT_CALL"} :
          returns' = Append(returns, [header |-> h, pcb |-> Advanced])
    BY DEF ExecuteIo, ExecuteExit, PcbToKernel
  <1>4. Len(returns') = Len(returns) + 1
    BY <1>2, <1>3, ReturnSent
  <1>5. Count(returns', Interrupted) = Count(returns, Interrupted)
    <2>1. One(h = "INTERRUPT_DISPATCH") = 0
      BY <1>3 DEF One
    <2>2. Count(returns', Interrupted) = Count(returns, Interrupted) + 0
      BY <1>2, <1>3, <2>1, ReturnSent
    <2>. QED BY <2>2, ExecutionTypes
  <1>6. InterruptsConserved'
    <2>1. \A t \in Planners : Waiting(t)' <=> Waiting(t)
      BY <1>1 DEF Waiting
    <2>2. /\ One(execution_mutex # "free")' = One(execution_mutex # "free")
          /\ One(new_interruption /\ cycle # "cpu_bussy")'
               = One(new_interruption /\ cycle # "cpu_bussy")
      BY <1>1 DEF One
    <2>. QED BY <1>1, <1>5, <2>1, <2>2 DEF ExecutionInv, InterruptsConserved
  <1>. QED BY <1>1, <1>4, <1>6, CpuLeft, ReadySortedFrame, FifoFrame DEF ExecutionInv

\* check_interruption evicts a process, its own or one that had left: the
\* interrupt goes from the flag to the packet.
LEMMA Evictions_Execution ==
  ASSUME SystemInv, ExecutionInv, UNCHANGED kernelVars, Evict \/ EvictGone
  PROVE  ExecutionInv'
  <1>1. /\ UNCHANGED <<sem, queue, at, execution_mutex, dispatch, interrupts, pcb_loaded>>
        /\ cycle = "check" /\ new_interruption
        /\ ~(new_interruption' /\ cycle' # "cpu_bussy")
        /\ returns' = Append(returns, [header |-> "INTERRUPT_DISPATCH", pcb |-> cpu_pcb])
    BY DEF Evict, EvictGone, PcbToKernel, kernelVars
  <1>2. cpu_pcb \in Pcb
    BY <1>1 DEF SystemInv, CpuInv, CpuLoaded
  <1>3. Len(returns') = Len(returns) + 1
    BY <1>1, <1>2, ReturnSent
  <1> DEFINE o == One(new_interruption /\ cycle # "cpu_bussy")
             k == Count(returns, Interrupted)
             i == sem["interrupt_ready"]
             m == One(execution_mutex # "free")
  <1>4. k' = k + 1
    <2>1. One("INTERRUPT_DISPATCH" = "INTERRUPT_DISPATCH") = 1
      BY DEF One
    <2>. QED BY <1>1, <1>2, <2>1, ReturnSent
  <1>5. interrupts + o + k + i = m
    BY DEF ExecutionInv, InterruptsConserved
  <1>6. o = 1 /\ o' = 0 /\ i' = i /\ m' = m /\ m \in 0 .. 1
    BY <1>1 DEF One
  <1>7. m = 1 /\ (interrupts + o + k + i)' = m'
    <2>1. interrupts \in Nat /\ k \in Nat /\ i \in Nat /\ interrupts' = interrupts
      BY <1>1, ExecutionTypes
    <2> HIDE DEF o, k, i, m
    <2>. QED BY <1>4, <1>5, <1>6, <2>1
  <1>8. InterruptsConserved'
    <2>1. \A t \in Planners : Waiting(t)' <=> Waiting(t)
      BY <1>1 DEF Waiting
    <2>. QED BY <1>1, <1>7, <2>1 DEF ExecutionInv, InterruptsConserved
  <1>9. CpuConserved'
    <2>1. CASE Evict
      <3>1. cpu_bussy' = cpu_bussy - 1
        BY <2>1 DEF Evict, PcbToKernel
      <3>. QED BY <1>1, <1>3, <3>1, CpuLeft
    <2>2. CASE EvictGone
      BY <2>2 DEF EvictGone, CpuConserved
    <2>. QED BY <2>1, <2>2
  <1>10. FifoUninterrupted'
    <2>1. execution_mutex # "free"
      BY <1>7 DEF One
    <2>. QED BY <2>1 DEF ExecutionInv, FifoUninterrupted
  <1>. QED BY <1>1, <1>8, <1>9, <1>10, ReadySortedFrame DEF ExecutionInv

-----------------------------------------------------------------------------
(* Theorems. *)

\* Nothing has been dispatched at the start.
LEMMA ExecutionInitially == Init => ExecutionInv
  <1> SUFFICES ASSUME Init PROVE ExecutionInv
    OBVIOUS
  <1> USE DEF Init, KernelInit, CpuInit, SocketsInit
  <1>1. sem["cpu_free"] = 1 /\ sem["interrupt_ready"] = 0
    BY DEF Semaphores
  <1>2. at["to_exec"] = "ready_for_exec" /\ \A t \in Planners : ~Waiting(t)
    BY DEF Threads, Holders, Planners, Waiting
  <1>3. Count(returns, Interrupted) = 0 /\ queue["ready_q"] = <<>>
    BY CountEmpty DEF Queues
  <1>4. CpuConserved
    <2>1. Permit = 1 /\ Dispatching = 0 /\ Sent = 0 /\ Back = 0
      BY <1>1, <1>2 DEF Permit, Dispatching, Sent, Back, One
    <2>. QED BY <2>1 DEF CpuConserved, CpuTotal
  <1>5. InterruptsConserved
    BY <1>1, <1>2, <1>3 DEF InterruptsConserved, One, Planners
  <1>6. ReadySorted /\ FifoUninterrupted
    BY <1>3 DEF ReadySorted, Sorted, FifoUninterrupted
  <1>. QED BY <1>4, <1>5, <1>6 DEF ExecutionInv

\* Every step preserves the invariant: one case per thread.
LEMMA ExecutionInductive == SystemInv /\ ExecutionInv /\ [Next]_vars => ExecutionInv'
  <1> SUFFICES ASSUME SystemInv, ExecutionInv, [Next]_vars PROVE ExecutionInv'
    OBVIOUS
  <1>1. CASE UNCHANGED vars \/ (MemoryServer /\ UNCHANGED <<kernelVars, cpuVars>>)
    <2>1. UNCHANGED <<sem, queue, at, execution_mutex, dispatch, interrupts, returns, cpuVars>>
      BY <1>1 DEF vars, kernelVars, socketVars, MemoryServer, ProcessNew, ProcessSuspend,
         ProcessSuspend_Crash, ProcessExit
    <2>2. \A t \in Planners : Waiting(t)' <=> Waiting(t)
      BY <2>1 DEF Waiting
    <2>. QED BY <2>1, <2>2, Aside
  <1>2. ASSUME UNCHANGED cpuVars,
               \/ \E c \in Consoles : ReceiveProcess(c)
               \/ ExitProcess \/ MemoryListener
        PROVE  ExecutionInv'
    BY <1>2, Aside_Step
  <1>3. ASSUME UNCHANGED cpuVars, NEW t \in Planners, PutToReady(t) \/ PutToReady_Resume(t)
        PROVE  ExecutionInv'
    BY <1>3, PutToReady_Put_Execution, PutToReady_Interrupt_Execution,
       PutToReady_Resume_Execution DEF PutToReady
  <1>4. ASSUME UNCHANGED cpuVars, ToReady
        PROVE  ExecutionInv'
    BY <1>3, <1>4, Aside_Step DEF ToReady, Planners
  <1>5. ASSUME UNCHANGED cpuVars, ToExec
        PROVE  ExecutionInv'
    BY <1>5, Aside_Step, ToExec_Cpu_Execution, ToExec_Dispatch_Execution DEF ToExec
  <1>6. ASSUME UNCHANGED cpuVars, IoListener
        PROVE  ExecutionInv'
    BY <1>3, <1>6, Aside_Step DEF IoListener, Planners
  <1>7. ASSUME UNCHANGED cpuVars, CpuDispatchListener
        PROVE  ExecutionInv'
    BY <1>7, CallOp_Execution, HandleInterruption_Execution DEF CpuDispatchListener
  <1>8. ASSUME UNCHANGED kernelVars, ReceivePcb \/ ReceiveInterruption \/ CpuCycle
        PROVE  ExecutionInv'
    BY <1>8, ReceivePcb_Execution, ReceiveInterruption_Execution, CycleStart_Execution,
       CycleRuns_Execution, CycleCalls_Execution, Evictions_Execution DEF CpuCycle
  <1>9. ASSUME \/ \E c \in Consoles : ReceiveProcess(c)
               \/ ToReady \/ ToExec \/ IoListener \/ ExitProcess
               \/ CpuDispatchListener \/ MemoryListener,
               UNCHANGED <<cpuVars, memoryVars>>
        PROVE  ExecutionInv'
    <2>1. UNCHANGED cpuVars
      BY <1>9
    <2>. QED BY <1>2, <1>4, <1>5, <1>6, <1>7, <1>9, <2>1
  <1>10. ASSUME ReceivePcb \/ ReceiveInterruption \/ CpuCycle,
                UNCHANGED <<kernelVars, memoryVars>>
         PROVE  ExecutionInv'
    BY <1>8, <1>10
  <1>11. CASE Idle \/ MemoryStep(MemoryServer)
    BY <1>1, <1>11 DEF Idle, MemoryStep
  <1>. QED BY <1>1, <1>9, <1>10, <1>11 DEF Next, KernelStep, CpuStep

\* ExecutionInv is an invariant of the three programs, for every configuration.
THEOREM ExecutionCorrect == Spec => []ExecutionInv
  BY ExecutionInitially, ExecutionInductive, InvariantCorrect, PTL DEF Spec

\* An interrupt of put_to_ready is neither lost nor made up, and exactly the planner
\* that waits for it holds execution_mutex, in every reachable state and under
\* either algorithm.
THEOREM InterruptsCorrect == Spec => []InterruptsConserved
  <1>1. ExecutionInv => InterruptsConserved
    BY DEF ExecutionInv
  <1>. QED BY <1>1, ExecutionCorrect, PTL

\* There is one process between its dispatch and its return: always under FIFO,
\* and under SRT until check_interruption evicts a process that had already left.
THEOREM CpuExclusiveCorrect ==
  Spec => [](Algorithm = "FIFO" \/ cycle # "cpu_bussy" => CpuExclusive)
  <1>1. SystemInv /\ ExecutionInv /\ (Algorithm = "FIFO" \/ cycle # "cpu_bussy")
          => CpuExclusive
    <2> SUFFICES ASSUME SystemInv, ExecutionInv, Algorithm = "FIFO" \/ cycle # "cpu_bussy"
                 PROVE  CpuExclusive
      OBVIOUS
    <2>1. cycle # "cpu_bussy"
      BY DEF ExecutionInv, FifoUninterrupted
    <2>2. CpuTotal = 1
      BY <2>1 DEF ExecutionInv, CpuConserved
    <2>3. /\ Permit \in Nat /\ Dispatching \in Nat /\ Sent \in Nat
          /\ pcb_loaded \in Nat /\ cpu_bussy \in Nat /\ Back \in Nat
      BY ExecutionTypes DEF Permit, Dispatching, Sent, Back, One
    <2>4. pcb_loaded + cpu_bussy = IF pcb_loaded + cpu_bussy > 0 THEN 1 ELSE 0
      BY <2>2, <2>3 DEF CpuTotal
    <2>5. Len(InCpu) = pcb_loaded + cpu_bussy
      BY <2>4 DEF InCpu
    <2>6. Len(Executing) = Sent + Len(InCpu) + Back
      <3>1. dispatch \in Seq(Pcb) /\ returns \in Seq(Returns)
        BY ExecutionTypes
      <3>2. InCpu \in Seq(Pcb)
        <4>1. CASE pcb_loaded + cpu_bussy > 0
          <5>1. cpu_pcb \in Pcb
            BY <4>1 DEF SystemInv, CpuInv, CpuLoaded
          <5>. QED BY <4>1, <5>1 DEF InCpu
        <4>2. CASE ~(pcb_loaded + cpu_bussy > 0)
          BY <4>2 DEF InCpu
        <4>. QED BY <4>1, <4>2
      <3>3. Returning \in Seq(Pcb) /\ Len(Returning) = Len(returns)
        <4>1. \A i \in 1 .. Len(returns) : returns[i].pcb \in Pcb
          <5>1. \A i \in 1 .. Len(returns) : returns[i] \in Returns
            BY <3>1
          <5>. QED BY <5>1 DEF Returns
        <4>. QED BY <3>1, <4>1 DEF Returning
      <3>4. Len(InCpu \o Returning) = Len(InCpu) + Len(Returning)
            /\ InCpu \o Returning \in Seq(Pcb)
        BY <3>2, <3>3
      <3>5. Len(dispatch \o (InCpu \o Returning)) = Len(dispatch) + Len(InCpu \o Returning)
        BY <3>1, <3>4
      <3>. QED BY <3>1, <3>2, <3>3, <3>4, <3>5 DEF Executing, Sent, Back
    <2>7. Permit + Dispatching + Len(Executing) = 1
      <3> HIDE DEF Executing
      <3>. QED BY <2>2, <2>3, <2>5, <2>6 DEF CpuTotal
    <2>. QED BY <2>7 DEF CpuExclusive, Permit, Dispatching
  <1>. QED BY <1>1, InvariantCorrect, ExecutionCorrect, PTL

\* Under SRT the process to_exec dispatches has the least remaining estimate of
\* all that are ready.
THEOREM ShortestFirstCorrect == Spec => ShortestFirst
  <1> DEFINE Shortest ==
        Algorithm = "SRT" /\ Len(dispatch') > Len(dispatch) =>
          \A r \in Elements(queue["ready_q"]) :
             dispatch'[Len(dispatch')].left_burst_estimation
                 <= r.left_burst_estimation
  <1>1. SystemInv /\ ExecutionInv /\ [Next]_vars => [Shortest]_vars
    <2> SUFFICES ASSUME SystemInv, ExecutionInv, Next PROVE Shortest
      OBVIOUS
    <2>1. CASE ToExec_Dispatch
      <3> DEFINE s == queue["ready_q"]
      <3>1. s \in Seq(Pcb) /\ s # <<>> /\ dispatch \in Seq(Pcb)
        BY <2>1, ExecutionTypes DEF ToExec_Dispatch
      <3>2. dispatch'[Len(dispatch')] = s[1]
        BY <2>1, <3>1 DEF ToExec_Dispatch
      <3>3. Algorithm = "SRT" => Sorted(s)
        BY <2>1 DEF ToExec_Dispatch, ExecutionInv, ReadySorted
      <3>4. \A i \in DOMAIN s : s[i].left_burst_estimation \in Int
        <4> HIDE DEF s
        <4>1. \A i \in DOMAIN s : s[i] \in Pcb
          BY <3>1
        <4>. QED BY <4>1, EstimatesAssumption DEF Pcb
      <3>5. Algorithm = "SRT" => \A i \in DOMAIN s :
              s[1].left_burst_estimation <= s[i].left_burst_estimation
        <4> HIDE DEF s
        <4>1. 1 \in DOMAIN s /\ \A i \in DOMAIN s : i = 1 \/ 1 < i
          BY <3>1
        <4>. QED BY <3>3, <3>4, <4>1 DEF Sorted
      <3>. QED BY <3>2, <3>5 DEF Elements
    <2>2. CASE ~ToExec_Dispatch
      <3>1. dispatch' = dispatch \/ (dispatch # <<>> /\ dispatch' = Tail(dispatch))
        BY <2>2 DEF Next, KernelStep, CpuStep, MemoryStep, Idle, vars, socketVars,
           ReceiveProcess, ReceiveProcess_Read, ReceiveProcess_Write, ReceiveProcess_Put,
           ToReady, ToReady_Any, ToReady_Admit, NewToReady_Send, NewToReady_Put,
           NewToReady_Ready, PutToReady, PutToReady_Resume, ToExec, ToExec_Ready, ToExec_Cpu,
           IoListener, IoListener_Fits, IoListener_Exceeds, IoListener_Suspended,
           IoListener_Take, IoListener_Suspend, IoListener_Wait, IoListener_Finish,
           ExitProcess, ExitProcess_Send, ExitProcess_Put, CpuDispatchListener, IoOp, ExitOp,
           HandleInterruption, MemoryListener, TableIndexSuccess, SuspensionSuccess,
           ExitProcessSuccess, ReceivePcb, ReceiveInterruption, CpuCycle, CycleStart,
           CycleEnd, ExecuteNoOp, ExecuteIo, ExecuteExit, ExecuteMemoryOp, Mmu,
           NoInterruption, Evict, EvictGone, MemoryServer, ProcessNew, ProcessSuspend,
           ProcessSuspend_Crash, ProcessExit
      <3>2. dispatch \in Seq(Pcb)
        BY ExecutionTypes
      <3>3. ~(Len(dispatch') > Len(dispatch))
        BY <3>1, <3>2
      <3>. QED BY <3>3
    <2>. QED BY <2>1, <2>2
  <1>. QED BY <1>1, InvariantCorrect, ExecutionCorrect, PTL DEF Spec, ShortestFirst

=============================================================================
