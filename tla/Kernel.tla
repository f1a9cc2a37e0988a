------------------------------- MODULE Kernel -------------------------------
(***************************************************************************)
(* The kernel: the long-, medium- and short-term schedulers, the I/O       *)
(* thread and the handlers of what the consoles, the CPU and the memory    *)
(* server send (kernel/src/kernel.c).                                      *)
(*                                                                         *)
(* Every thread is a program counter, at[thread], and the pcb it holds,    *)
(* hand[thread].  The value of at[thread] names what the thread does next: *)
(* the semaphore or mutex it is about to wait on, the packet it is about   *)
(* to send or the queue it is about to put its pcb in.                     *)
(*                                                                         *)
(* One step runs from one such point to the next.  What is joined with a   *)
(* step commutes with what other threads do meanwhile: posting a semaphore *)
(* and putting in a queue that only the receiver of that post takes from;  *)
(* waiting on a semaphore with one waiter and taking from the queue it     *)
(* counts.  A send and the put that follows it are always separate steps.  *)
(***************************************************************************)
EXTENDS Sockets

CONSTANTS MultiprogrammingLevel,  \* GRADO_MULTIPROGRAMACION
          Algorithm,              \* ALGORITMO_PLANIFICACION
          InitialEstimate,        \* ESTIMACION_INICIAL
          OverlapConsoles,        \* may two consoles' processes arrive at the same time?
          Freed                   \* a pointer to a pcb that was freed

ASSUME MultiprogrammingAssumption == MultiprogrammingLevel \in Nat \ {0}
ASSUME AlgorithmAssumption == Algorithm \in {"FIFO", "SRT"}
ASSUME InitialEstimateAssumption == InitialEstimate \in Estimates
ASSUME OverlapAssumption == OverlapConsoles \in BOOLEAN
ASSUME FreedAssumption == Freed \notin Pcb /\ Freed # NoPcb

VARIABLES
    sem,              \* the value of every semaphore
    queue,            \* the contents of every pQueue but the next one
    memory_exit_q,    \* the only one whose pcbs are freed in place
    at,               \* what each thread does next
    hand,             \* the pcb each thread holds
    execution_mutex,  \* the thread that holds it, or "free"
    pid,              \* the counter that numbers processes
    receiving,        \* receiving[c]: how far c's connection is in receive_process
    next_pid,         \* next_pid[c]: the register of pid++ in c's connection
    answers           \* answers[c]: PROCESS_OK headers sent to c

arrivals == <<pid, receiving, next_pid>>
departures == <<memory_exit_q, answers>>
kernelVars == <<sem, queue, at, hand, execution_mutex, arrivals, departures>>

Semaphores == {"sem_multiprogram", "cpu_free", "interrupt_ready", "process_for_IO",
               "any_for_ready", "ready_for_exec", "pcb_table_ready", "to_exit",
               "waiting_for_suspension"}

Queues == {"new_q", "ready_q", "memory_init_q", "blocked_q", "suspended_block_q",
           "suspended_ready_q", "exit_q"}

\* The threads that put processes in ready_q, those that hold one between two
\* steps, and all of the kernel's own.
Planners == {"to_ready", "io_listener"}
Holders == Planners \cup {"exit_process"}
Threads == Holders \cup {"to_exec"}

Locations == {"any_for_ready", "sem_multiprogram", "PROCESS_NEW", "memory_init_q",
              "pcb_table_ready", "put_to_ready", "interrupt_ready", "ready_for_exec",
              "cpu_free", "execution_mutex", "process_for_IO", "PROCESS_SUSPEND",
              "waiting_for_suspension", "suspended_ready_q", "to_exit", "memory_exit_q"}

SemaphoresOK == sem \in [Semaphores -> Nat]
QueuesOK == queue \in [Queues -> Seq(Pcb)]
LocationsOK == at \in [Threads -> Locations]
HandsOK == hand \in [Holders -> Pcb \cup {NoPcb}]
MutexOK == execution_mutex \in Planners \cup {"free"}
ArrivalsOK == /\ pid \in Nat
              /\ receiving \in [Consoles -> {"unsent", "pid++", "put", "received"}]
              /\ next_pid \in [Consoles -> Nat]
DeparturesOK == /\ memory_exit_q \in Seq(Pcb \cup {Freed})
                /\ answers \in [Consoles -> Nat]

KernelTypeOK ==
    SemaphoresOK /\ QueuesOK /\ LocationsOK /\ HandsOK /\ MutexOK /\ ArrivalsOK /\ DeparturesOK

KernelInit ==
    /\ sem = [s \in Semaphores |->
         CASE s = "sem_multiprogram" -> MultiprogrammingLevel
           [] s \in {"cpu_free", "waiting_for_suspension"} -> 1
           [] OTHER -> 0]
    /\ queue = [q \in Queues |-> <<>>]
    /\ memory_exit_q = <<>>
    /\ at = [t \in Threads |->
         CASE t = "to_ready" -> "any_for_ready"
           [] t = "to_exec" -> "ready_for_exec"
           [] t = "io_listener" -> "process_for_IO"
           [] t = "exit_process" -> "to_exit"]
    /\ hand = [t \in Holders |-> NoPcb]
    /\ execution_mutex = "free"
    /\ pid = 0
    /\ receiving = [c \in Consoles |-> "unsent"]
    /\ next_pid = [c \in Consoles |-> 0]
    /\ answers = [c \in Consoles |-> 0]

-----------------------------------------------------------------------------
(* A console's connection: receive_process. *)

\* pid++ reads the counter.  No mutex guards it.
ReceiveProcess_Read(c) ==
    /\ receiving[c] = "unsent"
    /\ OverlapConsoles \/ \A d \in Consoles : receiving[d] \in {"unsent", "received"}
    /\ next_pid' = [next_pid EXCEPT ![c] = pid + 1]
    /\ receiving' = [receiving EXCEPT ![c] = "pid++"]
    /\ UNCHANGED <<sem, queue, at, hand, execution_mutex, pid, departures, socketVars>>

\* pid++ writes it.
ReceiveProcess_Write(c) ==
    /\ receiving[c] = "pid++"
    /\ pid' = next_pid[c]
    /\ receiving' = [receiving EXCEPT ![c] = "put"]
    /\ UNCHANGED <<sem, queue, at, hand, execution_mutex, next_pid, departures, socketVars>>

\* pcb->pid = pid reads the counter again, or reuses the value just written:
\* the compiler may do either.  The process is queued in new_q.
ReceiveProcess_Put(c) ==
    /\ receiving[c] = "put"
    /\ \E p \in {pid, next_pid[c]} :
         queue' = [queue EXCEPT !["new_q"] = Append(@,
                     [client_socket |-> c, pid |-> p, program_counter |-> 0,
                      page_table |-> 0, process_frames_index |-> 0,
                      left_burst_estimation |-> InitialEstimate])]
    /\ sem' = [sem EXCEPT !["any_for_ready"] = @ + 1]
    /\ receiving' = [receiving EXCEPT ![c] = "received"]
    /\ UNCHANGED <<at, hand, execution_mutex, pid, next_pid, departures, socketVars>>

-----------------------------------------------------------------------------
(* The thread to_ready: to_ready, new_to_ready, suspended_to_ready. *)

ToReady_Any ==
    /\ at["to_ready"] = "any_for_ready"
    /\ sem["any_for_ready"] > 0
    /\ sem' = [sem EXCEPT !["any_for_ready"] = @ - 1]
    /\ at' = [at EXCEPT !["to_ready"] = "sem_multiprogram"]
    /\ UNCHANGED <<queue, hand, execution_mutex, arrivals, departures, socketVars>>

\* A plausible bug: pQueue_peek instead of pQueue_take.
Admit_Peek(q, l) ==
    /\ hand' = [hand EXCEPT !["to_ready"] = Head(queue[q])]
    /\ at' = [at EXCEPT !["to_ready"] = l]
    /\ UNCHANGED queue

\* A process leaves queue q and its admission goes on at location l.
Admit(q, l) ==
    /\ hand' = [hand EXCEPT !["to_ready"] = Head(queue[q])]
    /\ queue' = [queue EXCEPT ![q] = Tail(@)]
    /\ at' = [at EXCEPT !["to_ready"] = l]

\* A plausible bug: new processes before suspended ones.
ToReady_Admit_NewFirst ==
    /\ at["to_ready"] = "sem_multiprogram"
    /\ sem["sem_multiprogram"] > 0
    /\ sem' = [sem EXCEPT !["sem_multiprogram"] = @ - 1]
    /\ IF queue["new_q"] # <<>> THEN Admit("new_q", "PROCESS_NEW")
       ELSE Admit("suspended_ready_q", "put_to_ready")
    /\ UNCHANGED <<execution_mutex, arrivals, departures, socketVars>>

\* Suspended processes come back first, and nothing is asked of the memory for
\* them.  With both queues empty the loop would start again, one permit short.
ToReady_Admit ==
    /\ at["to_ready"] = "sem_multiprogram"
    /\ sem["sem_multiprogram"] > 0
    /\ sem' = [sem EXCEPT !["sem_multiprogram"] = @ - 1]
    /\ IF queue["suspended_ready_q"] # <<>> THEN Admit("suspended_ready_q", "put_to_ready")
       ELSE IF queue["new_q"] # <<>> THEN Admit("new_q", "PROCESS_NEW")
       ELSE at' = [at EXCEPT !["to_ready"] = "any_for_ready"] /\ UNCHANGED <<queue, hand>>
    /\ UNCHANGED <<execution_mutex, arrivals, departures, socketVars>>

NewToReady_Send ==
    /\ at["to_ready"] = "PROCESS_NEW"
    /\ memory_requests' = Append(memory_requests,
         [header |-> "PROCESS_NEW", pid |-> hand["to_ready"].pid,
          size |-> Size[hand["to_ready"].client_socket]])
    /\ at' = [at EXCEPT !["to_ready"] = "memory_init_q"]
    /\ UNCHANGED <<sem, queue, hand, execution_mutex, arrivals, departures,
                   dispatch, interrupts, returns, memory_answers>>

NewToReady_Put ==
    /\ at["to_ready"] = "memory_init_q"
    /\ queue' = [queue EXCEPT !["memory_init_q"] = Append(@, hand["to_ready"])]
    /\ at' = [at EXCEPT !["to_ready"] = "pcb_table_ready"]
    /\ UNCHANGED <<sem, hand, execution_mutex, arrivals, departures, socketVars>>

NewToReady_Ready ==
    /\ at["to_ready"] = "pcb_table_ready"
    /\ sem["pcb_table_ready"] > 0
    /\ sem' = [sem EXCEPT !["pcb_table_ready"] = @ - 1]
    /\ at' = [at EXCEPT !["to_ready"] = "put_to_ready"]
    /\ UNCHANGED <<queue, hand, execution_mutex, arrivals, departures, socketVars>>

-----------------------------------------------------------------------------
(* put_to_ready, called by to_ready and by io_listener. *)

\* SJF_sort and pQueue_sort; which of two equal estimates comes first is left open.
Sorted(s) ==
    \A i, j \in DOMAIN s :
        i < j => s[i].left_burst_estimation <= s[j].left_burst_estimation

Permutation(D) == {f \in [D -> D] : \A i \in D : \E j \in D : f[j] = i}

SortsOf(s) ==
    {r \in {[i \in DOMAIN s |-> s[f[i]]] : f \in Permutation(DOMAIN s)} : Sorted(r)}

\* Where the loop of thread t starts.
LoopStart(t) == IF t = "to_ready" THEN "any_for_ready" ELSE "process_for_IO"

PutToReady_Fifo(t) ==
    /\ Algorithm = "FIFO"
    /\ queue' = [queue EXCEPT !["ready_q"] = Append(@, hand[t])]
    /\ sem' = [sem EXCEPT !["ready_for_exec"] = @ + 1]
    /\ hand' = [hand EXCEPT ![t] = NoPcb]
    /\ at' = [at EXCEPT ![t] = LoopStart(t)]
    /\ UNCHANGED <<execution_mutex, interrupts>>

\* The CPU is free: replan at once.
PutToReady_Replan(t) ==
    /\ Algorithm = "SRT"
    /\ sem["cpu_free"] > 0
    /\ \E r \in SortsOf(Append(queue["ready_q"], hand[t])) :
         queue' = [queue EXCEPT !["ready_q"] = r]
    /\ sem' = [sem EXCEPT !["ready_for_exec"] = @ + 1]
    /\ hand' = [hand EXCEPT ![t] = NoPcb]
    /\ at' = [at EXCEPT ![t] = LoopStart(t)]
    /\ UNCHANGED <<execution_mutex, interrupts>>

\* The CPU is taken: interrupt it, and wait holding the mutex.
PutToReady_Interrupt(t) ==
    /\ Algorithm = "SRT"
    /\ sem["cpu_free"] = 0
    /\ queue' = [queue EXCEPT !["ready_q"] = Append(@, hand[t])]
    /\ interrupts' = interrupts + 1
    /\ execution_mutex' = t
    /\ hand' = [hand EXCEPT ![t] = NoPcb]
    /\ at' = [at EXCEPT ![t] = "interrupt_ready"]
    /\ UNCHANGED sem

PutToReady(t) ==
    /\ at[t] = "put_to_ready"
    /\ execution_mutex = "free"
    /\ PutToReady_Fifo(t) \/ PutToReady_Replan(t) \/ PutToReady_Interrupt(t)
    /\ UNCHANGED <<arrivals, departures,
                   dispatch, returns, memory_requests, memory_answers>>

\* A plausible bug: no replanning after the interruption.
PutToReady_Resume_NoSort(t) ==
    /\ at[t] = "interrupt_ready"
    /\ sem["interrupt_ready"] > 0
    /\ sem' = [sem EXCEPT !["interrupt_ready"] = @ - 1, !["ready_for_exec"] = @ + 1]
    /\ execution_mutex' = "free"
    /\ at' = [at EXCEPT ![t] = LoopStart(t)]
    /\ UNCHANGED <<queue, hand, arrivals, departures, socketVars>>

\* sem_wait(interrupt_ready) returns: sort, unlock, post.
PutToReady_Resume(t) ==
    /\ at[t] = "interrupt_ready"
    /\ sem["interrupt_ready"] > 0
    /\ \E r \in SortsOf(queue["ready_q"]) : queue' = [queue EXCEPT !["ready_q"] = r]
    /\ sem' = [sem EXCEPT !["interrupt_ready"] = @ - 1, !["ready_for_exec"] = @ + 1]
    /\ execution_mutex' = "free"
    /\ at' = [at EXCEPT ![t] = LoopStart(t)]
    /\ UNCHANGED <<hand, arrivals, departures, socketVars>>

-----------------------------------------------------------------------------
(* The thread to_exec. *)

ToExec_Ready ==
    /\ at["to_exec"] = "ready_for_exec"
    /\ sem["ready_for_exec"] > 0
    /\ sem' = [sem EXCEPT !["ready_for_exec"] = @ - 1]
    /\ at' = [at EXCEPT !["to_exec"] = "cpu_free"]
    /\ UNCHANGED <<queue, hand, execution_mutex, arrivals, departures, socketVars>>

ToExec_Cpu ==
    /\ at["to_exec"] = "cpu_free"
    /\ sem["cpu_free"] > 0
    /\ sem' = [sem EXCEPT !["cpu_free"] = @ - 1]
    /\ at' = [at EXCEPT !["to_exec"] = "execution_mutex"]
    /\ UNCHANGED <<queue, hand, execution_mutex, arrivals, departures, socketVars>>

\* The mutex is taken and released; pQueue_take would wait on an empty queue.
ToExec_Dispatch ==
    /\ at["to_exec"] = "execution_mutex"
    /\ execution_mutex = "free"
    /\ queue["ready_q"] # <<>>
    /\ dispatch' = Append(dispatch, Head(queue["ready_q"]))
    /\ queue' = [queue EXCEPT !["ready_q"] = Tail(@)]
    /\ at' = [at EXCEPT !["to_exec"] = "ready_for_exec"]
    /\ UNCHANGED <<sem, hand, execution_mutex, arrivals, departures,
                   interrupts, returns, memory_requests, memory_answers>>

-----------------------------------------------------------------------------
(* The thread io_listener.  Whether the I/O fits in what is left of          *)
(* TIEMPO_MAXIMO_BLOQUEADO is a choice here; Times models the clock.         *)

IoListener_Take(q, l) ==
    /\ at["io_listener"] = "process_for_IO"
    /\ sem["process_for_IO"] > 0
    /\ queue[q] # <<>>
    /\ sem' = [sem EXCEPT !["process_for_IO"] = @ - 1]
    /\ hand' = [hand EXCEPT !["io_listener"] = Head(queue[q])]
    /\ queue' = [queue EXCEPT ![q] = Tail(@)]
    /\ at' = [at EXCEPT !["io_listener"] = l]
    /\ UNCHANGED <<execution_mutex, arrivals, departures, socketVars>>

IoListener_Fits == IoListener_Take("blocked_q", "put_to_ready")

IoListener_Exceeds == IoListener_Take("blocked_q", "PROCESS_SUSPEND")

IoListener_Suspended ==
    /\ queue["blocked_q"] = <<>>
    /\ IoListener_Take("suspended_block_q", "suspended_ready_q")

\* Asks the memory server to suspend the process whose burst was too long.
IoListener_Suspend ==
    /\ at["io_listener"] = "PROCESS_SUSPEND"
    /\ memory_requests' = Append(memory_requests,
         [header |-> "PROCESS_SUSPEND", pid |-> hand["io_listener"].pid,
          page_table |-> hand["io_listener"].page_table,
          process_frames_index |-> hand["io_listener"].process_frames_index])
    /\ at' = [at EXCEPT !["io_listener"] = "waiting_for_suspension"]
    /\ UNCHANGED <<sem, queue, hand, execution_mutex, arrivals, departures,
                   dispatch, interrupts, returns, memory_answers>>

\* A plausible bug: process_for_IO is not posted for the rest of the I/O.
IoListener_Wait_NoPost ==
    /\ at["io_listener"] = "waiting_for_suspension"
    /\ sem["waiting_for_suspension"] > 0
    /\ sem' = [sem EXCEPT !["waiting_for_suspension"] = @ - 1, !["sem_multiprogram"] = @ + 1]
    /\ queue' = [queue EXCEPT !["suspended_block_q"] = Append(@, hand["io_listener"])]
    /\ hand' = [hand EXCEPT !["io_listener"] = NoPcb]
    /\ at' = [at EXCEPT !["io_listener"] = "process_for_IO"]
    /\ UNCHANGED <<execution_mutex, arrivals, departures, socketVars>>

IoListener_Wait ==
    /\ at["io_listener"] = "waiting_for_suspension"
    /\ sem["waiting_for_suspension"] > 0
    /\ sem' = [sem EXCEPT !["waiting_for_suspension"] = @ - 1,
                          !["sem_multiprogram"] = @ + 1, !["process_for_IO"] = @ + 1]
    /\ queue' = [queue EXCEPT !["suspended_block_q"] = Append(@, hand["io_listener"])]
    /\ hand' = [hand EXCEPT !["io_listener"] = NoPcb]
    /\ at' = [at EXCEPT !["io_listener"] = "process_for_IO"]
    /\ UNCHANGED <<execution_mutex, arrivals, departures, socketVars>>

\* Two plausible bugs: any_for_ready is not posted; the pcb is put after it was let go.
IoListener_Finish_NoPost ==
    /\ at["io_listener"] = "suspended_ready_q"
    /\ queue' = [queue EXCEPT !["suspended_ready_q"] = Append(@, hand["io_listener"])]
    /\ hand' = [hand EXCEPT !["io_listener"] = NoPcb]
    /\ at' = [at EXCEPT !["io_listener"] = "process_for_IO"]
    /\ UNCHANGED <<sem, execution_mutex, arrivals, departures, socketVars>>

IoListener_Finish_Null ==
    /\ at["io_listener"] = "suspended_ready_q"
    /\ queue' = [queue EXCEPT !["suspended_ready_q"] = Append(@, NoPcb)]
    /\ sem' = [sem EXCEPT !["any_for_ready"] = @ + 1]
    /\ hand' = [hand EXCEPT !["io_listener"] = NoPcb]
    /\ at' = [at EXCEPT !["io_listener"] = "process_for_IO"]
    /\ UNCHANGED <<execution_mutex, arrivals, departures, socketVars>>

\* The I/O of a suspended process ends.
IoListener_Finish ==
    /\ at["io_listener"] = "suspended_ready_q"
    /\ queue' = [queue EXCEPT !["suspended_ready_q"] = Append(@, hand["io_listener"])]
    /\ sem' = [sem EXCEPT !["any_for_ready"] = @ + 1]
    /\ hand' = [hand EXCEPT !["io_listener"] = NoPcb]
    /\ at' = [at EXCEPT !["io_listener"] = "process_for_IO"]
    /\ UNCHANGED <<execution_mutex, arrivals, departures, socketVars>>

-----------------------------------------------------------------------------
(* The thread exit_process. *)

ExitProcess_Send ==
    /\ at["exit_process"] = "to_exit"
    /\ sem["to_exit"] > 0
    /\ queue["exit_q"] # <<>>
    /\ LET p == Head(queue["exit_q"]) IN
         /\ hand' = [hand EXCEPT !["exit_process"] = p]
         /\ memory_requests' = Append(memory_requests,
              [header |-> "PROCESS_EXIT", pid |-> p.pid, page_table |-> p.page_table,
               process_frames_index |-> p.process_frames_index])
    /\ sem' = [sem EXCEPT !["to_exit"] = @ - 1]
    /\ queue' = [queue EXCEPT !["exit_q"] = Tail(@)]
    /\ at' = [at EXCEPT !["exit_process"] = "memory_exit_q"]
    /\ UNCHANGED <<execution_mutex, arrivals, departures,
                   dispatch, interrupts, returns, memory_answers>>

ExitProcess_Put ==
    /\ at["exit_process"] = "memory_exit_q"
    /\ memory_exit_q' = Append(memory_exit_q, hand["exit_process"])
    /\ hand' = [hand EXCEPT !["exit_process"] = NoPcb]
    /\ at' = [at EXCEPT !["exit_process"] = "to_exit"]
    /\ UNCHANGED <<sem, queue, execution_mutex, arrivals, answers, socketVars>>

-----------------------------------------------------------------------------
(* Handlers of what the CPU returns (cpu_dispatch_listener). *)

\* The CPU's oldest packet has header h.
Returned(h) == returns # <<>> /\ Head(returns).header = h

\* A burst ended in I/O: a new estimate, any, and the process waits for its I/O.
IoOp ==
    /\ Returned("IO_CALL")
    /\ \E e \in Estimates :
         queue' = [queue EXCEPT !["blocked_q"] = Append(@,
                     [Head(returns).pcb EXCEPT !.left_burst_estimation = e])]
    /\ sem' = [sem EXCEPT !["cpu_free"] = @ + 1, !["process_for_IO"] = @ + 1]
    /\ returns' = Tail(returns)
    /\ UNCHANGED <<at, hand, execution_mutex, arrivals, departures,
                   dispatch, interrupts, memory_requests, memory_answers>>

ExitOp ==
    /\ Returned("EXIT_CALL")
    /\ queue' = [queue EXCEPT !["exit_q"] = Append(@, Head(returns).pcb)]
    /\ sem' = [sem EXCEPT !["to_exit"] = @ + 1, !["cpu_free"] = @ + 1]
    /\ returns' = Tail(returns)
    /\ UNCHANGED <<at, hand, execution_mutex, arrivals, departures,
                   dispatch, interrupts, memory_requests, memory_answers>>

\* A plausible bug: the evicted process is queued but not announced.
HandleInterruption_NoPost ==
    /\ Returned("INTERRUPT_DISPATCH")
    /\ queue' = [queue EXCEPT !["ready_q"] = Append(@, Head(returns).pcb)]
    /\ sem' = [sem EXCEPT !["cpu_free"] = @ + 1, !["interrupt_ready"] = @ + 1]
    /\ returns' = Tail(returns)
    /\ UNCHANGED <<at, hand, execution_mutex, arrivals, departures,
                   dispatch, interrupts, memory_requests, memory_answers>>

\* Some time has been executed, so the estimate does not grow.  No mutex is taken.
HandleInterruption ==
    /\ Returned("INTERRUPT_DISPATCH")
    /\ LET p == Head(returns).pcb IN
         \E e \in {e \in Estimates : e <= p.left_burst_estimation} :
           queue' = [queue EXCEPT !["ready_q"] =
                       Append(@, [p EXCEPT !.left_burst_estimation = e])]
    /\ sem' = [sem EXCEPT !["ready_for_exec"] = @ + 1, !["cpu_free"] = @ + 1,
                          !["interrupt_ready"] = @ + 1]
    /\ returns' = Tail(returns)
    /\ UNCHANGED <<at, hand, execution_mutex, arrivals, departures,
                   dispatch, interrupts, memory_requests, memory_answers>>

-----------------------------------------------------------------------------
(* Handlers of what the memory server answers (memory_listener). *)

Answered(h) == memory_answers # <<>> /\ Head(memory_answers).header = h

\* The pcb is looked up by pid, and whatever is first is taken out of the queue.
\* to_ready is the only thread that fills the queue and it waits, so the pcb
\* found is the one it holds.  When none is found terminate_kernel(true) is
\* called, which does nothing: it only acts on SIGINT.
TableIndexSuccess ==
    /\ Answered("PROCESS_MEMORY_READY")
    /\ LET m == Head(memory_answers) IN
         IF \E i \in DOMAIN queue["memory_init_q"] : queue["memory_init_q"][i].pid = m.pid
         THEN /\ hand' = [hand EXCEPT
                    !["to_ready"] = [@ EXCEPT !.page_table = m.page_table,
                        !.process_frames_index = m.process_frames_index]]
              /\ queue' = [queue EXCEPT !["memory_init_q"] = Tail(@)]
              /\ sem' = [sem EXCEPT !["pcb_table_ready"] = @ + 1]
         ELSE UNCHANGED <<hand, queue, sem>>
    /\ memory_answers' = Tail(memory_answers)
    /\ UNCHANGED <<at, execution_mutex, arrivals, departures,
                   dispatch, interrupts, returns, memory_requests>>

SuspensionSuccess ==
    /\ Answered("PROCESS_SUSPENSION_READY")
    /\ sem' = [sem EXCEPT !["waiting_for_suspension"] = @ + 1]
    /\ memory_answers' = Tail(memory_answers)
    /\ UNCHANGED <<queue, at, hand, execution_mutex, arrivals, departures,
                   dispatch, interrupts, returns, memory_requests>>

\* The positions of memory_exit_q whose pcb has number n.
ExitsWithPid(n) ==
    {i \in DOMAIN memory_exit_q :
        memory_exit_q[i] # Freed /\ memory_exit_q[i].pid = n}

\* Every match is freed, and stays in the queue as a dangling pointer; the
\* console of the last match is answered.
AnswerConsole(found) ==
    /\ memory_exit_q' = [i \in DOMAIN memory_exit_q |->
         IF i \in found THEN Freed ELSE memory_exit_q[i]]
    /\ answers' = [c \in Consoles |->
         IF \E i \in found : /\ memory_exit_q[i].client_socket = c
                             /\ \A j \in found : j <= i
         THEN answers[c] + 1 ELSE answers[c]]

\* Two plausible bugs: sem_multiprogram is not posted; cpu_free is posted too, as
\* the code's commented-out "POSIBLE ADICION" would do.
ExitProcessSuccess_NoPost ==
    /\ Answered("PROCESS_EXIT_READY")
    /\ AnswerConsole(ExitsWithPid(Head(memory_answers).pid))
    /\ memory_answers' = Tail(memory_answers)
    /\ UNCHANGED <<sem, queue, at, hand, execution_mutex, arrivals,
                   dispatch, interrupts, returns, memory_requests>>

ExitProcessSuccess_CpuToo ==
    /\ Answered("PROCESS_EXIT_READY")
    /\ AnswerConsole(ExitsWithPid(Head(memory_answers).pid))
    /\ sem' = [sem EXCEPT !["sem_multiprogram"] = @ + 1, !["cpu_free"] = @ + 1]
    /\ memory_answers' = Tail(memory_answers)
    /\ UNCHANGED <<queue, at, hand, execution_mutex, arrivals,
                   dispatch, interrupts, returns, memory_requests>>

\* Not finding the pid answers nobody (terminate_kernel(true) again), and
\* sem_multiprogram is posted in any case.
ExitProcessSuccess ==
    /\ Answered("PROCESS_EXIT_READY")
    /\ AnswerConsole(ExitsWithPid(Head(memory_answers).pid))
    /\ sem' = [sem EXCEPT !["sem_multiprogram"] = @ + 1]
    /\ memory_answers' = Tail(memory_answers)
    /\ UNCHANGED <<queue, at, hand, execution_mutex, arrivals,
                   dispatch, interrupts, returns, memory_requests>>

-----------------------------------------------------------------------------

ReceiveProcess(c) ==
    ReceiveProcess_Read(c) \/ ReceiveProcess_Write(c) \/ ReceiveProcess_Put(c)

ToReady ==
    \/ ToReady_Any \/ ToReady_Admit
    \/ NewToReady_Send \/ NewToReady_Put \/ NewToReady_Ready
    \/ PutToReady("to_ready") \/ PutToReady_Resume("to_ready")

ToExec == ToExec_Ready \/ ToExec_Cpu \/ ToExec_Dispatch

IoListener ==
    \/ IoListener_Fits \/ IoListener_Exceeds \/ IoListener_Suspended
    \/ IoListener_Suspend \/ IoListener_Wait \/ IoListener_Finish
    \/ PutToReady("io_listener") \/ PutToReady_Resume("io_listener")

ExitProcess == ExitProcess_Send \/ ExitProcess_Put

CpuDispatchListener == IoOp \/ ExitOp \/ HandleInterruption

MemoryListener == TableIndexSuccess \/ SuspensionSuccess \/ ExitProcessSuccess

=============================================================================
