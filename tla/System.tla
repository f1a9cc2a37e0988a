------------------------------- MODULE System -------------------------------
(***************************************************************************)
(* The kernel, the CPU and the memory server together.  Each of their      *)
(* threads takes its own steps; they meet only in the semaphores and       *)
(* queues of the kernel and in the sockets.                                *)
(***************************************************************************)
EXTENDS Kernel, Cpu, Memory

(***************************************************************************)
(* new_to_ready and exit_process send their request to the memory server   *)
(* before they put the pcb where the handler of the answer looks for it.   *)
(* SlowMemory says that the server's delay (RETARDO_MEMORIA, 500 ms or     *)
(* more in every configuration of the repository) outlasts those few       *)
(* instructions.  Without it the answer may come first.                    *)
(***************************************************************************)
CONSTANT SlowMemory

ASSUME SlowMemoryAssumption == SlowMemory \in BOOLEAN

vars == <<socketVars, kernelVars, cpuVars, memoryVars>>

TypeOK == SocketsTypeOK /\ KernelTypeOK /\ CpuTypeOK /\ MemoryTypeOK

Init == SocketsInit /\ KernelInit /\ CpuInit /\ MemoryInit

\* The thread that sent the oldest request has not yet put its pcb in the queue.
StillSending ==
    \/ /\ Requested("PROCESS_NEW")
       /\ at["to_ready"] = "memory_init_q"
    \/ /\ Requested("PROCESS_EXIT")
       /\ at["exit_process"] = "memory_exit_q"
       /\ hand["exit_process"].pid = Head(memory_requests).pid

KernelStep(A) == A /\ UNCHANGED <<cpuVars, memoryVars>>
CpuStep(A) == A /\ UNCHANGED <<kernelVars, memoryVars>>
MemoryStep(A) == A /\ (SlowMemory => ~StillSending) /\ UNCHANGED <<kernelVars, cpuVars>>

\* Every process has come and gone.
Finished == \A c \in Consoles : answers[c] > 0

Idle == Finished /\ UNCHANGED vars

Next ==
    \/ \E c \in Consoles : KernelStep(ReceiveProcess(c))
    \/ KernelStep(ToReady)
    \/ KernelStep(ToExec)
    \/ KernelStep(IoListener)
    \/ KernelStep(ExitProcess)
    \/ KernelStep(CpuDispatchListener)
    \/ KernelStep(MemoryListener)
    \/ CpuStep(ReceivePcb)
    \/ CpuStep(ReceiveInterruption)
    \/ CpuStep(CpuCycle)
    \/ MemoryStep(MemoryServer)
    \/ Idle

(***************************************************************************)
(* Every thread of the three programs is a thread of the operating system  *)
(* that runs until it blocks, and every semaphore has one waiting thread,  *)
(* so each takes a step it can go on taking.  Consoles owe nothing: one    *)
(* may never connect, but a connection's thread ends what it started.      *)
(***************************************************************************)
Fairness ==
    /\ \A c \in Consoles :
         WF_vars(KernelStep(ReceiveProcess_Write(c) \/ ReceiveProcess_Put(c)))
    /\ WF_vars(KernelStep(ToReady))
    /\ WF_vars(KernelStep(ToExec))
    /\ WF_vars(KernelStep(IoListener))
    /\ WF_vars(KernelStep(ExitProcess))
    /\ WF_vars(KernelStep(CpuDispatchListener))
    /\ WF_vars(KernelStep(MemoryListener))
    /\ WF_vars(CpuStep(ReceivePcb))
    /\ WF_vars(CpuStep(ReceiveInterruption))
    /\ WF_vars(CpuStep(CpuCycle))
    /\ WF_vars(MemoryStep(MemoryServer))

Spec == Init /\ [][Next]_vars

FairSpec == Spec /\ Fairness

-----------------------------------------------------------------------------
(* What keeps the steps well defined: it makes TypeOK inductive. *)

\* A thread holds a pcb wherever it goes on to use one.
HandsFull ==
    /\ at["to_ready"] \in {"PROCESS_NEW", "memory_init_q", "pcb_table_ready", "put_to_ready"}
         => hand["to_ready"] \in Pcb
    /\ at["io_listener"] \in {"put_to_ready", "PROCESS_SUSPEND", "waiting_for_suspension",
                           "suspended_ready_q"}
         => hand["io_listener"] \in Pcb
    /\ at["exit_process"] = "memory_exit_q" => hand["exit_process"] \in Pcb

\* The CPU has a pcb from the first dispatch on.
CpuLoaded == cycle # "pcb_loaded" \/ pcb_loaded + cpu_bussy > 0 => cpu_pcb \in Pcb

\* memory_init_q and pcb_table_ready are the two halves of one hand-over: the
\* pcb waits for its memory, or its memory waits for the thread.
OneAdmission ==
    /\ Len(queue["memory_init_q"]) + sem["pcb_table_ready"] <= 1
    /\ Len(queue["memory_init_q"]) + sem["pcb_table_ready"] > 0
         => at["to_ready"] = "pcb_table_ready"

-----------------------------------------------------------------------------
(* Where a process can be. *)

\* 1 if b, else 0: a thread between two points holds one permit or one process.
One(b) == IF b THEN 1 ELSE 0

Held(t) == IF hand[t] = NoPcb THEN <<>> ELSE <<hand[t]>>

\* The process the CPU has been given and has not returned.
InCpu == IF pcb_loaded + cpu_bussy > 0 THEN <<cpu_pcb>> ELSE <<>>

Returning == [i \in DOMAIN returns |-> returns[i].pcb]

\* From its dispatch to its return a process is on its way to, in or from the CPU.
Executing == dispatch \o InCpu \o Returning

\* What io_listener holds uses a permit of sem_multiprogram, unless it was suspended.
AwaitingIo == IF at["io_listener"] = "suspended_ready_q" THEN <<>> ELSE Held("io_listener")
AwaitingIoOutside ==
    IF at["io_listener"] = "suspended_ready_q" THEN Held("io_listener") ELSE <<>>

\* Processes that count for the multiprogramming level.  Those in memory_exit_q have
\* ended, and their memory is being destroyed; what was freed there is no process.
Admitted ==
    Held("to_ready") \o queue["ready_q"] \o Executing \o queue["blocked_q"] \o AwaitingIo
    \o queue["exit_q"] \o Held("exit_process") \o memory_exit_q

\* Processes that wait outside memory.
Suspended ==
    queue["suspended_block_q"] \o queue["suspended_ready_q"] \o AwaitingIoOutside

Everywhere == queue["new_q"] \o Admitted \o Suspended

\* The forms that the process of console c may have.
ProcessOf(c) == {p \in Pcb : p.client_socket = c}

-----------------------------------------------------------------------------
(* Safety. *)

(***************************************************************************)
(* The counting semaphores of the schedulers count what they are meant to. *)
(* Posts and puts are made by six threads and takes by four, some of them  *)
(* holding a permit of one queue while they wait for another, so that a    *)
(* missing or an extra post shows only many steps later, as a thread that  *)
(* sleeps with work queued or that wakes up with none.                     *)
(***************************************************************************)
AnyForReadyCounts ==
    sem["any_for_ready"] + One(at["to_ready"] = "sem_multiprogram")
        = Len(queue["new_q"]) + Len(queue["suspended_ready_q"])

\* A planner waiting for the CPU has put its process but not posted it.
ReadyForExecCounts ==
    sem["ready_for_exec"] + One(at["to_exec"] # "ready_for_exec")
      + One(at["to_ready"] = "interrupt_ready") + One(at["io_listener"] = "interrupt_ready")
        = Len(queue["ready_q"])

ProcessForIoCounts ==
    sem["process_for_IO"] = Len(queue["blocked_q"]) + Len(queue["suspended_block_q"])

ToExitCounts == sem["to_exit"] = Len(queue["exit_q"])

SemaphoresMatchQueues ==
    /\ AnyForReadyCounts
    /\ ReadyForExecCounts
    /\ ProcessForIoCounts
    /\ ToExitCounts

(***************************************************************************)
(* The multiprogramming level bounds the processes in memory, exactly:     *)
(* permits of sem_multiprogram and processes that use one add up to it.    *)
(***************************************************************************)
MultiprogramBound == sem["sem_multiprogram"] + Count(Admitted, Pcb) = MultiprogrammingLevel

(***************************************************************************)
(* There is one CPU: cpu_free is its permit, and whoever took it has       *)
(* dispatched at most one process, which is in one place until it returns. *)
(***************************************************************************)
CpuExclusive ==
    sem["cpu_free"] + One(at["to_exec"] = "execution_mutex") + Len(Executing) = 1

(***************************************************************************)
(* A process is never lost and never duplicated on its way through eight   *)
(* queues, five connections and four threads: from its arrival until its   *)
(* console is answered it is in exactly one place, and the console is      *)
(* answered once.                                                          *)
(***************************************************************************)
OnePlace ==
    \A c \in Consoles :
        Count(Everywhere, ProcessOf(c)) + answers[c] = One(receiving[c] = "received")

\* Processes whose memory has been made and not yet given back.
Loaded ==
    (IF at["to_ready"] = "put_to_ready" THEN Held("to_ready") ELSE <<>>)
    \o queue["ready_q"] \o Executing \o queue["blocked_q"] \o Held("io_listener")
    \o queue["suspended_block_q"] \o queue["suspended_ready_q"] \o queue["exit_q"]

(***************************************************************************)
(* The memory server's bookkeeping: a frame is marked in the bitmap exactly *)
(* when some process holds it, and no two processes hold the same frame.   *)
(***************************************************************************)
FrameOwnership ==
    /\ frames_bitmap = UNION Elements(processes_frames)
    /\ \A i, j \in DOMAIN processes_frames :
         i # j => processes_frames[i] \cap processes_frames[j] = {}

(***************************************************************************)
(* The kernel's and the memory server's views agree.  A process that can   *)
(* run or wait has entries of its own in the server's lists and its swap   *)
(* file.  Frames are held only for processes that have not left: for one   *)
(* of those, for one whose exit is still on its way to the server, or for  *)
(* the newest, whose indices have not reached the kernel's pcb.            *)
(***************************************************************************)
LoadedHaveMemory ==
    \A i \in DOMAIN Loaded :
        /\ Loaded[i].process_frames_index < Len(processes_frames)
        /\ Loaded[i].page_table < Len(level1_tables)
        /\ Loaded[i].pid \in swap_files
        /\ \A j \in DOMAIN Loaded \ {i} :
             Loaded[i].process_frames_index # Loaded[j].process_frames_index

FramesHaveOwner ==
    \A k \in DOMAIN processes_frames :
        processes_frames[k] # {} =>
            \/ \E p \in Elements(Loaded) : p.process_frames_index = k - 1
            \/ \E r \in Elements(memory_requests) :
                 r.header = "PROCESS_EXIT" /\ r.process_frames_index = k - 1
            \/ /\ k = Len(processes_frames)
               /\ at["to_ready"] \in {"memory_init_q", "pcb_table_ready"}

MemoryMatchesProcesses == LoadedHaveMemory /\ FramesHaveOwner

-----------------------------------------------------------------------------
(* SRT: preemption by interrupt. *)

\* The planner t interrupted the CPU and waits for it.
Waiting(t) == at[t] = "interrupt_ready"

\* Packets that return an evicted process.
Interrupted == {r \in Returns : r.header = "INTERRUPT_DISPATCH"}

(***************************************************************************)
(* An interrupt is neither lost nor made up, whatever the CPU is doing when *)
(* it comes: it is on its way, flagged, on its way back with the evicted   *)
(* process or counted in interrupt_ready, and then exactly one planner     *)
(* waits for it and that one holds execution_mutex.                        *)
(***************************************************************************)
InterruptsConserved ==
    /\ interrupts + One(new_interruption /\ cycle # "cpu_bussy")
         + Count(returns, Interrupted) + sem["interrupt_ready"]
       = One(execution_mutex # "free")
    /\ \A t \in Planners : Waiting(t) <=> execution_mutex = t

(***************************************************************************)
(* Under SRT the process dispatched has the least remaining estimate of    *)
(* all that are ready, although handle_interruption appends to ready_q     *)
(* unsorted and without execution_mutex.                                   *)
(***************************************************************************)
ShortestFirst ==
    [][Algorithm = "SRT" /\ Len(dispatch') > Len(dispatch) =>
         \A r \in Elements(queue["ready_q"]) :
             dispatch'[Len(dispatch')].left_burst_estimation
                 <= r.left_burst_estimation]_vars

-----------------------------------------------------------------------------
(* Refinement: the system implements the life cycle. *)

Has(c, s) == \E i \in DOMAIN s : s[i] \in ProcessOf(c)

StageOf(c) ==
    CASE answers[c] > 0 -> "done"
      [] Has(c, queue["new_q"]) -> "new"
      [] Has(c, Held("to_ready") \o queue["ready_q"]) -> "ready"
      [] Has(c, Executing) -> "exec"
      [] Has(c, queue["suspended_ready_q"]) -> "suspended_ready"
      [] Has(c, queue["suspended_block_q"] \o AwaitingIoOutside) -> "suspended_blocked"
      [] Has(c, queue["blocked_q"] \o AwaitingIo) -> "blocked"
      [] Has(c, queue["exit_q"] \o Held("exit_process") \o memory_exit_q) -> "exit"
      [] OTHER -> "off"

L == INSTANCE Lifecycle WITH Processes <- Consoles, Level <- MultiprogrammingLevel,
                             stage <- [c \in Consoles |-> StageOf(c)]

(***************************************************************************)
(* Every step of the three programs is a step of the life cycle of one     *)
(* process, or invisible in it.                                            *)
(***************************************************************************)
LifecycleSpec == L!Spec

-----------------------------------------------------------------------------
(* Liveness. *)

(***************************************************************************)
(* Every process that arrives ends, and its console is told.               *)
(***************************************************************************)
EveryConsoleAnswered ==
    \A c \in Consoles : receiving[c] = "received" ~> answers[c] = 1

-----------------------------------------------------------------------------
(* What comments and tests of the repository say and the code does not do.   *)
(* TLC refutes each of these; README.md tells what happens.                  *)

\* "Se espera a que vuelva de CPU" (kernel.c, put_to_ready): the planner that
\* interrupts the CPU waits until the process comes back.
InterruptedCpuReturns ==
    \A t \in Planners : Waiting(t) ~> ~Waiting(t)

=============================================================================
