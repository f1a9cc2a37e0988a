-------------------------------- MODULE Cpu --------------------------------
(***************************************************************************)
(* The CPU server (cpu/src/cpu.c): the dispatch thread that receives a     *)
(* process, the interrupt thread that raises the interruption flag, and    *)
(* the cycle thread that runs instructions and returns the process.        *)
(*                                                                         *)
(* The three threads share one global pcb.  cycle is where the cycle       *)
(* thread is: waiting on pcb_loaded, at the test of its inner loop, at the *)
(* check for interruptions, or blocked for good in a wait nobody posts.    *)
(***************************************************************************)
EXTENDS Sockets

VARIABLES
    cpu_pcb,           \* the global pcb
    pcb_loaded,        \* semaphore: processes received and not started
    cpu_bussy,         \* semaphore: 1 while the process in the CPU is its own
    new_interruption,  \* the flag
    cycle              \* the cycle thread's location

cpuVars == <<cpu_pcb, pcb_loaded, cpu_bussy, new_interruption, cycle>>

CpuTypeOK ==
    /\ cpu_pcb \in Pcb \cup {NoPcb}
    /\ pcb_loaded \in Nat
    /\ cpu_bussy \in Nat
    /\ new_interruption \in BOOLEAN
    /\ cycle \in {"pcb_loaded", "loop", "check", "cpu_bussy", "waiting_second_table_number"}

CpuInit ==
    /\ cpu_pcb = NoPcb
    /\ pcb_loaded = 0
    /\ cpu_bussy = 0
    /\ new_interruption = FALSE
    /\ cycle = "pcb_loaded"

-----------------------------------------------------------------------------

\* The dispatch thread overwrites the global pcb, whatever the cycle is doing.
ReceivePcb ==
    /\ dispatch # <<>>
    /\ cpu_pcb' = Head(dispatch)
    /\ dispatch' = Tail(dispatch)
    /\ pcb_loaded' = pcb_loaded + 1
    /\ UNCHANGED <<cpu_bussy, new_interruption, cycle,
                   interrupts, returns, memory_requests, memory_answers>>

\* The flag's mutex is held by a cycle thread blocked in an eviction.
ReceiveInterruption ==
    /\ interrupts > 0
    /\ cycle # "cpu_bussy"
    /\ interrupts' = interrupts - 1
    /\ new_interruption' = TRUE
    /\ UNCHANGED <<cpu_pcb, pcb_loaded, cpu_bussy, cycle,
                   dispatch, returns, memory_requests, memory_answers>>

CycleStart ==
    /\ cycle = "pcb_loaded"
    /\ pcb_loaded > 0
    /\ pcb_loaded' = pcb_loaded - 1
    /\ cpu_bussy' = cpu_bussy + 1
    /\ cycle' = "loop"
    /\ UNCHANGED <<cpu_pcb, new_interruption, socketVars>>

\* The condition of the inner loop.
Runs == cpu_bussy > 0 /\ cpu_pcb.program_counter < Len(Program[cpu_pcb.client_socket])

\* A process that runs off its last instruction stays in the CPU.
CycleEnd ==
    /\ cycle = "loop"
    /\ ~Runs
    /\ cycle' = "pcb_loaded"
    /\ UNCHANGED <<cpu_pcb, pcb_loaded, cpu_bussy, new_interruption, socketVars>>

\* The process after its program counter moves to the next instruction.
Advanced == [cpu_pcb EXCEPT !.program_counter = @ + 1]

\* fetch_and_decode of an instruction in ops.  The delay of executing it comes
\* before this step, so that whatever arrives meanwhile is there at the check.
FetchAndDecode(ops) ==
    /\ cycle = "loop"
    /\ Runs
    /\ Program[cpu_pcb.client_socket][cpu_pcb.program_counter + 1] \in ops
    /\ cpu_pcb' = Advanced

\* pcb_to_kernel(h) with process p while cpu_bussy is 1, as it is inside the
\* loop: the wait on it passes.
PcbToKernel(h, p) ==
    /\ returns' = Append(returns, [header |-> h, pcb |-> p])
    /\ cpu_bussy' = cpu_bussy - 1

ExecuteNoOp ==
    /\ FetchAndDecode({"NO_OP"})
    /\ cycle' = "check"
    /\ UNCHANGED <<pcb_loaded, cpu_bussy, new_interruption, socketVars>>

ExecuteIo ==
    /\ FetchAndDecode({"I/O"})
    /\ PcbToKernel("IO_CALL", Advanced)
    /\ cycle' = "check"
    /\ UNCHANGED <<pcb_loaded, new_interruption,
                   dispatch, interrupts, memory_requests, memory_answers>>

ExecuteExit ==
    /\ FetchAndDecode({"EXIT"})
    /\ PcbToKernel("EXIT_CALL", Advanced)
    /\ cycle' = "check"
    /\ UNCHANGED <<pcb_loaded, new_interruption,
                   dispatch, interrupts, memory_requests, memory_answers>>

\* mmu asks the memory for the second-level table and waits.  No thread of the memory
\* server reads the CPU's connection after the handshake, and no thread of the CPU
\* reads the answers.
Mmu ==
    /\ cycle' = "waiting_second_table_number"
    /\ UNCHANGED <<pcb_loaded, cpu_bussy, new_interruption, socketVars>>

\* READ, COPY and WRITE begin with an address to be translated.
ExecuteMemoryOp == FetchAndDecode({"READ", "WRITE", "COPY"}) /\ Mmu

NoInterruption ==
    /\ cycle = "check"
    /\ ~new_interruption
    /\ cycle' = "loop"
    /\ UNCHANGED <<cpu_pcb, pcb_loaded, cpu_bussy, new_interruption, socketVars>>

\* A plausible bug: the flag is not reset.
Evict_NoReset ==
    /\ cycle = "check"
    /\ new_interruption
    /\ cpu_bussy > 0
    /\ PcbToKernel("INTERRUPT_DISPATCH", cpu_pcb)
    /\ cycle' = "loop"
    /\ UNCHANGED <<cpu_pcb, pcb_loaded, new_interruption,
                   dispatch, interrupts, memory_requests, memory_answers>>

\* The process is still the CPU's: it goes back, and the flag is reset.
Evict ==
    /\ cycle = "check"
    /\ new_interruption
    /\ cpu_bussy > 0
    /\ PcbToKernel("INTERRUPT_DISPATCH", cpu_pcb)
    /\ new_interruption' = FALSE
    /\ cycle' = "loop"
    /\ UNCHANGED <<cpu_pcb, pcb_loaded,
                   dispatch, interrupts, memory_requests, memory_answers>>

\* The process left with IO_CALL or EXIT_CALL: the global pcb is sent all the
\* same, then sem_wait(cpu_bussy) blocks with the flag's mutex held.
EvictGone ==
    /\ cycle = "check"
    /\ new_interruption
    /\ cpu_bussy = 0
    /\ returns' = Append(returns, [header |-> "INTERRUPT_DISPATCH", pcb |-> cpu_pcb])
    /\ cycle' = "cpu_bussy"
    /\ UNCHANGED <<cpu_pcb, pcb_loaded, cpu_bussy, new_interruption,
                   dispatch, interrupts, memory_requests, memory_answers>>

CpuCycle ==
    \/ CycleStart \/ CycleEnd
    \/ ExecuteNoOp \/ ExecuteIo \/ ExecuteExit \/ ExecuteMemoryOp
    \/ NoInterruption \/ Evict \/ EvictGone

=============================================================================
