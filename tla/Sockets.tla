------------------------------ MODULE Sockets ------------------------------
(***************************************************************************)
(* The processes' control block and the TCP connections between the        *)
(* kernel, the CPU and the memory server: what the three programs share.   *)
(* A connection delivers whole packets in the order they were sent, as     *)
(* Channel says; Wire shows it of the bytes, for one sender a connection.  *)
(*                                                                         *)
(* A process is known by the console that sent it (its client_socket).     *)
(* The pid is data: the kernel's numbering of consoles that connect at the *)
(* same time can give two processes the same one.                          *)
(***************************************************************************)
EXTENDS Integers, Sequences, FiniteSets

CONSTANTS Consoles,   \* the consoles, one process each
          Program,    \* Program[c]: the operations of the process c sends
          Size,       \* Size[c]: its size in bytes
          Estimates,  \* the burst estimates told apart, in milliseconds
          NoPcb       \* a null pointer

Operations == {"NO_OP", "I/O", "READ", "COPY", "WRITE", "EXIT"}

ASSUME ConsolesAssumption == IsFiniteSet(Consoles)
ASSUME ProgramAssumption == Program \in [Consoles -> Seq(Operations)]
ASSUME SizeAssumption == Size \in [Consoles -> Nat]
ASSUME EstimatesAssumption == Estimates \subseteq Int

(***************************************************************************)
(* t_pcb.  The instruction list and the size travel with it unchanged:     *)
(* they are Program[client_socket] and Size[client_socket].  Estimates are *)
(* kept only as the remaining burst, which is what SRT sorts by.           *)
(***************************************************************************)
Pcb == [client_socket : Consoles,
        pid : Nat,
        program_counter : Nat,
        page_table : Nat,
        process_frames_index : Nat,
        left_burst_estimation : Estimates]

ASSUME NoPcbAssumption == NoPcb \notin Pcb

\* Headers of the packets the CPU returns a process with.
Returns == [header : {"IO_CALL", "EXIT_CALL", "INTERRUPT_DISPATCH"}, pcb : Pcb]

\* Requests of the kernel to the memory server, and its answers.
MemoryRequests ==
    [header : {"PROCESS_NEW"}, pid : Nat, size : Nat]
    \cup [header : {"PROCESS_SUSPEND", "PROCESS_EXIT"},
          pid : Nat, page_table : Nat, process_frames_index : Nat]

MemoryAnswers ==
    [header : {"PROCESS_MEMORY_READY"},
     pid : Nat, page_table : Nat, process_frames_index : Nat]
    \cup [header : {"PROCESS_SUSPENSION_READY"}]
    \cup [header : {"PROCESS_EXIT_READY"}, pid : Nat]

VARIABLES
    dispatch,         \* kernel -> CPU, dispatch port: pcbs (PCB_TO_CPU)
    interrupts,       \* kernel -> CPU, interrupt port: INTERRUPT headers on the way
    returns,          \* CPU -> kernel, dispatch port: processes coming back
    memory_requests,  \* kernel -> memory
    memory_answers    \* memory -> kernel

socketVars == <<dispatch, interrupts, returns, memory_requests, memory_answers>>

SocketsTypeOK ==
    /\ dispatch \in Seq(Pcb)
    /\ interrupts \in Nat
    /\ returns \in Seq(Returns)
    /\ memory_requests \in Seq(MemoryRequests)
    /\ memory_answers \in Seq(MemoryAnswers)

SocketsInit ==
    /\ dispatch = <<>>
    /\ interrupts = 0
    /\ returns = <<>>
    /\ memory_requests = <<>>
    /\ memory_answers = <<>>

\* The elements of a queue, in any order.
Elements(s) == {s[i] : i \in DOMAIN s}

\* How many elements of a queue are in S.
Count(s, S) == Cardinality({i \in DOMAIN s : s[i] \in S})

=============================================================================
