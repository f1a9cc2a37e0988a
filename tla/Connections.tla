---------------------------- MODULE Connections ----------------------------
(***************************************************************************)
(* How the programs find each other: the main function of each one from    *)
(* its start until it serves, the connections of the consoles to the       *)
(* kernel, and the descriptor numbers under which the kernel knows them.   *)
(*                                                                         *)
(* What happens to a process between its arrival and its exit is the       *)
(* business of System; here it needs the memory server once and the CPU    *)
(* once, over the connections that the start made or failed to make.       *)
(***************************************************************************)
EXTENDS Serialization

CONSTANTS Consoles,
          Nobody,
          Starts  \* the ways the programs may be started

\* "runner": all at once, as runner.sh does.  "staggered": each by somebody who
\* waits until the log of the one before says that it has what it needs.
ASSUME StartsAssumption == Starts \subseteq {"runner", "staggered"}

Programs == {"memory", "cpu", "kernel"}

ASSUME ConsolesAssumption == Consoles \cap Programs = {}
ASSUME NobodyAssumption == Nobody \notin Consoles \cup Programs

\* Numbers for the connections of consoles; the kernel's other descriptors are
\* opened before them and never closed.
Descriptors == 1 .. Cardinality(Consoles)

VARIABLES
    start,       \* how the programs are started
    main,        \* main[p]: where the main function of p is
    sockets,     \* the kernel's three connections that are not -1
    memory_port, \* who has connected to the memory server and was not accepted
    memory_client, \* whom cpu_handshake_listener accepted
    to_memory,   \* to_memory[p]: bytes from p that the memory server has not read
    kernel_port, \* consoles that have connected and were not accepted
    descriptor,  \* descriptor[n]: the console at the other end of n
    stage,       \* stage[c]: how far the process of c is
    client_socket, \* client_socket[c]: of its pcb
    to_console,  \* to_console[c]: the processes whose end was written to c
    result,      \* result[c]: the process whose end c reported
    killed       \* consoles that were killed

startVars == <<start, main, sockets, memory_port, memory_client, to_memory>>
consoleVars == <<kernel_port, descriptor, stage, client_socket, to_console, result, killed>>
connectionsVars == <<startVars, consoleVars>>

ConnectionsInit ==
    /\ start \in Starts
    /\ main = [p \in Programs \cup Consoles |-> "off"]
    /\ sockets = {}
    /\ memory_port = <<>>
    /\ memory_client = Nobody
    /\ to_memory = [p \in {"cpu", "kernel"} |-> <<>>]
    /\ kernel_port = <<>>
    /\ descriptor = [n \in Descriptors |-> Nobody]
    /\ stage = [c \in Consoles |-> "none"]
    /\ client_socket = [c \in Consoles |-> 0]
    /\ to_console = [c \in Consoles |-> <<>>]
    /\ result = [c \in Consoles |-> Nobody]
    /\ killed = {}

-----------------------------------------------------------------------------

Dead == {"crashed", "exited", "killed"}

\* create_server has been called and the program lives: connect succeeds, before
\* the connection is accepted.
MemoryListens == main["memory"] \notin {"off", "create_server"} \cup Dead
DispatchListens == main["cpu"] \notin {"off", "dispatch_server"} \cup Dead
InterruptListens == main["cpu"] \notin {"off", "dispatch_server", "interrupt_server"} \cup Dead
KernelListens == main["kernel"] = "serving"

GoTo(p, place) == main' = [main EXCEPT ![p] = place]

\* Whom a careful user waits for before starting the next program.
ReadyFor(p) ==
    CASE p = "memory" -> TRUE
      [] p = "cpu" -> MemoryListens
      [] p = "kernel" -> main["cpu"] = "serving"
      [] p \in Consoles -> main["kernel"] = "serving"

FirstStep(p) ==
    CASE p = "memory" -> "create_server"
      [] p = "cpu" -> "dispatch_server"
      [] p = "kernel" -> "cpu_dispatch_socket"
      [] p \in Consoles -> "connect_to"

Start(p) ==
    /\ main[p] = "off"
    /\ start = "staggered" => ReadyFor(p)
    /\ GoTo(p, FirstStep(p))
    /\ UNCHANGED <<start, sockets, memory_port, memory_client, to_memory, consoleVars>>

-----------------------------------------------------------------------------
(* memory/src/memory.c *)

MEM_HANDSHAKE == 1

Memory_CreateServer ==
    /\ main["memory"] = "create_server"
    /\ GoTo("memory", "cpu_handshake_listener")
    /\ UNCHANGED <<start, sockets, memory_port, memory_client, to_memory, consoleVars>>

\* The first to connect is taken for the CPU.
CpuHandshakeListener_Accept ==
    /\ main["memory"] = "cpu_handshake_listener"
    /\ memory_client = Nobody
    /\ memory_port # <<>>
    /\ memory_client' = Head(memory_port)
    /\ memory_port' = Tail(memory_port)
    /\ UNCHANGED <<start, main, sockets, to_memory, consoleVars>>

\* cpu_handshake sends TABLE_INFO_TO_CPU.  The CPU goes on; in the kernel the packet
\* has the number of a handler that is NULL.
CpuHandshake ==
    main' = [main EXCEPT !["memory"] = "serving",
                         ![memory_client] = IF @ = "TABLE_INFO_TO_CPU" THEN "serving" ELSE "crashed"]

\* A plausible bug: cpu_handshake returns true, and the loop goes on.
CpuHandshakeListener_Header_GoesOn ==
    /\ main["memory"] = "cpu_handshake_listener"
    /\ memory_client # Nobody
    /\ to_memory[memory_client] # <<>>
    /\ to_memory' = [to_memory EXCEPT ![memory_client] = Tail(@)]
    /\ IF Head(to_memory[memory_client]) = MEM_HANDSHAKE
       THEN GoTo(memory_client, "serving")
       ELSE UNCHANGED main
    /\ UNCHANGED <<start, sockets, memory_port, memory_client, consoleVars>>

\* Bytes are read one by one until one is MEM_HANDSHAKE.
CpuHandshakeListener_Header ==
    /\ main["memory"] = "cpu_handshake_listener"
    /\ memory_client # Nobody
    /\ to_memory[memory_client] # <<>>
    /\ to_memory' = [to_memory EXCEPT ![memory_client] = Tail(@)]
    /\ IF Head(to_memory[memory_client]) = MEM_HANDSHAKE THEN CpuHandshake ELSE UNCHANGED main
    /\ UNCHANGED <<start, sockets, memory_port, memory_client, consoleVars>>

\* From then on every client gets a thread that runs packet_handler.
Memory_Accept ==
    /\ main["memory"] = "serving"
    /\ memory_port # <<>>
    /\ memory_port' = Tail(memory_port)
    /\ UNCHANGED <<start, main, sockets, memory_client, to_memory, consoleVars>>

\* The client of the handshake has no such thread.
ServedByMemory(p) ==
    /\ main["memory"] = "serving"
    /\ memory_client # p
    /\ \A i \in DOMAIN memory_port : memory_port[i] # p

-----------------------------------------------------------------------------
(* cpu/src/cpu.c *)

Cpu_CreateServers ==
    /\ \/ main["cpu"] = "dispatch_server" /\ GoTo("cpu", "interrupt_server")
       \/ main["cpu"] = "interrupt_server" /\ GoTo("cpu", "connect_to")
    /\ UNCHANGED <<start, sockets, memory_port, memory_client, to_memory, consoleVars>>

\* Refused, the CPU terminates.
Cpu_ConnectToMemory ==
    /\ main["cpu"] = "connect_to"
    /\ IF MemoryListens
       THEN /\ memory_port' = Append(memory_port, "cpu")
            /\ GoTo("cpu", "memory_handshake")
       ELSE /\ GoTo("cpu", "exited")
            /\ UNCHANGED memory_port
    /\ UNCHANGED <<start, sockets, memory_client, to_memory, consoleVars>>

\* It sends one byte and waits for TABLE_INFO_TO_CPU.
MemoryHandshake ==
    /\ main["cpu"] = "memory_handshake"
    /\ to_memory' = [to_memory EXCEPT !["cpu"] = Append(@, MEM_HANDSHAKE)]
    /\ GoTo("cpu", "TABLE_INFO_TO_CPU")
    /\ UNCHANGED <<start, sockets, memory_port, memory_client, consoleVars>>

-----------------------------------------------------------------------------
(* The start of kernel/src/kernel.c *)

\* Refused or not, the kernel goes on: terminate_kernel does nothing unless it is
\* called for SIGINT.
Kernel_ConnectTo(socket, listens, next) ==
    /\ main["kernel"] = socket
    /\ sockets' = IF listens THEN sockets \cup {socket} ELSE sockets
    /\ memory_port' = IF socket = "memory_socket" /\ listens
                      THEN Append(memory_port, "kernel") ELSE memory_port
    /\ GoTo("kernel", next)
    /\ UNCHANGED <<start, memory_client, to_memory, consoleVars>>

Kernel_Connect ==
    \/ Kernel_ConnectTo("cpu_dispatch_socket", DispatchListens, "cpu_interrupt_socket")
    \/ Kernel_ConnectTo("cpu_interrupt_socket", InterruptListens, "memory_socket")
    \/ Kernel_ConnectTo("memory_socket", MemoryListens, "create_server")

Kernel_CreateServer ==
    /\ main["kernel"] = "create_server"
    /\ GoTo("kernel", "serving")
    /\ UNCHANGED <<start, sockets, memory_port, memory_client, to_memory, consoleVars>>

-----------------------------------------------------------------------------
(* A console, console/src/console.c *)

Console_ConnectTo(c) ==
    /\ main[c] = "connect_to"
    /\ IF KernelListens
       THEN kernel_port' = Append(kernel_port, c) /\ GoTo(c, "NEW_PROCESS")
       ELSE GoTo(c, "exited") /\ UNCHANGED kernel_port
    /\ UNCHANGED <<start, sockets, memory_port, memory_client, to_memory, descriptor, stage,
                   client_socket, to_console, result, killed>>

\* What it sends stays in the connection, accepted or not.
Console_Send(c) ==
    /\ main[c] = "NEW_PROCESS"
    /\ stage' = [stage EXCEPT ![c] = "sent"]
    /\ GoTo(c, "result")
    /\ UNCHANGED <<start, sockets, memory_port, memory_client, to_memory, kernel_port,
                   descriptor, client_socket, to_console, result, killed>>

\* The header of an answer is read, the result reported and the socket closed.
\* Once the kernel is gone recv fails, and the header is whatever byte was on the
\* stack: the console reports the end of its process or an error.
Console_Result(c) ==
    /\ main[c] = "result"
    /\ \/ /\ to_console[c] # <<>>
          /\ result' = [result EXCEPT ![c] = Head(to_console[c])]
       \/ /\ to_console[c] = <<>>
          /\ main["kernel"] = "crashed"
          /\ \E reported \in {c, Nobody} : result' = [result EXCEPT ![c] = reported]
    /\ GoTo(c, "exited")
    /\ UNCHANGED <<start, sockets, memory_port, memory_client, to_memory, kernel_port,
                   descriptor, stage, client_socket, to_console, killed>>

\* Somebody stops a console before its process has ended.
Console_Killed(c) ==
    /\ main[c] \in {"NEW_PROCESS", "result"}
    /\ GoTo(c, "killed")
    /\ killed' = killed \cup {c}
    /\ UNCHANGED <<start, sockets, memory_port, memory_client, to_memory, kernel_port,
                   descriptor, stage, client_socket, to_console, result>>

-----------------------------------------------------------------------------
(* The kernel and its consoles. *)

\* accept gives the lowest number that is free.
Kernel_Accept ==
    /\ main["kernel"] = "serving"
    /\ kernel_port # <<>>
    /\ \E n \in Descriptors :
         /\ descriptor[n] = Nobody
         /\ \A lower \in 1 .. n - 1 : descriptor[lower] # Nobody
         /\ descriptor' = [descriptor EXCEPT ![n] = Head(kernel_port)]
    /\ kernel_port' = Tail(kernel_port)
    /\ UNCHANGED <<startVars, stage, client_socket, to_console, result, killed>>

\* The thread of descriptor n reads the process; the pcb keeps n.
Kernel_ReceiveProcess(n) ==
    /\ main["kernel"] = "serving"
    /\ descriptor[n] # Nobody
    /\ stage[descriptor[n]] = "sent"
    /\ stage' = [stage EXCEPT ![descriptor[n]] = "new"]
    /\ client_socket' = [client_socket EXCEPT ![descriptor[n]] = n]
    /\ UNCHANGED <<startVars, kernel_port, descriptor, to_console, result, killed>>

\* A plausible bug: the connection is closed as soon as the process was received.
Kernel_Close_AfterReceive(n) ==
    /\ main["kernel"] = "serving"
    /\ descriptor[n] # Nobody
    /\ stage[descriptor[n]] = "new"
    /\ descriptor' = [descriptor EXCEPT ![n] = Nobody]
    /\ UNCHANGED <<startVars, kernel_port, stage, client_socket, to_console, result, killed>>

\* It goes on reading until the console is gone and seven receives have failed, and
\* closes n.
Kernel_Close(n) ==
    /\ main["kernel"] = "serving"
    /\ descriptor[n] # Nobody
    /\ main[descriptor[n]] \in Dead
    /\ stage[descriptor[n]] # "sent"
    /\ descriptor' = [descriptor EXCEPT ![n] = Nobody]
    /\ UNCHANGED <<startVars, kernel_port, stage, client_socket, to_console, result, killed>>

PROCESS_NEW == 0

\* pids are given in the order of arrival; only the first one's bytes matter here.
PidOf(c) == Cardinality({d \in Consoles : stage[d] \notin {"none", "sent", "new"}}) + 1

\* new_to_ready asks the memory server, if there is a connection to it, and waits for
\* the answer.
NewToReady(c) ==
    /\ main["kernel"] = "serving"
    /\ stage[c] = "new"
    /\ \A d \in Consoles : stage[d] # "memory_init"
    /\ stage' = [stage EXCEPT ![c] = "memory_init"]
    /\ to_memory' = IF "memory_socket" \in sockets
                    THEN [to_memory EXCEPT !["kernel"] =
                            @ \o <<PROCESS_NEW>> \o Uint32(8) \o Uint32(PidOf(c)) \o Uint32(64)]
                    ELSE to_memory
    /\ UNCHANGED <<start, main, sockets, memory_port, memory_client, kernel_port, descriptor,
                   client_socket, to_console, result, killed>>

\* process_new, and table_index_success in the kernel.
ProcessNew(c) ==
    /\ ServedByMemory("kernel")
    /\ main["kernel"] = "serving"
    /\ stage[c] = "memory_init"
    /\ to_memory["kernel"] # <<>>
    /\ to_memory' = [to_memory EXCEPT !["kernel"] = <<>>]
    /\ stage' = [stage EXCEPT ![c] = "ready"]
    /\ UNCHANGED <<start, main, sockets, memory_port, memory_client, kernel_port, descriptor,
                   client_socket, to_console, result, killed>>

\* The CPU accepts the connection for dispatch once its handshake is over.  The
\* process runs, ends and is destroyed by the memory server.
Execute(c) ==
    /\ main["kernel"] = "serving"
    /\ main["cpu"] = "serving"
    /\ "cpu_dispatch_socket" \in sockets
    /\ stage[c] = "ready"
    /\ stage' = [stage EXCEPT ![c] = "exit"]
    /\ UNCHANGED <<startVars, kernel_port, descriptor, client_socket, to_console, result, killed>>

\* PROCESS_OK goes to whoever is behind the number that the pcb kept.
ExitProcessSuccess(c) ==
    /\ main["kernel"] = "serving"
    /\ stage[c] = "exit"
    /\ stage' = [stage EXCEPT ![c] = "gone"]
    /\ LET d == descriptor[client_socket[c]] IN
       to_console' = IF d = Nobody THEN to_console
                     ELSE [to_console EXCEPT ![d] = Append(@, c)]
    /\ UNCHANGED <<startVars, kernel_port, descriptor, client_socket, result, killed>>

-----------------------------------------------------------------------------

MemoryMain ==
    \/ Memory_CreateServer
    \/ CpuHandshakeListener_Accept
    \/ CpuHandshakeListener_Header
    \/ Memory_Accept

CpuMain == Cpu_CreateServers \/ Cpu_ConnectToMemory \/ MemoryHandshake

KernelMain == Kernel_Connect \/ Kernel_CreateServer \/ Kernel_Accept

Console(c) == Console_ConnectTo(c) \/ Console_Send(c) \/ Console_Result(c)

Process(c) == NewToReady(c) \/ ProcessNew(c) \/ Execute(c) \/ ExitProcessSuccess(c)

KernelThread(n) == Kernel_ReceiveProcess(n) \/ Kernel_Close(n)

\* Nobody has anything left to do.
Rest ==
    /\ \A c \in Consoles : main[c] \in Dead \cup {"result"}
    /\ UNCHANGED connectionsVars

ConnectionsNext ==
    \/ \E p \in Programs \cup Consoles : Start(p)
    \/ MemoryMain
    \/ CpuMain
    \/ KernelMain
    \/ \E c \in Consoles : Console(c) \/ Process(c) \/ Console_Killed(c)
    \/ \E n \in Descriptors : KernelThread(n)
    \/ Rest

\* Every program that was started runs until it blocks, and somebody starts them
\* all.  Nobody has to kill a console.
ConnectionsSpec ==
    /\ ConnectionsInit
    /\ [][ConnectionsNext]_connectionsVars
    /\ \A p \in Programs \cup Consoles : WF_connectionsVars(Start(p))
    /\ WF_connectionsVars(MemoryMain)
    /\ WF_connectionsVars(CpuMain)
    /\ WF_connectionsVars(KernelMain)
    /\ \A c \in Consoles : WF_connectionsVars(Console(c)) /\ WF_connectionsVars(Process(c))
    /\ \A n \in Descriptors : WF_connectionsVars(KernelThread(n))

-----------------------------------------------------------------------------
(* Properties. *)

(***************************************************************************)
(* When the programs were started one after another and no console was     *)
(* killed, what a console reports is true: its own process has ended.      *)
(* Consoles come and go meanwhile and their descriptors are used again, so *)
(* this needs the kernel to keep a descriptor open for as long as a pcb    *)
(* may name it.                                                            *)
(***************************************************************************)
ResultsAreTrue ==
    start = "staggered" /\ killed = {} =>
        \A c \in Consoles : result[c] # Nobody => result[c] = c /\ stage[c] = "gone"

(***************************************************************************)
(* Started one after another the programs find each other: the handshake   *)
(* is made, everybody ends up serving, and every console gets an answer    *)
(* unless it is killed.                                                    *)
(***************************************************************************)
StaggeredStartServes ==
    \A c \in Consoles :
        start = "staggered" ~>
            main[c] = "killed" \/ (main[c] = "exited" /\ result[c] # Nobody)

\* "Received handshake petition from CPU" (memory.c, cpu_handshake): the client that
\* is told the sizes of pages and tables is the CPU.
HandshakeIsWithCpu == main["memory"] = "serving" => memory_client = "cpu"

\* "Process exited successfully" (console.c, main): a console says so only of a
\* process that has.
SuccessIsReal == \A c \in Consoles : result[c] # Nobody => stage[c] = "gone"

=============================================================================
