------------------------- MODULE ConnectionsProofs -------------------------
(***************************************************************************)
(* What a console reports is true, for any number of consoles, when the    *)
(* programs were started one after another and no console was killed.      *)
(*                                                                         *)
(* The property is about the end of a process; the invariant follows it    *)
(* from the start.  A console whose process is in the kernel waits for the *)
(* result, so the thread of its descriptor does not close it, so the       *)
(* number that the pcb keeps still stands for that console.  That the      *)
(* kernel does not crash, which would leave the console to read garbage,   *)
(* needs the start: nobody but the CPU can be taken for the CPU.           *)
(***************************************************************************)
EXTENDS Connections, TLAPS

-----------------------------------------------------------------------------
(* The inductive invariant. *)

Places == {"off", "create_server", "cpu_handshake_listener", "dispatch_server",
           "interrupt_server", "connect_to", "memory_handshake", "TABLE_INFO_TO_CPU",
           "cpu_dispatch_socket", "cpu_interrupt_socket", "memory_socket", "NEW_PROCESS",
           "result", "serving", "exited", "crashed", "killed"}

Stages == {"none", "sent", "new", "memory_init", "ready", "exit", "gone"}

ConnectionsTypeOK ==
    /\ main \in [Programs \cup Consoles -> Places]
    /\ memory_port \in Seq({"cpu", "kernel"})
    /\ memory_client \in {"cpu", "kernel", Nobody}
    /\ kernel_port \in Seq(Consoles)
    /\ descriptor \in [Descriptors -> Consoles \cup {Nobody}]
    /\ stage \in [Consoles -> Stages]
    /\ client_socket \in [Consoles -> Descriptors \cup {0}]
    /\ to_console \in [Consoles -> Seq(Consoles)]
    /\ result \in [Consoles -> Consoles \cup {Nobody}]
    /\ killed \in SUBSET Consoles

\* The kernel is started when the CPU has made its handshake: until then it is not a
\* client of the memory server, and from then on the listener is gone.
KernelComesLast ==
    /\ main["kernel"] # "off" => main["cpu"] = "serving"
    /\ main["cpu"] = "serving" => main["memory"] = "serving"
    /\ main["kernel"] # "crashed"
    /\ main["kernel"] = "off" =>
         /\ memory_client # "kernel"
         /\ \A i \in 1 .. Len(memory_port) : memory_port[i] # "kernel"

\* A console that has sent nothing has no process.
NothingSent ==
    \A c \in Consoles : main[c] \in {"off", "connect_to", "NEW_PROCESS"} => stage[c] = "none"

\* The process of c is in the kernel.
InKernel(c) == stage[c] \in {"new", "memory_init", "ready", "exit"}

\* Its console waits, and is behind the number that the pcb keeps.
ConsoleWaits ==
    \A c \in Consoles :
        /\ InKernel(c) \/ stage[c] = "sent" => main[c] = "result"
        /\ InKernel(c) => /\ client_socket[c] \in Descriptors
                          /\ descriptor[client_socket[c]] = c

\* What was written to a console is about its own process, which has ended.
AnswersAreTrue ==
    \A c \in Consoles : \A i \in 1 .. Len(to_console[c]) :
        to_console[c][i] = c /\ stage[c] = "gone"

Undisturbed == start = "staggered" /\ killed = {}

ConnectionsInv ==
    /\ ConnectionsTypeOK
    /\ start = "staggered" => KernelComesLast
    /\ NothingSent
    /\ Undisturbed => ConsoleWaits /\ AnswersAreTrue
    /\ ResultsAreTrue
-----------------------------------------------------------------------------
(* The steps. *)

\* The three programs and the consoles are told apart by name.
LEMMA Names ==
  /\ {"memory", "cpu", "kernel"} \subseteq Programs
  /\ \A c \in Consoles : c \notin {"memory", "cpu", "kernel", Nobody}
  /\ Nobody \notin {"memory", "cpu", "kernel"}
  BY ConsolesAssumption, NobodyAssumption DEF Programs

\* A step that leaves the consoles and their processes alone.
LEMMA ConsolesAside ==
  ASSUME ConnectionsInv, ConnectionsTypeOK', UNCHANGED <<start, consoleVars>>,
         \A c \in Consoles : main'[c] = main[c],
         start = "staggered" => KernelComesLast'
  PROVE  ConnectionsInv'
  <1>1. NothingSent'
    BY DEF ConnectionsInv, NothingSent, consoleVars
  <1>2. Undisturbed => ConsoleWaits' /\ AnswersAreTrue'
    BY DEF ConnectionsInv, Undisturbed, ConsoleWaits, InKernel, AnswersAreTrue, consoleVars
  <1>3. ResultsAreTrue'
    BY DEF ConnectionsInv, ResultsAreTrue, consoleVars
  <1>. QED BY <1>1, <1>2, <1>3 DEF ConnectionsInv, Undisturbed, consoleVars

\* A program is started.
LEMMA Start_Inv ==
  ASSUME ConnectionsInv, NEW p \in Programs \cup Consoles, Start(p)
  PROVE  ConnectionsInv'
  <1>1. /\ main[p] = "off" /\ main' = [main EXCEPT ![p] = FirstStep(p)]
        /\ UNCHANGED <<start, sockets, memory_port, memory_client, to_memory, consoleVars>>
    BY DEF Start, GoTo
  <1>2. FirstStep(p) \in {"create_server", "dispatch_server", "cpu_dispatch_socket", "connect_to"}
    BY Names DEF FirstStep, Programs
  <1>3. ConnectionsTypeOK'
    BY <1>1, <1>2 DEF ConnectionsInv, ConnectionsTypeOK, Places, consoleVars
  <1>4. ASSUME start = "staggered" PROVE KernelComesLast'
    <2>1. p = "kernel" => main["cpu"] = "serving"
      BY <1>4 DEF Start, ReadyFor
    <2>2. KernelComesLast /\ main \in [Programs \cup Consoles -> Places]
      BY <1>4 DEF ConnectionsInv, ConnectionsTypeOK
    <2>. QED BY <1>1, <1>2, <2>1, <2>2, Names DEF KernelComesLast
  <1>5. main \in [Programs \cup Consoles -> Places]
    BY DEF ConnectionsInv, ConnectionsTypeOK
  <1>6. CASE p \in Programs
    <2>1. \A c \in Consoles : main'[c] = main[c]
      BY <1>1, <1>5, <1>6, ConsolesAssumption
    <2>. QED BY <1>1, <1>3, <1>4, <2>1, ConsolesAside
  <1>7. CASE p \in Consoles
    <2>1. stage[p] = "none"
      BY <1>1, <1>7 DEF ConnectionsInv, NothingSent
    <2>2. \A c \in Consoles : main'[c] = IF c = p THEN FirstStep(p) ELSE main[c]
      BY <1>1, <1>5
    <2>3. NothingSent'
      BY <1>1, <2>1, <2>2 DEF ConnectionsInv, NothingSent, consoleVars
    <2>4. Undisturbed => ConsoleWaits' /\ AnswersAreTrue'
      BY <1>1, <2>1, <2>2 DEF ConnectionsInv, Undisturbed, ConsoleWaits, InKernel,
         AnswersAreTrue, consoleVars
    <2>5. ResultsAreTrue'
      BY <1>1 DEF ConnectionsInv, ResultsAreTrue, consoleVars
    <2>. QED BY <1>1, <1>3, <1>4, <2>3, <2>4, <2>5
           DEF ConnectionsInv, Undisturbed, consoleVars
  <1>. QED BY <1>6, <1>7

\* The memory server from its start until it serves, and after.
LEMMA MemoryMain_Inv ==
  ASSUME ConnectionsInv, MemoryMain
  PROVE  ConnectionsInv'
  <1>1. /\ main \in [Programs \cup Consoles -> Places]
        /\ memory_port \in Seq({"cpu", "kernel"})
        /\ memory_client \in {"cpu", "kernel", Nobody}
    BY DEF ConnectionsInv, ConnectionsTypeOK
  <1>2. UNCHANGED <<start, consoleVars>>
    BY DEF MemoryMain, Memory_CreateServer, CpuHandshakeListener_Accept,
       CpuHandshakeListener_Header, Memory_Accept
  <1>3. ASSUME memory_port # <<>>
        PROVE  /\ Head(memory_port) \in {"cpu", "kernel"}
               /\ Tail(memory_port) \in Seq({"cpu", "kernel"})
               /\ \E i \in 1 .. Len(memory_port) : Head(memory_port) = memory_port[i]
               /\ \A i \in 1 .. Len(Tail(memory_port)) :
                    \E j \in 1 .. Len(memory_port) : Tail(memory_port)[i] = memory_port[j]
    BY <1>1, <1>3
  <1>4. CASE Memory_CreateServer
    <2>1. /\ main' = [main EXCEPT !["memory"] = "cpu_handshake_listener"]
          /\ main["memory"] = "create_server"
          /\ UNCHANGED <<memory_port, memory_client>>
      BY <1>4 DEF Memory_CreateServer, GoTo
    <2>2. ConnectionsTypeOK'
      BY <1>2, <2>1 DEF ConnectionsInv, ConnectionsTypeOK, Places, consoleVars
    <2>3. start = "staggered" => KernelComesLast'
      BY <1>1, <2>1, Names DEF ConnectionsInv, KernelComesLast
    <2>4. \A c \in Consoles : main'[c] = main[c]
      BY <1>1, <2>1, Names
    <2>. QED BY <1>2, <2>2, <2>3, <2>4, ConsolesAside
  <1>5. CASE CpuHandshakeListener_Accept \/ Memory_Accept
    <2>1. /\ memory_port # <<>> /\ memory_port' = Tail(memory_port) /\ main' = main
          /\ memory_client' \in {memory_client, Head(memory_port)}
      BY <1>5 DEF CpuHandshakeListener_Accept, Memory_Accept
    <2>2. ConnectionsTypeOK'
      BY <1>1, <1>2, <1>3, <2>1 DEF ConnectionsInv, ConnectionsTypeOK, Places, consoleVars
    <2>3. start = "staggered" => KernelComesLast'
      BY <1>3, <2>1 DEF ConnectionsInv, KernelComesLast
    <2>. QED BY <1>2, <2>1, <2>2, <2>3, ConsolesAside
  <1>6. CASE CpuHandshakeListener_Header
    <2>1. /\ main["memory"] = "cpu_handshake_listener" /\ memory_client # Nobody
          /\ UNCHANGED <<memory_port, memory_client>>
          /\ main' = main \/ CpuHandshake
      BY <1>6 DEF CpuHandshakeListener_Header
    <2>2. main' = main \/ \E s \in {"serving", "crashed"} :
            main' = [main EXCEPT !["memory"] = "serving", ![memory_client] = s]
      BY <1>1, <2>1, Names DEF CpuHandshake
    <2>3. ConnectionsTypeOK'
      BY <1>2, <2>1, <2>2 DEF ConnectionsInv, ConnectionsTypeOK, Places, consoleVars
    <2>4. \A c \in Consoles : main'[c] = main[c]
      BY <1>1, <2>1, <2>2, Names
    <2>5. ASSUME start = "staggered" PROVE KernelComesLast'
      <3>1. /\ KernelComesLast /\ main["cpu"] # "serving" /\ main["kernel"] = "off"
            /\ memory_client = "cpu"
        BY <1>1, <2>1, <2>5 DEF ConnectionsInv, KernelComesLast
      <3>2. main' = main \/ (main'["memory"] = "serving" /\ main'["kernel"] = "off")
        BY <1>1, <2>2, <3>1, Names
      <3>. QED BY <2>1, <3>1, <3>2 DEF KernelComesLast
    <2>. QED BY <1>2, <2>3, <2>4, <2>5, ConsolesAside
  <1>. QED BY <1>4, <1>5, <1>6 DEF MemoryMain

\* The CPU from its start until it waits for the memory server.
LEMMA CpuMain_Inv ==
  ASSUME ConnectionsInv, CpuMain
  PROVE  ConnectionsInv'
  <1>1. /\ main \in [Programs \cup Consoles -> Places]
        /\ memory_port \in Seq({"cpu", "kernel"})
    BY DEF ConnectionsInv, ConnectionsTypeOK
  <1>2. /\ UNCHANGED <<start, consoleVars, memory_client>>
        /\ main["cpu"] \notin {"off", "serving"}
        /\ \E s \in {"interrupt_server", "connect_to", "memory_handshake", "exited",
                     "TABLE_INFO_TO_CPU"} : main' = [main EXCEPT !["cpu"] = s]
        /\ memory_port' \in {memory_port, Append(memory_port, "cpu")}
    BY DEF CpuMain, Cpu_CreateServers, Cpu_ConnectToMemory, MemoryHandshake, GoTo
  <1>3. /\ Append(memory_port, "cpu") \in Seq({"cpu", "kernel"})
        /\ \A i \in 1 .. Len(Append(memory_port, "cpu")) :
             \/ Append(memory_port, "cpu")[i] = "cpu"
             \/ i \in 1 .. Len(memory_port) /\ Append(memory_port, "cpu")[i] = memory_port[i]
    BY <1>1
  <1>4. ConnectionsTypeOK'
    <2>1. main' \in [Programs \cup Consoles -> Places]
      BY <1>1, <1>2 DEF Places
    <2>2. memory_port' \in Seq({"cpu", "kernel"})
      BY <1>1, <1>2, <1>3
    <2>. QED BY <1>2, <2>1, <2>2 DEF ConnectionsInv, ConnectionsTypeOK, consoleVars
  <1>5. start = "staggered" => KernelComesLast'
    BY <1>1, <1>2, <1>3, Names DEF ConnectionsInv, KernelComesLast
  <1>6. \A c \in Consoles : main'[c] = main[c]
    BY <1>1, <1>2, Names
  <1>. QED BY <1>2, <1>4, <1>5, <1>6, ConsolesAside

\* The kernel connects and listens; whoever it finds, it goes on.
LEMMA KernelStart_Inv ==
  ASSUME ConnectionsInv, Kernel_Connect \/ Kernel_CreateServer
  PROVE  ConnectionsInv'
  <1>1. /\ main \in [Programs \cup Consoles -> Places]
        /\ memory_port \in Seq({"cpu", "kernel"})
    BY DEF ConnectionsInv, ConnectionsTypeOK
  <1>2. /\ UNCHANGED <<start, consoleVars, memory_client>>
        /\ main["kernel"] # "off"
        /\ \E s \in {"cpu_interrupt_socket", "memory_socket", "create_server", "serving"} :
             main' = [main EXCEPT !["kernel"] = s]
        /\ memory_port' \in {memory_port, Append(memory_port, "kernel")}
    BY DEF Kernel_Connect, Kernel_ConnectTo, Kernel_CreateServer, GoTo
  <1>3. ConnectionsTypeOK'
    <2>1. main' \in [Programs \cup Consoles -> Places]
      BY <1>1, <1>2 DEF Places
    <2>2. memory_port' \in Seq({"cpu", "kernel"})
      BY <1>1, <1>2
    <2>. QED BY <1>2, <2>1, <2>2 DEF ConnectionsInv, ConnectionsTypeOK, consoleVars
  <1>4. start = "staggered" => KernelComesLast'
    BY <1>1, <1>2, Names DEF ConnectionsInv, KernelComesLast
  <1>5. \A c \in Consoles : main'[c] = main[c]
    BY <1>1, <1>2, Names
  <1>. QED BY <1>2, <1>3, <1>4, <1>5, ConsolesAside

\* A step of a console or of the kernel that leaves the start alone.
LEMMA StartAside ==
  ASSUME ConnectionsInv, UNCHANGED <<memory_port, memory_client>>,
         \A p \in Programs : main'[p] = main[p]
  PROVE  start = "staggered" => KernelComesLast'
  BY Names DEF ConnectionsInv, KernelComesLast

\* A console connects, sends its process and reports a result.
LEMMA Console_Inv ==
  ASSUME ConnectionsInv, NEW c \in Consoles, Console(c)
  PROVE  ConnectionsInv'
  <1>1. ConnectionsTypeOK
    BY DEF ConnectionsInv
  <1>2. /\ UNCHANGED <<start, memory_port, memory_client, descriptor, client_socket, to_console,
                       killed>>
        /\ \E s \in {"NEW_PROCESS", "exited", "result"} : main' = [main EXCEPT ![c] = s]
    BY DEF Console, Console_ConnectTo, Console_Send, Console_Result, GoTo
  <1>3. /\ main' \in [Programs \cup Consoles -> Places]
        /\ \A p \in (Programs \cup Consoles) \ {c} : main'[p] = main[p]
    BY <1>1, <1>2 DEF ConnectionsTypeOK, Places
  <1>4. start = "staggered" => KernelComesLast'
    <2>1. \A p \in Programs : main'[p] = main[p]
      BY <1>3, ConsolesAssumption
    <2>. QED BY <1>2, <2>1, StartAside
  <1>5. CASE Console_ConnectTo(c)
    <2>1. /\ kernel_port' \in {kernel_port, Append(kernel_port, c)} /\ UNCHANGED <<stage, result>>
          /\ main[c] = "connect_to"
      BY <1>5 DEF Console_ConnectTo
    <2>2. ConnectionsTypeOK'
      <3>0. kernel_port \in Seq(Consoles)
        BY <1>1 DEF ConnectionsTypeOK
      <3>1. kernel_port' \in Seq(Consoles)
        BY <2>1, <3>0
      <3>. QED BY <1>1, <1>2, <1>3, <2>1, <3>1 DEF ConnectionsTypeOK
    <2>3. stage[c] = "none"
      BY <2>1 DEF ConnectionsInv, NothingSent
    <2>4. NothingSent'
      BY <1>3, <2>1, <2>3 DEF ConnectionsInv, NothingSent
    <2>5. Undisturbed => ConsoleWaits' /\ AnswersAreTrue'
      BY <1>2, <1>3, <2>1, <2>3 DEF ConnectionsInv, Undisturbed, ConsoleWaits, InKernel,
         AnswersAreTrue
    <2>6. ResultsAreTrue'
      BY <1>2, <2>1 DEF ConnectionsInv, ResultsAreTrue
    <2>. QED BY <1>2, <1>4, <2>2, <2>4, <2>5, <2>6 DEF ConnectionsInv, Undisturbed
  <1>6. CASE Console_Send(c)
    <2>1. /\ stage' = [stage EXCEPT ![c] = "sent"] /\ UNCHANGED <<kernel_port, result>>
          /\ main[c] = "NEW_PROCESS" /\ main' = [main EXCEPT ![c] = "result"]
      BY <1>6 DEF Console_Send, GoTo
    <2>2. /\ stage' \in [Consoles -> Stages] /\ stage'[c] = "sent" /\ main'[c] = "result"
          /\ \A d \in Consoles \ {c} : stage'[d] = stage[d]
      BY <1>1, <2>1 DEF ConnectionsTypeOK, Stages
    <2>3. ConnectionsTypeOK'
      BY <1>1, <1>2, <1>3, <2>1, <2>2 DEF ConnectionsTypeOK
    <2>4. stage[c] = "none"
      BY <2>1 DEF ConnectionsInv, NothingSent
    <2>5. NothingSent'
      BY <1>3, <2>2 DEF ConnectionsInv, NothingSent
    <2>6. ASSUME Undisturbed PROVE ConsoleWaits' /\ AnswersAreTrue'
      <3>1. ConsoleWaits'
        BY <1>2, <1>3, <2>2, <2>6 DEF ConnectionsInv, ConsoleWaits, InKernel
      <3>2. AnswersAreTrue'
        BY <1>2, <2>2, <2>4, <2>6 DEF ConnectionsInv, AnswersAreTrue
      <3>. QED BY <3>1, <3>2
    <2>7. ResultsAreTrue'
      BY <1>2, <2>1, <2>2, <2>4 DEF ConnectionsInv, ResultsAreTrue
    <2>. QED BY <1>2, <1>4, <2>3, <2>5, <2>6, <2>7 DEF ConnectionsInv, Undisturbed
  <1>7. CASE Console_Result(c)
    <2>1. /\ main[c] = "result" /\ main' = [main EXCEPT ![c] = "exited"]
          /\ UNCHANGED <<kernel_port, stage>>
          /\ \/ to_console[c] # <<>> /\ result' = [result EXCEPT ![c] = Head(to_console[c])]
             \/ /\ main["kernel"] = "crashed"
                /\ \E r \in {c, Nobody} : result' = [result EXCEPT ![c] = r]
      BY <1>7 DEF Console_Result, GoTo
    <2>2. ConnectionsTypeOK'
      <3>1. to_console[c] # <<>> => Head(to_console[c]) \in Consoles
        BY <1>1 DEF ConnectionsTypeOK
      <3>2. \E r \in Consoles \cup {Nobody} : result' = [result EXCEPT ![c] = r]
        BY <2>1, <3>1
      <3>3. result' \in [Consoles -> Consoles \cup {Nobody}]
        BY <1>1, <3>2 DEF ConnectionsTypeOK
      <3>. QED BY <1>1, <1>2, <1>3, <2>1, <3>3 DEF ConnectionsTypeOK
    <2>3. NothingSent'
      <3>1. main'[c] = "exited"
        BY <1>1, <2>1 DEF ConnectionsTypeOK
      <3>. QED BY <1>3, <2>1, <3>1 DEF ConnectionsInv, NothingSent
    <2>4. ASSUME Undisturbed
          PROVE  /\ result' = [result EXCEPT ![c] = c] /\ stage[c] = "gone"
      <3>1. to_console[c] # <<>> /\ result' = [result EXCEPT ![c] = Head(to_console[c])]
        BY <2>1, <2>4 DEF ConnectionsInv, Undisturbed, KernelComesLast
      <3>2. 1 \in 1 .. Len(to_console[c]) /\ Head(to_console[c]) = to_console[c][1]
        BY <1>1, <3>1 DEF ConnectionsTypeOK
      <3>. QED BY <2>4, <3>1, <3>2 DEF ConnectionsInv, AnswersAreTrue
    <2>5. ASSUME Undisturbed PROVE ConsoleWaits' /\ AnswersAreTrue'
      <3>1. ConsoleWaits'
        BY <1>2, <1>3, <2>1, <2>4, <2>5 DEF ConnectionsInv, ConsoleWaits, InKernel
      <3>2. AnswersAreTrue'
        BY <1>2, <2>1, <2>5 DEF ConnectionsInv, AnswersAreTrue
      <3>. QED BY <3>1, <3>2
    <2>6. ResultsAreTrue'
      BY <1>1, <1>2, <2>1, <2>4 DEF ConnectionsInv, ConnectionsTypeOK, ResultsAreTrue, Undisturbed
    <2>. QED BY <1>2, <1>4, <2>2, <2>3, <2>5, <2>6 DEF ConnectionsInv, Undisturbed
  <1>. QED BY <1>5, <1>6, <1>7 DEF Console

\* A console is killed: the rest is only promised without that.
LEMMA Console_Killed_Inv ==
  ASSUME ConnectionsInv, NEW c \in Consoles, Console_Killed(c)
  PROVE  ConnectionsInv'
  <1>1. /\ UNCHANGED <<start, memory_port, memory_client, kernel_port, descriptor, stage,
                       client_socket, to_console, result>>
        /\ main' = [main EXCEPT ![c] = "killed"] /\ killed' = killed \cup {c}
    BY DEF Console_Killed, GoTo
  <1>2. main \in [Programs \cup Consoles -> Places] /\ killed \in SUBSET Consoles
    BY DEF ConnectionsInv, ConnectionsTypeOK
  <1>3. /\ main' \in [Programs \cup Consoles -> Places] /\ main'[c] = "killed"
        /\ \A p \in (Programs \cup Consoles) \ {c} : main'[p] = main[p]
    BY <1>1, <1>2 DEF Places
  <1>4. ConnectionsTypeOK'
    BY <1>1, <1>2, <1>3 DEF ConnectionsInv, ConnectionsTypeOK
  <1>5. start = "staggered" => KernelComesLast'
    <2>1. \A p \in Programs : main'[p] = main[p]
      BY <1>3, ConsolesAssumption
    <2>. QED BY <1>1, <2>1, StartAside
  <1>6. NothingSent'
    BY <1>1, <1>3 DEF ConnectionsInv, NothingSent
  <1>7. killed' # {}
    BY <1>1
  <1>. QED BY <1>1, <1>4, <1>5, <1>6, <1>7 DEF ConnectionsInv, Undisturbed, ResultsAreTrue

\* The kernel accepts a console at a free number, and closes the number of one that is
\* gone: neither is the number of a process in the kernel.
LEMMA Descriptors_Inv ==
  ASSUME ConnectionsInv, Kernel_Accept \/ \E n \in Descriptors : Kernel_Close(n)
  PROVE  ConnectionsInv'
  <1>1. UNCHANGED <<startVars, stage, client_socket, to_console, result, killed>>
    BY DEF Kernel_Accept, Kernel_Close
  <1>2. PICK n \in Descriptors, d \in Consoles \cup {Nobody} :
          /\ descriptor' = [descriptor EXCEPT ![n] = d]
          /\ descriptor[n] = Nobody \/ (descriptor[n] # Nobody /\ main[descriptor[n]] \in Dead)
          /\ kernel_port' \in {kernel_port, Tail(kernel_port)}
          /\ kernel_port # <<>> \/ kernel_port' = kernel_port
    <2>1. CASE Kernel_Accept
      <3>1. kernel_port # <<>> /\ kernel_port \in Seq(Consoles) /\ kernel_port' = Tail(kernel_port)
        BY <2>1 DEF Kernel_Accept, ConnectionsInv, ConnectionsTypeOK
      <3>2. Head(kernel_port) \in Consoles
        BY <3>1
      <3>. QED BY <2>1, <3>1, <3>2 DEF Kernel_Accept
    <2>2. CASE \E m \in Descriptors : Kernel_Close(m)
      BY <2>2 DEF Kernel_Close
    <2>. QED BY <2>1, <2>2
  <1>3. ConnectionsTypeOK
    BY DEF ConnectionsInv
  <1>4. ConnectionsTypeOK'
    <2>1. kernel_port \in Seq(Consoles)
      BY <1>3 DEF ConnectionsTypeOK
    <2>2. kernel_port' \in Seq(Consoles)
      BY <1>2, <2>1
    <2>3. descriptor' \in [Descriptors -> Consoles \cup {Nobody}]
      BY <1>2, <1>3 DEF ConnectionsTypeOK
    <2>. QED BY <1>1, <1>3, <2>2, <2>3 DEF ConnectionsTypeOK, startVars
  <1>5. KernelComesLast' <=> KernelComesLast
    BY <1>1 DEF KernelComesLast, startVars
  <1>6. ASSUME Undisturbed PROVE ConsoleWaits'
    <2>1. ConsoleWaits
      BY <1>6 DEF ConnectionsInv
    <2>2. \A c \in Consoles : InKernel(c) => client_socket[c] # n
      BY <1>2, <2>1, Names DEF ConsoleWaits, Dead
    <2>3. \A m \in Descriptors \ {n} : descriptor'[m] = descriptor[m]
      BY <1>2, <1>3 DEF ConnectionsTypeOK
    <2>4. \A c \in Consoles : InKernel(c) =>
            client_socket[c] \in Descriptors /\ descriptor'[client_socket[c]] = c
      BY <2>1, <2>2, <2>3 DEF ConsoleWaits
    <2>. QED BY <1>1, <2>1, <2>4 DEF ConsoleWaits, InKernel, startVars
  <1>7. NothingSent' /\ ResultsAreTrue' /\ (Undisturbed => AnswersAreTrue')
    BY <1>1 DEF ConnectionsInv, NothingSent, ResultsAreTrue, AnswersAreTrue, startVars
  <1>8. Undisturbed' <=> Undisturbed
    BY <1>1 DEF Undisturbed, startVars
  <1>. QED BY <1>1, <1>4, <1>5, <1>6, <1>7, <1>8 DEF ConnectionsInv, startVars

\* The thread of a descriptor reads a process: the pcb keeps its number.
LEMMA ReceiveProcess_Inv ==
  ASSUME ConnectionsInv, NEW n \in Descriptors, Kernel_ReceiveProcess(n)
  PROVE  ConnectionsInv'
  <1>1. UNCHANGED <<startVars, kernel_port, descriptor, to_console, result, killed>>
    BY DEF Kernel_ReceiveProcess
  <1>2. ConnectionsTypeOK
    BY DEF ConnectionsInv
  <1>3. PICK c \in Consoles :
          /\ descriptor[n] = c /\ stage[c] = "sent" /\ stage' = [stage EXCEPT ![c] = "new"]
          /\ client_socket' = [client_socket EXCEPT ![c] = n]
    BY <1>2 DEF Kernel_ReceiveProcess, ConnectionsTypeOK
  <1>4. /\ stage' \in [Consoles -> Stages] /\ client_socket' \in [Consoles -> Descriptors \cup {0}]
        /\ stage'[c] = "new" /\ client_socket'[c] = n
        /\ \A d \in Consoles \ {c} : stage'[d] = stage[d] /\ client_socket'[d] = client_socket[d]
    BY <1>2, <1>3 DEF ConnectionsTypeOK, Stages
  <1>5. ConnectionsTypeOK'
    BY <1>1, <1>2, <1>4 DEF ConnectionsTypeOK, startVars
  <1>6. KernelComesLast' <=> KernelComesLast
    BY <1>1 DEF KernelComesLast, startVars
  <1>7. NothingSent'
    BY <1>1, <1>3, <1>4 DEF ConnectionsInv, NothingSent, startVars
  <1>8. Undisturbed => ConsoleWaits'
    BY <1>1, <1>3, <1>4 DEF ConnectionsInv, ConsoleWaits, InKernel, startVars
  <1>9. Undisturbed => AnswersAreTrue'
    BY <1>1, <1>3, <1>4 DEF ConnectionsInv, AnswersAreTrue
  <1>10. ResultsAreTrue'
    BY <1>1, <1>3, <1>4 DEF ConnectionsInv, ResultsAreTrue, startVars
  <1>11. Undisturbed' <=> Undisturbed
    BY <1>1 DEF Undisturbed, startVars
  <1>. QED BY <1>1, <1>5, <1>6, <1>7, <1>8, <1>9, <1>10, <1>11 DEF ConnectionsInv, startVars

\* A process goes its way through the kernel and ends.
LEMMA Process_Inv ==
  ASSUME ConnectionsInv, NEW c \in Consoles, Process(c)
  PROVE  ConnectionsInv'
  <1>1. /\ UNCHANGED <<start, main, memory_port, memory_client, kernel_port, descriptor,
                       client_socket, result, killed>>
        /\ InKernel(c)
    BY DEF Process, NewToReady, ProcessNew, Execute, ExitProcessSuccess, InKernel, startVars
  <1>2. ConnectionsTypeOK
    BY DEF ConnectionsInv
  <1>3. PICK s \in {"memory_init", "ready", "exit", "gone"} :
          /\ stage' = [stage EXCEPT ![c] = s]
          /\ s # "gone" => to_console' = to_console
          /\ s = "gone" => LET d == descriptor[client_socket[c]] IN
               to_console' = IF d = Nobody THEN to_console
                             ELSE [to_console EXCEPT ![d] = Append(@, c)]
    BY DEF Process, NewToReady, ProcessNew, Execute, ExitProcessSuccess, startVars
  <1>4. /\ stage' \in [Consoles -> Stages] /\ stage'[c] = s
        /\ \A d \in Consoles \ {c} : stage'[d] = stage[d]
    BY <1>2, <1>3 DEF ConnectionsTypeOK, Stages
  <1>5. to_console' \in [Consoles -> Seq(Consoles)]
    <2>1. to_console \in [Consoles -> Seq(Consoles)]
      BY <1>2 DEF ConnectionsTypeOK
    <2>2. \A d \in Consoles : Append(to_console[d], c) \in Seq(Consoles)
      BY <2>1
    <2>3. to_console' = to_console \/ \E d :
            to_console' = [to_console EXCEPT ![d] = Append(@, c)]
      BY <1>3
    <2>. QED BY <2>1, <2>2, <2>3
  <1>6. ConnectionsTypeOK'
    BY <1>1, <1>2, <1>4, <1>5 DEF ConnectionsTypeOK
  <1>7. KernelComesLast' <=> KernelComesLast
    BY <1>1 DEF KernelComesLast
  <1>8. NothingSent'
    BY <1>1, <1>4 DEF ConnectionsInv, NothingSent, InKernel
  <1>9. Undisturbed => ConsoleWaits'
    BY <1>1, <1>3, <1>4 DEF ConnectionsInv, ConsoleWaits, InKernel
  <1>10. ASSUME Undisturbed PROVE AnswersAreTrue'
    <2>1. descriptor[client_socket[c]] = c /\ AnswersAreTrue
      BY <1>1, <1>10 DEF ConnectionsInv, ConsoleWaits
    <2>2. to_console \in [Consoles -> Seq(Consoles)]
      BY <1>2 DEF ConnectionsTypeOK
    <2>3. to_console[c] = <<>>
      <3>1. Len(to_console[c]) = 0
        BY <1>1, <2>1, <2>2 DEF AnswersAreTrue, InKernel
      <3>. QED BY <2>2, <3>1
    <2>4. CASE s # "gone"
      BY <1>3, <1>4, <2>1, <2>3, <2>4 DEF AnswersAreTrue
    <2>5. CASE s = "gone"
      <3>1. to_console' = [to_console EXCEPT ![c] = Append(to_console[c], c)]
        BY <1>3, <2>1, <2>5, Names
      <3>2. to_console'[c] = <<c>> /\ \A d \in Consoles \ {c} : to_console'[d] = to_console[d]
        BY <2>2, <2>3, <3>1
      <3>. QED BY <1>4, <2>1, <2>5, <3>2 DEF AnswersAreTrue
    <2>. QED BY <2>4, <2>5
  <1>11. ResultsAreTrue'
    BY <1>1, <1>4 DEF ConnectionsInv, ResultsAreTrue, InKernel
  <1>12. Undisturbed' <=> Undisturbed
    BY <1>1 DEF Undisturbed
  <1>. QED BY <1>1, <1>6, <1>7, <1>8, <1>9, <1>10, <1>11, <1>12 DEF ConnectionsInv

\* The programs are off.
LEMMA ConnectionsInitially == ConnectionsInit => ConnectionsInv
  <1> SUFFICES ASSUME ConnectionsInit PROVE ConnectionsInv
    OBVIOUS
  <1>1. ConnectionsTypeOK
    BY DEF ConnectionsInit, ConnectionsTypeOK, Places, Stages
  <1>2. /\ \A p \in Programs \cup Consoles : main[p] = "off"
        /\ \A c \in Consoles : stage[c] = "none" /\ to_console[c] = <<>> /\ result[c] = Nobody
        /\ memory_client = Nobody /\ memory_port = <<>>
    BY DEF ConnectionsInit
  <1>3. KernelComesLast
    BY <1>2, Names DEF KernelComesLast
  <1>4. NothingSent /\ ConsoleWaits /\ AnswersAreTrue /\ ResultsAreTrue
    BY <1>2 DEF NothingSent, ConsoleWaits, InKernel, AnswersAreTrue, ResultsAreTrue
  <1>. QED BY <1>1, <1>3, <1>4 DEF ConnectionsInv

\* Every step preserves the invariant.
LEMMA ConnectionsInductive ==
  ConnectionsInv /\ [ConnectionsNext]_connectionsVars => ConnectionsInv'
  <1> SUFFICES ASSUME ConnectionsInv, [ConnectionsNext]_connectionsVars PROVE ConnectionsInv'
    OBVIOUS
  <1>1. CASE UNCHANGED connectionsVars
    <2>1. ConnectionsTypeOK' /\ (start = "staggered" => KernelComesLast')
      BY <1>1 DEF ConnectionsInv, ConnectionsTypeOK, KernelComesLast, connectionsVars, startVars,
         consoleVars
    <2>. QED BY <1>1, <2>1, ConsolesAside DEF connectionsVars, startVars
  <1>2. CASE \E p \in Programs \cup Consoles : Start(p)
    BY <1>2, Start_Inv
  <1>3. CASE MemoryMain \/ CpuMain
    BY <1>3, MemoryMain_Inv, CpuMain_Inv
  <1>4. CASE KernelMain
    BY <1>4, KernelStart_Inv, Descriptors_Inv DEF KernelMain
  <1>5. CASE \E c \in Consoles : Console(c) \/ Process(c) \/ Console_Killed(c)
    BY <1>5, Console_Inv, Process_Inv, Console_Killed_Inv
  <1>6. CASE \E n \in Descriptors : KernelThread(n)
    BY <1>6, ReceiveProcess_Inv, Descriptors_Inv DEF KernelThread
  <1>. QED BY <1>1, <1>2, <1>3, <1>4, <1>5, <1>6 DEF ConnectionsNext, Rest

-----------------------------------------------------------------------------
(* Theorem. *)

\* Started one after another and with no console killed, the programs never make a
\* console report the end of a process other than its own, or before that end: for
\* any number of consoles, whatever descriptors are closed and given again.
THEOREM ResultsCorrect == ConnectionsSpec => []ResultsAreTrue
  <1>1. ConnectionsInv => ResultsAreTrue
    BY DEF ConnectionsInv
  <1>. QED BY <1>1, ConnectionsInitially, ConnectionsInductive, PTL DEF ConnectionsSpec


=============================================================================
