------------------------------- MODULE MCWire -------------------------------
(***************************************************************************)
(* The connections of the system, with small packets.  Headers are those   *)
(* of shared/include/socket_headers.h.                                     *)
(***************************************************************************)
EXTENDS Wire

Instruction(name, parameters) == [id |-> name, params |-> parameters]

\* An instruction without parameters, and one with a number of two bytes.
Code == <<Instruction(<<73, 79>>, <<300, 1>>), Instruction(<<69>>, <<>>)>>

Pcb(instr) ==
    [pid |-> 1, size |-> 2, client_socket |-> 3, instructions |-> instr,
     program_counter |-> 4, page_table |-> 5, process_frames_index |-> 6,
     burst_estimation |-> 7, left_burst_estimation |-> 8,
     blocked_time |-> 9, pending_io_time |-> 10]

Numbers(h, ns) == [header |-> h, type |-> "numbers", body |-> ns]

\* Each with one sender: a console to the kernel (NEW_PROCESS), the kernel to the
\* CPU (PCB_TO_CPU), the memory server to the kernel (PROCESS_MEMORY_READY,
\* PROCESS_EXIT_READY and PROCESS_SUSPENSION_READY, which is empty).
Links ==
    [console |-> [main |-> {[header |-> 0, type |-> "process",
                             body |-> [size |-> 256, instructions |-> Code]]}],
     dispatch |-> [to_exec |-> {[header |-> 0, type |-> "pcb", body |-> Pcb(<<>>)],
                                [header |-> 0, type |-> "pcb", body |-> Pcb(Code)]}],
     memory |-> [packet_handler |-> {Numbers(5, <<1, 0, 2>>), Numbers(6, <<1>>),
                                     Numbers(7, <<>>)}]]

\* The kernel to the memory server: PROCESS_NEW, PROCESS_SUSPEND and PROCESS_EXIT
\* are sent by three threads.
SharedLink ==
    [memory |-> [to_ready |-> {Numbers(0, <<3, 25>>)},
                 io_listener |-> {Numbers(6, <<1, 0, 0>>)},
                 exit_process |-> {Numbers(7, <<2, 1, 1>>)}]]
=============================================================================
