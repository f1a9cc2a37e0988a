--------------------------- MODULE Serialization ---------------------------
(***************************************************************************)
(* What the programs send each other, as bytes (shared/src/serialization.c,*)
(* pcb_utils.c and process_utils.c).                                       *)
(*                                                                         *)
(* Adding an item to a stream buffer is given by the bytes it adds.        *)
(* Taking one is given by the item found at an offset of the stream, and   *)
(* by the offset after it, where the next one is taken.                    *)
(***************************************************************************)
EXTENDS Integers, Sequences, SequencesExt

INITIAL_STREAM_SIZE == 64

\* A uint32_t in memory order.  A negative int is sent as the uint32_t it converts to.
Uint32(n) == <<n % 256, (n \div 256) % 256, (n \div 65536) % 256, n \div 16777216>>

\* What four bytes hold.
Uint32s == {n \in Nat : n \div 16777216 < 256}

ValueOf(b) == b[1] + 256 * b[2] + 65536 * b[3] + 16777216 * b[4]

\* t_instruction, t_process and t_pcb, as far as they are sent: no character of a
\* string is its terminating zero.
Instructions == [id : Seq(1 .. 255), params : Seq(Uint32s)]
Processes == [size : Uint32s, instructions : Seq(Instructions)]
Pcbs ==
    [pid : Uint32s, size : Uint32s, client_socket : Uint32s, instructions : Seq(Instructions),
     program_counter : Uint32s, page_table : Uint32s, process_frames_index : Uint32s,
     burst_estimation : Uint32s, left_burst_estimation : Uint32s,
     blocked_time : Uint32s, pending_io_time : Uint32s]

-----------------------------------------------------------------------------
(* Adding. *)

\* A plausible bug: the block is not made larger.
StreamAdd_NoGrow(bytes) ==
    [stream |-> bytes, offset |-> Len(bytes), malloc_size |-> INITIAL_STREAM_SIZE]

\* The buffer that create_stream made, after these bytes were added: its block
\* grew by INITIAL_STREAM_SIZE as often as they needed.
StreamAdd(bytes) ==
    LET blocks == (Len(bytes) + INITIAL_STREAM_SIZE - 1) \div INITIAL_STREAM_SIZE IN
    [stream |-> bytes,
     offset |-> Len(bytes),
     malloc_size |-> INITIAL_STREAM_SIZE * (IF blocks = 0 THEN 1 ELSE blocks)]

StreamAddUint32(n) == Uint32(n)

\* Its length, the terminating zero included, and the characters with it.
StreamAddString(string) == Uint32(Len(string) + 1) \o Append(string, 0)

\* A list is given by the bytes of its elements.
StreamAddList(elems) == Uint32(Len(elems)) \o FlattenSeq(elems)

StreamAddInstruction(instruction) ==
    StreamAddString(instruction.id)
    \o StreamAddList([i \in DOMAIN instruction.params |-> StreamAddUint32(instruction.params[i])])

StreamAddInstructions(list) ==
    StreamAddList([i \in DOMAIN list |-> StreamAddInstruction(list[i])])

StreamAddProcess(process) ==
    Uint32(process.size) \o StreamAddInstructions(process.instructions)

StreamAddPcb(pcb) ==
    Uint32(pcb.pid) \o Uint32(pcb.size) \o Uint32(pcb.client_socket)
    \o StreamAddInstructions(pcb.instructions)
    \o Uint32(pcb.program_counter) \o Uint32(pcb.page_table)
    \o Uint32(pcb.process_frames_index) \o Uint32(pcb.burst_estimation)
    \o Uint32(pcb.left_burst_estimation) \o Uint32(pcb.blocked_time)
    \o Uint32(pcb.pending_io_time)

-----------------------------------------------------------------------------
(* Taking. *)

StreamTakeUint32(s, at) == ValueOf(SubSeq(s, at + 1, at + 4))
AfterUint32(s, at) == at + 4

\* The copy is used as a C string: it ends at its first zero.
StreamTakeString(s, at) ==
    LET copy == SubSeq(s, at + 5, at + 4 + StreamTakeUint32(s, at))
        zero == CHOOSE i \in DOMAIN copy : copy[i] = 0 /\ \A j \in 1 .. i - 1 : copy[j] # 0
    IN  SubSeq(copy, 1, zero - 1)
AfterString(s, at) == at + 4 + StreamTakeUint32(s, at)

\* elem[o] is the element found at offset o, and after[o] the offset after it.  The
\* offsets of a list are those after none of its elements to all of them.
ListOffsets(s, at, after) ==
    LET offset[i \in 0 .. StreamTakeUint32(s, at)] ==
            IF i = 0 THEN at + 4 ELSE after[offset[i - 1]]
    IN  offset

StreamTakeList(s, at, elem, after) ==
    LET offset == ListOffsets(s, at, after) IN
    [i \in 1 .. StreamTakeUint32(s, at) |-> elem[offset[i - 1]]]
AfterList(s, at, after) == ListOffsets(s, at, after)[StreamTakeUint32(s, at)]

StreamTakeInstruction(s, at) ==
    [id |-> StreamTakeString(s, at),
     params |-> StreamTakeList(s, AfterString(s, at), [o \in Nat |-> StreamTakeUint32(s, o)],
                               [o \in Nat |-> AfterUint32(s, o)])]
AfterInstruction(s, at) == AfterList(s, AfterString(s, at), [o \in Nat |-> AfterUint32(s, o)])

StreamTakeInstructions(s, at) ==
    StreamTakeList(s, at, [o \in Nat |-> StreamTakeInstruction(s, o)],
                   [o \in Nat |-> AfterInstruction(s, o)])
AfterInstructions(s, at) == AfterList(s, at, [o \in Nat |-> AfterInstruction(s, o)])

StreamTakeProcess(s, at) ==
    [size |-> StreamTakeUint32(s, at), instructions |-> StreamTakeInstructions(s, at + 4)]
AfterProcess(s, at) == AfterInstructions(s, at + 4)

\* A plausible bug: the two estimates in the wrong order.
StreamTakePcb_Swapped(s, at) ==
    LET after == AfterInstructions(s, at + 12)
        Number(i) == StreamTakeUint32(s, after + 4 * i)
    IN  [pid |-> StreamTakeUint32(s, at),
         size |-> StreamTakeUint32(s, at + 4),
         client_socket |-> StreamTakeUint32(s, at + 8),
         instructions |-> StreamTakeInstructions(s, at + 12),
         program_counter |-> Number(0), page_table |-> Number(1),
         process_frames_index |-> Number(2),
         left_burst_estimation |-> Number(3), burst_estimation |-> Number(4),
         blocked_time |-> Number(5), pending_io_time |-> Number(6)]

StreamTakePcb(s, at) ==
    LET after == AfterInstructions(s, at + 12)
        Number(i) == StreamTakeUint32(s, after + 4 * i)
    IN  [pid |-> StreamTakeUint32(s, at),
         size |-> StreamTakeUint32(s, at + 4),
         client_socket |-> StreamTakeUint32(s, at + 8),
         instructions |-> StreamTakeInstructions(s, at + 12),
         program_counter |-> Number(0), page_table |-> Number(1),
         process_frames_index |-> Number(2),
         burst_estimation |-> Number(3), left_burst_estimation |-> Number(4),
         blocked_time |-> Number(5), pending_io_time |-> Number(6)]
AfterPcb(s, at) == AfterInstructions(s, at + 12) + 28

\* The numbers a handler takes one after another until the stream ends.
StreamTakeNumbers(s) == [i \in 1 .. Len(s) \div 4 |-> StreamTakeUint32(s, 4 * (i - 1))]

=============================================================================
