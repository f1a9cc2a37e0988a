------------------------------- MODULE Memory -------------------------------
(***************************************************************************)
(* The memory server as the kernel uses it (memory/src/memory.c,           *)
(* page_table.c, utils.c, swap.c): the page tables, the frames and the     *)
(* swap file of a process are made, suspended and destroyed on request,    *)
(* one request at a time.                                                  *)
(***************************************************************************)
EXTENDS Sockets

CONSTANTS FramesInMemory, FramesPerProcess, PageSize, EntriesPerTable

ASSUME FramesInMemoryAssumption == FramesInMemory \in Nat
ASSUME FramesPerProcessAssumption == FramesPerProcess \in Nat
ASSUME PageSizeAssumption == PageSize \in Nat \ {0}
ASSUME EntriesPerTableAssumption == EntriesPerTable \in Nat \ {0}

Frames == 0 .. FramesInMemory - 1

VARIABLES
    level1_tables,     \* for every process so far, how many second-level tables it has
    processes_frames,  \* for every process so far, the frames it holds
    frames_bitmap,     \* the frames marked as assigned
    swap_files,        \* the pids with a swap file
    memory_crashed     \* the server died of SIGSEGV

memoryVars == <<level1_tables, processes_frames, frames_bitmap, swap_files, memory_crashed>>

MemoryTypeOK ==
    /\ level1_tables \in Seq(Nat)
    /\ processes_frames \in Seq(SUBSET Frames)
    /\ frames_bitmap \subseteq Frames
    /\ swap_files \subseteq Nat
    /\ memory_crashed \in BOOLEAN

MemoryInit ==
    /\ level1_tables = <<>>
    /\ processes_frames = <<>>
    /\ frames_bitmap = {}
    /\ swap_files = {}
    /\ memory_crashed = FALSE

-----------------------------------------------------------------------------

CeilDiv(a, b) == (a \div b) + (IF a % b # 0 THEN 1 ELSE 0)

\* The second-level tables of a process of that size; a last page that is not
\* full is not counted.
TablesRequired(size) == CeilDiv(size \div PageSize, EntriesPerTable)

\* The first FramesPerProcess frames that are not assigned, or as many as there are.
FirstUnassigned(bitmap) ==
    {f \in Frames \ bitmap :
        Cardinality({g \in Frames \ bitmap : g < f}) < FramesPerProcess}

\* The new table's index, counted from 0, is the length of the list before.
PageTableInit(size) == level1_tables' = Append(level1_tables, TablesRequired(size))

\* A fixed allocation.  When frames run out the process gets fewer, silently.
AssignProcessFrames ==
    LET mine == FirstUnassigned(frames_bitmap) IN
      /\ processes_frames' = Append(processes_frames, mine)
      /\ frames_bitmap' = frames_bitmap \cup mine

\* Two plausible bugs: the process keeps pointing at the frames it gave back; it
\* does not give them back.
UnassignProcessFrames_KeepsEntries(index) ==
    /\ frames_bitmap' = frames_bitmap \ processes_frames[index + 1]
    /\ UNCHANGED processes_frames

UnassignProcessFrames_KeepsFrames(index) == UNCHANGED <<frames_bitmap, processes_frames>>

UnassignProcessFrames(index) ==
    /\ frames_bitmap' = frames_bitmap \ processes_frames[index + 1]
    /\ processes_frames' = [processes_frames EXCEPT ![index + 1] = {}]

CreateSwap(n) == swap_files' = swap_files \cup {n}

DeleteSwap(n) == swap_files' = swap_files \ {n}

\* The server is up and its oldest request has header h.
Requested(h) ==
    ~memory_crashed /\ memory_requests # <<>> /\ Head(memory_requests).header = h

Reply(m) ==
    /\ memory_answers' = Append(memory_answers, m)
    /\ memory_requests' = Tail(memory_requests)

ProcessNew ==
    /\ Requested("PROCESS_NEW")
    /\ LET m == Head(memory_requests) IN
         /\ PageTableInit(m.size)
         /\ AssignProcessFrames
         /\ CreateSwap(m.pid)
         /\ Reply([header |-> "PROCESS_MEMORY_READY", pid |-> m.pid,
                   page_table |-> Len(level1_tables),
                   process_frames_index |-> Len(processes_frames)])
    /\ UNCHANGED <<memory_crashed, dispatch, interrupts, returns>>

\* Without second-level tables the loops do nothing: the frames, which are freed
\* inside them, stay assigned.
ProcessSuspend ==
    /\ Requested("PROCESS_SUSPEND")
    /\ level1_tables[Head(memory_requests).page_table + 1] = 0
    /\ Reply([header |-> "PROCESS_SUSPENSION_READY"])
    /\ UNCHANGED <<memoryVars, dispatch, interrupts, returns>>

\* With one, its index, stored as the list element itself, is read as an address.
ProcessSuspend_Crash ==
    /\ Requested("PROCESS_SUSPEND")
    /\ level1_tables[Head(memory_requests).page_table + 1] > 0
    /\ memory_crashed' = TRUE
    /\ UNCHANGED <<level1_tables, processes_frames, frames_bitmap, swap_files, socketVars>>

ProcessExit ==
    /\ Requested("PROCESS_EXIT")
    /\ LET m == Head(memory_requests) IN
         /\ UnassignProcessFrames(m.process_frames_index)
         /\ DeleteSwap(m.pid)
         /\ Reply([header |-> "PROCESS_EXIT_READY", pid |-> m.pid])
    /\ UNCHANGED <<level1_tables, memory_crashed, dispatch, interrupts, returns>>

MemoryServer == ProcessNew \/ ProcessSuspend \/ ProcessSuspend_Crash \/ ProcessExit

=============================================================================
