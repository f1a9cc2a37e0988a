# A TLA+ model of the kernel / CPU / memory simulator

The repository is a small distributed operating system made of four programs:
consoles send processes to a **kernel**, which schedules them on a **CPU** server
and keeps their memory in a **memory** server. This directory models the servers,
the consoles, the bytes and connections between them and the arithmetic of time and
of page replacement, model-checks them with TLC and proves the safety that is checked
with TLAPS, for every value of the constants.

## The system

| Part | State | Operations | Hard part |
|---|---|---|---|
| kernel, schedulers (`kernel/src/kernel.c`) | eight queues, nine semaphores, `execution_mutex`, `pid` | threads `to_ready`, `to_exec`, `io_listener`, `exit_process` | permits taken in one thread and given back in another; a mutex held across a wait |
| kernel, handlers | the same | `receive_process`, `io_op`, `exit_op`, `handle_interruption`, `table_index_success`, `suspension_success`, `exit_process_success` | they run in three listener threads, against the schedulers |
| CPU (`cpu/src/cpu.c`) | one global `pcb`, `pcb_loaded`, `cpu_bussy`, `new_interruption` | `receive_pcb`, `receive_interruption`, `cpu_cycle` | interruptions that race the return of the process |
| CPU, MMU | four waits for the memory server | `mmu`, `readMem`, `writeMem` | answers that nobody receives |
| CPU, TLB (`tlb.c`) | entries, victims | `clean_tlb` (the only one called) | - |
| memory server (`memory.c`, `page_table.c`, `utils.c`) | page tables, frames per process, bitmap | `process_new`, `process_suspend`, `process_exit` | frames by index over a long history; running out of them |
| memory server, table walk and replacement | present / used / modified bits, clock hand | `access_lvl*_table`, `get_frame_number`, `two_clock_turns` | CLOCK-M's turns, the hand's wrap-around |
| swap (`swap.c`) | one file per pid | `create_swap`, `delete_swap`, page read and write | contents after several replacements |
| shared: queues | a list and a mutex | `pQueue_*` | - |
| shared: packets, serialization | bytes of a packet, block of a stream | `socket_send_packet`, `socket_receive_packet`, `socket_retry_packet`, `stream_*` | fields in pieces, three unlocked sends per packet on a shared socket |
| times in the kernel | `blocked_time`, `pending_io_time`, two estimates, `toExecTime` | lines 140-178, 324, 545-552, 584-598 of `kernel.c` | `int` and `uint32_t`, a clock that wraps, waits longer than the maximum, `toExecTime` written after the process was sent |
| start-up | ports, connections, descriptors | `connect_to`, `create_server`, `server_listen`, `memory_handshake`, `cpu_handshake_listener` | who connects first; a refused connection that is not an error; descriptor numbers used again |
| console | - | parse a script, send it, wait for `PROCESS_OK` | being killed while its process lives |

What makes the system correct: no process is lost or duplicated; no more than
`GRADO_MULTIPROGRAMACION` are in memory and one in the CPU; the semaphores count
what they are meant to; every frame has at most one owner and no owner that has
left; SRT runs the shortest process; every console is answered in the end, by the
end of its own process; a packet arrives whole; an I/O takes as long as was asked and
blocks a process no longer than the maximum; a page is replaced only if no page
deserves it more.

How the programs meet: the kernel sends pcbs (`dispatch`) and interrupts
(`interrupts`) to the CPU on two connections and gets processes back on the first
(`returns`); it asks the memory server for the creation, suspension and
destruction of processes (`memory_requests`) and is answered on the same
connection (`memory_answers`). A listener thread per connection runs the handler
of each packet to its end before it reads the next.

## Modules

| Module | Models |
|---|---|
| `Sockets` | `t_pcb`, the packets and the five directions of the connections, as channels of whole packets |
| `Kernel` | `kernel.c`, its queues and its sorting |
| `Cpu` | `cpu.c` |
| `Memory` | `process_*` of `memory.c`, `page_table.c`, the frames of `utils.c`, swap files as a set |
| `System` | the three together, fairness, and their properties |
| `Lifecycle` | abstract: the seven-state diagram of a process |
| `Serialization` | `serialization.c`, `pcb_utils.c` and `process_utils.c`: what is added to a stream and taken from it, on bytes |
| `Wire` | one connection of `networking.c`: three sends per packet, partial sends and receives, retries, the death of the sender |
| `Channel` | abstract: a connection as `Sockets` uses it |
| `Connections` | the main functions up to where they serve, the CPU's handshake, the consoles' connections and descriptors |
| `Times` | the arithmetic of `io_listener`, `to_exec`, `io_op` and `handle_interruption`, and the kernel's threads as far as they decide when it is done |
| `Clock` | `replace_algorithm`, `two_clock_turns`, `increment_clock_hand` |
| `MCSystem`, `MCWire` + `*.cfg` | instances for TLC; `Connections`, `Times` and `Clock` are run directly |
| `SystemProofs` | proofs: types and semaphores of `System`; the CPU's permit, interrupts, SRT |
| `PlaceProofs` | proofs: no process lost or duplicated, the multiprogramming level |
| `LifecycleProofs` | proofs: the three programs implement `Lifecycle` |
| `FrameProofs` | proofs: the memory server's lists and frames, and who owns them |
| `WireProofs` | proofs: the round trip through `Serialization`, and the bytes of `Wire` implement `Channel` |
| `ClockProofs`, `ConnectionsProofs`, `TimesProofs` | proofs of `Clock`, `Connections`, `Times` |

`System` composes `Sockets`, `Kernel`, `Cpu` and `Memory`. The other modules take apart
what `System` takes for granted: `Wire` shows that a connection with one sender is the
`Channel` that `Sockets` assumes, `Times` where the choice between `IoListener_Fits` and
`IoListener_Exceeds` and the estimates come from, `Connections` how the connections and
the numbers in the pcbs come about.

### Correspondence

A kernel thread `t` is `at[t]`, what it does next, and `hand[t]`, the pcb in its
local variable. `at[t]` is named after the semaphore waited on, the packet to be
sent or the queue to be put in: `to_ready` goes through `any_for_ready`,
`sem_multiprogram`, `PROCESS_NEW`, `memory_init_q`, `pcb_table_ready`,
`put_to_ready`, `interrupt_ready`. `sem` and `queue` hold the semaphores and queues
under their C names. Handlers are single actions on the head of a connection.

A step runs from one of those points to the next. Joining a post to the put
before it, or a take to the wait that guards it, hides no behaviour: only one
thread waits on each semaphore and takes from each queue, so nobody can see the
state in between except through the very semaphore posted. Two places are kept
apart although the code makes them look like one, because another process
answers in between: sending `PROCESS_NEW` and putting in `memory_init_q` (lines 354,
358), and sending `PROCESS_EXIT` and putting in `memory_exit_q` (lines 295, 299).
`pid++; pcb->pid = pid` is a read, a write and a second read, which the compiler
may or may not make. `put_to_ready` takes `execution_mutex` and releases it in one
step, except where it waits for the CPU holding it. The three posts of
`handle_interruption` are one step: whoever is woken by the first still needs
`execution_mutex`, which the planner holds until the last.

In the CPU `cycle` is the cycle thread's position. The delay of an instruction
comes before its step, so that interrupts and pcbs arriving during it are there at
the check that follows. `Evict` and `EvictGone` are the same lines of code (219-230)
with a process in the CPU and without one: in the second case `pcb_to_kernel` sends
the old pcb and then blocks for good in `sem_wait(&cpu_bussy)` with
`mutex_has_interruption` held, which also stops `receive_interruption`.

`terminate_kernel(true)`, called where a handler does not find a pid, does nothing:
its `switch` only has a case for `SIGINT`. The memory server's
`level1_tables[i]` keeps only the number of second-level tables of a process, which is
what decides between the two outcomes of `process_suspend`.

In `Wire` a send appends as many bytes as the connection holds and a receive takes any
number of those that are there; `field` and `got` are the reader's position in
`socket_receive_packet`. A packet is complete, and goes to `sent`, with its last byte.
`tries` counts the receives that failed one after another: the first, and six by
`socket_retry_packet`. Each starts over with a header, as the code does.

In `Connections` `main[p]` is the position of a program's main function, named after the
call it is at. `connect_to` succeeds as soon as the other side has called
`create_server`; accepting is a step of its own. `cpu_handshake_listener` reads the bytes
of whoever connected first one at a time, so those of `PROCESS_NEW` are spelled out.
A process is reduced to the stages at which it needs a connection.

In `Times` the true time is `now` and the code sees `Signed(now)`; every subtraction is
done in the type the code does it in. `to_exec` is at `ready_for_exec`, `execution_mutex`
or `gettimeofday`: it sends the process (line 319) in one step and writes `toExecTime`
(line 324) in a later one, and the process may be back in between. `io_op` reads
`toExecTime` without the mutex; while `to_exec` is at `gettimeofday`, which fills in two
fields, it may find the old value, the new one or a field of each (`ToExecTimes`). `call[t]`
is where the call of `put_to_ready` by `to_ready` or `io_listener` stands: before
`execution_mutex`, or holding it and waiting for `interrupt_ready`. A suspended process
goes through `suspended_ready_q`, a permit and `to_ready`, and `to_ready` waits for the
tables of a new one. `memory` are the requests to the server with the time of each
answer. `since`, `asked`, `slept`, `ran` and `late` record what really happened. A step
that is due is taken before time passes. `Clock` keeps one bit of each kind per frame, and the
loop counters of the two functions.

### What is abstracted

* In `System`, time: whether an I/O fits in what is left of `TIEMPO_MAXIMO_BLOQUEADO`
  is a choice, a new burst estimate is any of `Estimates`, and after an interruption any
  that is not larger. `Times` has the numbers, leaves open which ready process is dispatched, and lets a
  burst end at any moment.
* Pcbs are known by their console; `pid` is data. Freed pcbs in `memory_exit_q` are
  kept as `Freed`, which matches no pid: what freed memory holds is the
  allocator's business.
* In `System` connections do not fail. In `Wire` the sender may die at any byte. A reader
  that dies is not modelled: nothing in the code handles it.
* In `Wire` the size of a payload fits in the `uint32_t` it is sent in
  (`SizesAssumption`), and a header says which of the three kinds of payload follows
  (`HeadersAssumption`), as in `socket_headers.h`.
* In `Times` only executing, sleeping and the memory server's delay take time: the steps
  between a send and its stamp take none, but others may come in between. The float of
  line 588 is a fraction in tenths, rounded down, and `usleep` is exact. A thread that waits
  on a semaphore posted after every put waits for the queue itself. The server always
  answers, and a process that the CPU would return twice (`EvictGone`) is not followed: the
  planner that sent its INTERRUPT waits for ever, as `srt_interrupt_unanswered` shows it may.
* What the programs do on SIGINT, logging and `mutex_log`, reading configurations.
* `get_op` returns `DEAD` for an unknown word, which indexes past `execute[]`; the
  scripts of the repository have none.

## Runs

Programs have an instruction or two: only the order of I/O, EXIT, a memory
access and anything else matters. Sizes are in bytes with pages of 10 and two entries
per table: 0 and 5 give no second-level table, 25 gives one.

| Run | Instance | Shows |
|---|---|---|
| `fifo` | 3 consoles, level 2, 4 frames, 2 per process, fairness | `TypeOK`, `SemaphoresMatchQueues`, `MultiprogramBound`, `CpuExclusive`, `OnePlace`, `FrameOwnership`, `MemoryMatchesProcesses`, `LifecycleSpec` (refinement), `EveryConsoleAnswered`, no deadlock |
| `srt_safety` | 3 consoles, level 2, two estimates, one paged process, one that writes, a memory server of any speed | `SemaphoresMatchQueues`, `InterruptsConserved`, `ShortestFirst` |
| `wire` | three kinds of connection (console, dispatch, memory), 2 packets, 16 bytes in flight | `ImplementsChannel` (refinement), `StreamsInBounds`, `DeadPeerNoticed` |
| `connections` | 2 consoles, both ways of starting | `StaggeredStartServes`, `ResultsAreTrue` |
| `times` | SRT, 2 processes, level 2, bursts of up to 2 ms, one I/O each of 0, 3 or 6 ms, a maximum of 4 ms, a memory delay of 2 ms, words of 128 values, the clock starting at 62 or 126 | `WakesInTime`, `BurstMeasured`, `IoTakesWhatWasAsked`, `EveryIoEnds` |
| `clock` | 4 frames of a process, in a memory of 4 and of 6 | `VictimIsBest`, `FindsVictim` |

Why the bounds are enough:

* `fifo`: level 2 with three consoles is the smallest instance in which one process waits
  for a permit, one is in the CPU and one in I/O or being suspended; two of them can
  be suspended at once, so that `blocked_q`, `suspended_block_q` and `suspended_ready_q`
  are used together, and admission, readmission and suspension compete for a permit.
  Four frames with two each are exactly enough for level 2, and a third process gets fewer
  when a suspended one kept its own.
* `srt_safety` lets everything happen that can go wrong in SRT, including the CPU
  blocked for good and the memory server dead, so it does not check for deadlock:
  its properties hold up to and after that point.
* `wire`: two packets show a boundary between packets; 16 bytes are fewer than a pcb, so
  sends are cut, and the largest pcb is more than one block of 64 bytes. Receives are
  cut at every byte. Strings, lists with no, one and two elements and numbers of one
  and two bytes occur.
* `connections`: two consoles are what one descriptor number needs to be used twice.
* `times`: few milliseconds and a small `Word`, so that the clock starts just before the
  place where `int` wraps, or before the one where `uint32_t` does. I/Os shorter and longer
  than the maximum, one at a time, make the second process wait for less or for more than
  the maximum. A process that becomes ready while the other executes evicts it, also in the
  middle of a burst that was evicted before; when the other leaves first, the planner waits
  for `interrupt_ready` for ever and so does whoever needs `execution_mutex`. I/Os then do
  not end, and `EveryIoEnds` says that this is the only reason; under FIFO no planner waits.
  With both processes suspended each needs the permit that its suspension gave back.
* `clock`: all 2^4 values of both kinds of bits, all positions of the hand.

Two constants select what the environment may do. `SlowMemory` says that the memory
server's delay (`RETARDO_MEMORIA`, 500 ms or more in every configuration under
`tests/` and `memory/cfg`) outlasts the few instructions between a send and the put
after it. `OverlapConsoles` says that two consoles may be received at the same
time; `console/runner.sh` sleeps a second between them. `fifo` assumes the
repository's own configuration (slow memory, no overlap), `srt_safety` only that consoles
do not overlap; which theorem needs which is said under "Proofs".

### Where the code differs from what it says

Each of these runs refutes one statement taken from a comment or a message of the
repository.

| Run | Statement | What happens |
|---|---|---|
| `srt_interrupt_unanswered` | "Se espera a que vuelva de CPU" (`kernel.c:420`) | The process leaves the CPU by I/O or EXIT before the interruption is seen, or `to_exec` has taken `cpu_free` and waits for `execution_mutex`. Nobody posts `interrupt_ready`; the planner keeps the mutex. |
| `shared_socket` | "Pide a memoria creacion de estructuras segun pid y size" (`kernel.c:347`) | Three threads send on `memory_socket`, three sends each, without a lock: a header is followed by another packet's size. |
| `startup_race` | "Received handshake petition from CPU" (`memory.c:120`) | The kernel connects first and is taken for the CPU; the pid in its first request is the byte `MEM_HANDSHAKE`. |
| `stale_descriptor` | "Process exited successfully" (`console.c:95`) | The descriptor of a killed console is closed and given to the next one, which gets the answer. |
| `unstamped_burst` | "PID #%d executed %d ms more, %d ms in total" (`kernel.c:594`) | `to_exec` has sent the process and not yet written `toExecTime` (`kernel.c:319`, `324`) when it is back with an I/O: its burst is measured from the dispatch before. |
| `long_sleep` | "Duerme el maximo" (`kernel.c:170`) | A process that waited for too long has a negative time left, which `usleep` takes for a huge one. |

`fifo` stays clear of what these show by its instance, not by the model: no
two-console overlap, slow memory, processes that can be suspended have no
second-level table, and no program touches memory. `ImplementsChannel` is about
connections with one sender. `WakesInTime` and `IoTakesWhatWasAsked` leave out the processes
that `io_listener` gets to too late, which are exactly the ones of `long_sleep`.
`BurstMeasured` speaks of the process in the CPU from the stamp on, and leaves out exactly
the window of `unstamped_burst`; what a reading in that window does to the estimate is
carried on into the bursts after it.

Other behaviour of the code that the models have and that no run states, because its
invariants hold with it or its instance excludes it:

* with `SlowMemory = FALSE` under FIFO, an answer to `PROCESS_NEW` handled before the pcb
  is in `memory_init_q` is lost, and `to_ready` waits for ever;
* with `OverlapConsoles = TRUE` two consoles can get the same pid;
* an interruption seen after I/O or EXIT sends the process a second time (`EvictGone`);
* `waiting_for_suspension` starts at 1, so that a suspension is not waited for;
* suspending a process that has second-level tables kills the memory server: the element
  read as an address (`memory.c:182`) is a table index (`page_table.c:43`), and "Esperar
  suspension exitosa" (`kernel.c:201`) is never answered (`ProcessSuspend`);
* a process without second-level tables keeps its frames when it is suspended, and a
  later one is then admitted with fewer than `MARCOS_POR_PROCESO`;
* a process that reads or writes memory never ends (`Mmu`), nor does any after it;
* a kernel whose connections were refused goes on, and a console whose kernel died
  reports an uninitialised byte (`Console_Result`);
* the clock hand leaves the frames of a process that has not all of the memory
  (`TwoClockTurns_Crash`).

### Fairness

Weak fairness of every thread of the three programs (`Fairness` in `System`): each is
an operating-system thread that runs until it blocks, each semaphore has one
waiting thread, and `execution_mutex` is released in the same step wherever the
FIFO runs take it, so no thread needs strong fairness. A console may never
connect, but a connection's thread finishes what it began. Choices inside a thread,
such as whether an I/O fits, are not fair.

`Wire` has weak fairness of the reader only: senders may stop at any point.
`Connections` has it for every started program, for the start itself (somebody starts
them all) and for the thread of each connection; nobody has to kill a console. In
`Times` one fairness condition on the next-state relation says that something goes on
happening. That is enough for `EveryIoEnds` because time does not pass before every
step that is due was taken, and processes ask for a bounded number of I/Os. The bound
(`MaxIos`) matters: `io_listener` prefers `blocked_q`, so with consoles arriving without
end a suspended process could be passed over without end, and no liveness property is
stated for that case.

## Proofs

The theorems hold for every set of consoles, every program, size, configuration and
algorithm that the named `ASSUME`s of the modules allow (TLC evaluates them in every
run). Where one needs more, the table says so.

| Theorem (module) | States | Needs |
|---|---|---|
| `TypeCorrect`, `SemaphoresCorrect` (`SystemProofs`) | `TypeOK`, `SemaphoresMatchQueues` | - |
| `InterruptsCorrect`, `ShortestFirstCorrect` (`SystemProofs`) | `InterruptsConserved`, `ShortestFirst` | - |
| `CpuExclusiveCorrect` (`SystemProofs`) | `CpuExclusive` | until a double return |
| `IndicesCorrect`, `FramesCorrect` (`FrameProofs`) | `IndexedInv`, `FrameOwnership` | - |
| `MultiprogramCorrect`, `OnePlaceCorrect` (`PlaceProofs`) | `MultiprogramBound`, `OnePlace` | `SlowMemory`, not `OverlapConsoles`; until a double return |
| `MemoryMatchesCorrect` (`FrameProofs`) | `MemoryMatchesProcesses` | `SlowMemory`, not `OverlapConsoles`; until a double return |
| `LifecycleCorrect` (`LifecycleProofs`) | `LifecycleSpec` | FIFO, `SlowMemory`, not `OverlapConsoles` |
| `LifecycleUntilDoubleReturn` (`LifecycleProofs`) | the steps of `LifecycleSpec` | `SlowMemory`, not `OverlapConsoles`; until a double return |
| `RoundTrip` (`WireProofs`) | a packet is taken apart as it was put together | - |
| `StreamsCorrect` (`WireProofs`) | `StreamsInBounds` | `OneSender` |
| `ChannelCorrect` (`WireProofs`) | `ImplementsChannel` without its fairness | `OneSender` |
| `VictimCorrect`, `FindsVictimCorrect` (`ClockProofs`) | `VictimIsBest`, `FindsVictim` | - |
| `ResultsCorrect` (`ConnectionsProofs`) | `ResultsAreTrue` | - |
| `BurstCorrect` (`TimesProofs`) | `BurstMeasured` | every run is shorter than half a `Word` |
| `WakesCorrect`, `IoCorrect` (`TimesProofs`) | `WakesInTime`, `IoTakesWhatWasAsked` | `ShortWaits`: I/Os and the maximum fit in an `int`, and their microseconds in a `uint32_t` |

*Until a double return*: the conclusion is `Algorithm = "FIFO" \/ cycle # "cpu_bussy" => ...`.
Under SRT `check_interruption` can send a process back that had already left
(`EvictGone`); the cycle thread then waits in `sem_wait(&cpu_bussy)` for good and the
process is in the kernel twice. The properties are true up to that step and false after
it, and under FIFO it never comes (`FifoUninterrupted`, part of the proof).
`SlowMemory` and `OverlapConsoles = FALSE` are needed for what "Other behaviour" above lists:
without them an answer is lost, or two processes share a pid and
`exit_process_success` frees the wrong one. Without `ShortWaits`, `int` arithmetic does
not tell a long wait from a negative one. The times of the repository's own
configurations are a few seconds, far below both limits.

What the invariants add, and why the properties alone are not inductive:

* **Types and semaphores.** `SystemInv` is `KernelTypeOK /\ SocketsTypeOK /\ HandsFull /\
  OneAdmission /\ SemaphoresMatchQueues /\ CpuTypeOK /\ CpuLoaded /\ MemoryTypeOK`.
  `put_to_ready`, `exit_process` and `io_listener` append the pcb a thread holds, so it must
  hold one there (`HandsFull`); the CPU advances the program counter of the global
  pcb, so it must have one (`CpuLoaded`); `table_index_success` writes through the pcb
  that `to_ready` holds, which is the one in `memory_init_q` only because `to_ready`
  waits while it is there (`OneAdmission`). The counting facts decide what `to_ready` finds:
  past both of its waits one of its two queues is not empty, so the branch of
  `to_ready` that would lose a permit is dead code.
* **Execution.** `ExecutionInv` adds `CpuConserved` (the permit, the planner that took it, the
  packet, the CPU's two semaphores and the packet back are one together) and
  `ReadySorted` (`ready_q` is sorted whenever `execution_mutex` is free: what
  `handle_interruption` appends is sorted by the planner that holds the mutex).
* **Places.** `PlaceInv` counts, for any set of pcbs, those in each place, and every
  action moves one from one count to the next (the `*_Moves` lemmas). An exit is found by
  its pid in a queue filled after the request was sent, so `Numbering` says that pids
  differ, `ExitsMatch` that requests and answers about a pid are as many as the
  processes that wait for one, and `PutBeforeAnswer` that the answer comes after the put.
* **Life cycle.** The stage of a process in `Lifecycle` is the one place where `OnePlace`
  counts it, so a step of the programs that moves a pcb from one place to another moves one
  process along one edge, and a step that moves none is a stutter. The guards of the
  abstract steps are what the permits add up to: there is room below the
  multiprogramming level because the thread that admits holds a permit, the CPU is empty
  because the planner took `cpu_free`, and no suspended process is passed over because
  `to_ready` looks at `suspended_ready_q` first.
* **Frames.** `IndexedInv` follows `process_frames_index` from `process_new` through the
  kernel's pcb, the dispatch and the return to `PROCESS_EXIT`: wherever it is, it names an
  entry of the server's lists, so that what `process_exit` unmarks is what it clears.
* **Memory and processes.** `MatchInv` relates two servers that only exchange packets.
  `AdmissionInv` follows the one request of `new_to_ready`: it is on its way, answered or
  announced, about the process that `to_ready` holds, and an answer names the newest
  entry; so `handle_table_index_success` finds that process and writes the right indices.
  `OwnersInv` counts who may still use an entry: the pcbs with memory that name it, a
  `PROCESS_EXIT` on its way, the process being admitted. There is never more than one, and
  an entry with frames has one; without it `process_exit` of one process could
  clear the frames of another. `SwapInv` says that a pid with memory has its swap file,
  which needs `Numbering`: the file that an exit deletes is nobody else's.
* **Wire.** `WireInv` is about all the bytes that were ever sent, which no variable keeps:
  they are the frames of the packets sent, one after the other, and the beginning of the
  one that is being sent; what is on its way is their end; and what the reader has of a
  packet are the first bytes of the frame after the last one delivered. With `OneSender`
  the next part of `unsent` always continues that beginning; with two it does not, which
  is what `shared_socket` shows. A complete payload is then the one that was sent, and
  `RoundTrip` takes it apart exactly. `RoundTrip` is an induction over the instructions
  and the parameters, done on the set of the numbers of elements for which it holds.
* **Clock.** Turns clear the bits that say what they found, so `Search` states it of the bits
  as they were: which classes are excluded after the turns made, and which frames
  the hand has passed.
* **Connections.** `ConnectionsInv` follows a process from the start: while it is in the kernel
  its console waits, so the thread of its descriptor does not close it, so the number in
  the pcb still means that console; and the kernel cannot crash, because after a
  staggered start nobody but the CPU is taken for the CPU.
* **Times.** All differences are equal modulo `Word`, and a number below half a `Word` is
  determined by its residue. `MeasureInv` says this of a burst across evictions, for a
  process from its admission to its exit; it needs `CpuInv`: the permit `cpu_free`, the process
  in the CPU and the planner that took the permit are one together, and whoever waits for
  `interrupt_ready` has the mutex, so no eviction falls between a send and its stamp.
  `WakeInv` says it of the waiting, sleeping and suspended processes, and `AdmittedSlept`
  of those that are on their way from their I/O to `ready_q`, through one `put_to_ready` or
  through `suspended_ready_q` and another. `Apart` (a process is in one place) is needed
  because the steps write the pcb of one process and must not disturb the others.

`SystemProofs` has one lemma per action, and in it one step per conjunct the
action can disturb; the other modules do the same for their invariants. Each inductive
invariant but `WireInv` was checked with TLC on the instances of the runs before it was
proved, with bounds for its quantifiers over numbers; of `WireInv`, which speaks of
sequences that no variable holds, the runs check what follows from it.

Only model-checked:

* liveness (`EveryConsoleAnswered`, `EveryIoEnds`, `DeadPeerNoticed`, `StaggeredStartServes`)
  and the fairness condition of `ChannelSpec`, that what was sent is received in the end:
  the prover has no rules for fairness here.

## Plan

All modules of the table above are written, and every safety property that a run checks
is proved. What could come next is listed under "Not modelled": the CPU's accesses to
memory and the table walk, once the code has somebody who answers them.

## Not modelled

* The table walk, memory reads and writes of the memory server, and the parts of
  `mmu`, `readMem` and `writeMem` after the first wait: no execution reaches them, because
  the CPU's connection is read only for the handshake. The bodies could not be run as
  they are: `get_frame_number` reads an uninitialised pointer and `get_swap` is given an
  address for a frame number. Replacement alone is worth checking, and `Clock` does.
* The TLB: only its creation, cleaning and destruction are called, on entries that are
  always empty.
* Contents of pages and swap files, for the same reason; whether a file exists is in
  `Memory`.
* Text: parsing of scripts and configurations, logs.
* Shutdown: the SIGINT handlers free what there is and exit.
