------------------------------- MODULE Times -------------------------------
(***************************************************************************)
(* The clock arithmetic of the kernel (kernel/src/kernel.c): how long a    *)
(* process waits and sleeps for its I/O against TIEMPO_MAXIMO_BLOQUEADO,   *)
(* and how its bursts are measured and estimated.                          *)
(*                                                                         *)
(* Times are milliseconds.  now is the true time; the code sees it in an   *)
(* int, and computes with ints and uint32_ts of Word values, here few, and *)
(* with the microseconds of usleep in the same width.  Only executing,     *)
(* sleeping and the memory server's delay take time; a step that is due is *)
(* taken before the clock moves, in any order with the others that are due *)
(* then, and usleep is exact.                                              *)
(*                                                                         *)
(* A thread that waits on a semaphore posted after every put in a queue    *)
(* waits here for the queue.  Which ready process is dispatched is left    *)
(* open, and a burst may end at any moment.  A process that the CPU would  *)
(* return twice (EvictGone of Cpu) is not followed: the planner that sent  *)
(* the INTERRUPT waits for ever here.                                      *)
(***************************************************************************)
EXTENDS Integers, Sequences, FiniteSets, SequencesExt

CONSTANTS Processes,
          NoProcess,
          Algorithm,        \* ALGORITMO_PLANIFICACION: FIFO or SRT
          Multiprogramming, \* GRADO_MULTIPROGRAMACION
          MaxRun,           \* how long a burst may take in the CPU
          Ios,              \* how long an I/O may be asked to take
          MaxIos,           \* I/Os of a process
          MaxBlockedTime,   \* TIEMPO_MAXIMO_BLOQUEADO
          InitialEstimate,  \* ESTIMACION_INICIAL
          Alpha,            \* ALFA, in tenths
          MemoryDelay,      \* RETARDO_MEMORIA
          ClockStarts,      \* what the clock may show at the start
          Word,             \* 2^32 in the code
          Micros,           \* 1000 in the code
          Second            \* 1000 in the code

ASSUME SetsAssumption == Ios \subseteq Nat /\ ClockStarts \subseteq Nat
ASSUME ProcessesAssumption == IsFiniteSet(Processes) /\ NoProcess \notin Processes
ASSUME AlgorithmAssumption == Algorithm \in {"FIFO", "SRT"}
ASSUME TimesAssumption ==
    /\ {Multiprogramming, MaxRun, MaxIos, MaxBlockedTime, InitialEstimate, MemoryDelay}
         \subseteq Nat
    /\ Alpha \in 0 .. 10
    /\ Word \in Nat \ {0} /\ Word % 2 = 0 /\ {Micros, Second} \subseteq Nat \ {0}

VARIABLES
    now,
    pcb,                     \* pcb[p]: the fields of its pcb that hold times
    new_q, blocked_q, suspended_block_q, suspended_ready_q,
    exit_q,
    ready,                   \* processes in ready_q
    sem,                     \* semaphores
    to_exec, to_ready,       \* what these threads wait for
    io,                      \* io_listener: what it does, for whom and until when
    call,                    \* the calls of put_to_ready, by its callers
    toExecTime,              \* the global
    cpu,                     \* the process dispatched and not returned
    memory,                  \* what the memory server was asked, and when it answers
    ios,                     \* I/Os done, per process
    since, asked, slept, ran, late  \* what really happened

Semaphores == {"sem_multiprogram", "pcb_table_ready", "ready_for_exec", "cpu_free",
               "interrupt_ready", "waiting_for_suspension"}
Callers == {"to_ready", "io_listener"}

queueVars == <<new_q, blocked_q, suspended_block_q, suspended_ready_q, exit_q>>
truth == <<since, asked, slept, ran, late>>
timesVars == <<now, pcb, queueVars, ready, sem, to_exec, to_ready, io, call, toExecTime, cpu,
               memory, ios, truth>>

-----------------------------------------------------------------------------
(* C's integers. *)

Unsigned(n) == n % Word

Signed(n) == IF Unsigned(n) < Word \div 2 THEN Unsigned(n) ELSE Unsigned(n) - Word

\* int ms = tv_sec*1000LL + tv_usec/1000
Clock == Signed(now)

\* How long usleep(ms * 1000) sleeps: its argument is unsigned.
Usleep(ms) == (Unsigned(ms * Micros) + Micros - 1) \div Micros

-----------------------------------------------------------------------------

Idle == [at |-> "process_for_IO", process |-> NoProcess, taken |-> 0, wake |-> 0, sleep_ms |-> 0]

NotCalled == [at |-> "returned", process |-> NoProcess]

TimesInit ==
    /\ now \in ClockStarts
    /\ pcb = [p \in Processes |->
         [burst_estimation |-> InitialEstimate, left_burst_estimation |-> InitialEstimate,
          blocked_time |-> 0, pending_io_time |-> 0]]
    /\ new_q \in SetToSeqs(Processes)
    /\ blocked_q = <<>> /\ suspended_block_q = <<>> /\ suspended_ready_q = <<>>
    /\ exit_q = <<>>
    /\ ready = {}
    /\ sem = [s \in Semaphores |->
         CASE s = "sem_multiprogram" -> Multiprogramming
           [] s \in {"cpu_free", "waiting_for_suspension"} -> 1
           [] OTHER -> 0]
    /\ to_exec = "ready_for_exec"
    /\ to_ready = NoProcess
    /\ io = Idle
    /\ call = [t \in Callers |-> NotCalled]
    /\ toExecTime = 0
    /\ cpu = NoProcess
    /\ memory = <<>>
    /\ ios = [p \in Processes |-> 0]
    /\ since = [p \in Processes |-> 0]
    /\ asked = [p \in Processes |-> 0]
    /\ slept = [p \in Processes |-> 0]
    /\ ran = [p \in Processes |-> 0]
    /\ late = {}

Post(s) == sem' = [sem EXCEPT ![s] = @ + 1]

Wait(s) == sem[s] > 0 /\ sem' = [sem EXCEPT ![s] = @ - 1]

\* The memory server takes requests in turn, and sleeps before each.
Ask(header) ==
    memory' = Append(memory, [header |-> header,
        due |-> MemoryDelay + Max({now} \cup {request.due : request \in Range(memory)})])

-----------------------------------------------------------------------------
(* put_to_ready, called by to_ready and by io_listener. *)

PutToReady_Call(t, p) == call' = [call EXCEPT ![t] = [at |-> "execution_mutex", process |-> p]]

\* execution_mutex is free: to_exec holds it after its send, and put_to_ready while
\* it waits for the interruption.
MutexFree == to_exec # "gettimeofday" /\ \A t \in Callers : call[t].at # "interrupt_ready"

\* FIFO, or a free CPU: nothing to wait for.
PutToReady(t) ==
    /\ call[t].at = "execution_mutex"
    /\ MutexFree
    /\ Algorithm = "FIFO" \/ sem["cpu_free"] > 0
    /\ ready' = ready \cup {call[t].process}
    /\ Post("ready_for_exec")
    /\ call' = [call EXCEPT ![t] = NotCalled]
    /\ UNCHANGED <<now, pcb, queueVars, to_exec, to_ready, io, toExecTime, cpu, memory, ios,
                   truth>>

\* The CPU is taken: INTERRUPT is sent.
PutToReady_Interrupt(t) ==
    /\ call[t].at = "execution_mutex"
    /\ MutexFree
    /\ Algorithm = "SRT" /\ sem["cpu_free"] = 0
    /\ ready' = ready \cup {call[t].process}
    /\ call' = [call EXCEPT ![t] = [at |-> "interrupt_ready", process |-> NoProcess]]
    /\ UNCHANGED <<now, pcb, queueVars, sem, to_exec, to_ready, io, toExecTime, cpu, memory,
                   ios, truth>>

PutToReady_Resume(t) ==
    /\ call[t].at = "interrupt_ready"
    /\ sem["interrupt_ready"] > 0
    /\ sem' = [sem EXCEPT !["interrupt_ready"] = @ - 1, !["ready_for_exec"] = @ + 1]
    /\ call' = [call EXCEPT ![t] = NotCalled]
    /\ UNCHANGED <<now, pcb, queueVars, ready, to_exec, to_ready, io, toExecTime, cpu, memory,
                   ios, truth>>

-----------------------------------------------------------------------------
(* The thread to_ready. *)

\* Suspended processes first; a new one waits for its tables.
ToReady ==
    /\ to_ready = NoProcess
    /\ call["to_ready"] = NotCalled
    /\ Wait("sem_multiprogram")
    /\ \/ /\ suspended_ready_q # <<>>
          /\ PutToReady_Call("to_ready", Head(suspended_ready_q))
          /\ suspended_ready_q' = Tail(suspended_ready_q)
          /\ UNCHANGED <<new_q, to_ready, memory>>
       \/ /\ suspended_ready_q = <<>> /\ new_q # <<>>
          /\ to_ready' = Head(new_q)
          /\ new_q' = Tail(new_q)
          /\ Ask("PROCESS_NEW")
          /\ UNCHANGED <<suspended_ready_q, call>>
    /\ UNCHANGED <<now, pcb, blocked_q, suspended_block_q, exit_q, ready, to_exec, io,
                   toExecTime, cpu, ios, truth>>

NewToReady ==
    /\ to_ready # NoProcess
    /\ Wait("pcb_table_ready")
    /\ PutToReady_Call("to_ready", to_ready)
    /\ to_ready' = NoProcess
    /\ UNCHANGED <<now, pcb, queueVars, ready, to_exec, io, toExecTime, cpu, memory, ios, truth>>

-----------------------------------------------------------------------------
(* The thread to_exec. *)

ToExec_Wait ==
    /\ to_exec = "ready_for_exec"
    /\ sem["ready_for_exec"] > 0 /\ sem["cpu_free"] > 0
    /\ sem' = [sem EXCEPT !["ready_for_exec"] = @ - 1, !["cpu_free"] = @ - 1]
    /\ to_exec' = "execution_mutex"
    /\ UNCHANGED <<now, pcb, queueVars, ready, to_ready, io, call, toExecTime, cpu, memory, ios,
                   truth>>

\* The process is sent to the CPU, and may begin.
ToExec_Send(p) ==
    /\ to_exec = "execution_mutex"
    /\ MutexFree
    /\ p \in ready
    /\ ready' = ready \ {p}
    /\ cpu' = p
    /\ to_exec' = "gettimeofday"
    /\ UNCHANGED <<now, pcb, queueVars, sem, to_ready, io, call, toExecTime, memory, ios, truth>>

\* Only then the clock is read, whether the process is still in the CPU or not.
ToExec_Stamp ==
    /\ to_exec = "gettimeofday"
    /\ toExecTime' = now
    /\ to_exec' = "ready_for_exec"
    /\ UNCHANGED <<now, pcb, queueVars, ready, sem, to_ready, io, call, cpu, memory, ios, truth>>

\* What a handler may read in toExecTime: while to_exec is at gettimeofday, which
\* writes its two fields, either may be the old one.
ToExecTimes ==
    LET seen == IF to_exec = "gettimeofday" THEN {toExecTime, now} ELSE {toExecTime}
    IN  {(s \div Second) * Second + (ms % Second) : s, ms \in seen}

-----------------------------------------------------------------------------
(* The CPU, and the handlers of what it returns. *)

\* A plausible bug: the time executed is not taken off.
HandleInterruption_NotCounted ==
    /\ cpu # NoProcess
    /\ \E t \in Callers : call[t].at = "interrupt_ready"
    /\ sem["interrupt_ready"] = 0
    /\ sem' = [sem EXCEPT !["ready_for_exec"] = @ + 1, !["cpu_free"] = @ + 1,
                          !["interrupt_ready"] = @ + 1]
    /\ ready' = ready \cup {cpu}
    /\ cpu' = NoProcess
    /\ UNCHANGED <<now, pcb, queueVars, to_exec, to_ready, io, call, toExecTime, memory, ios,
                   truth>>

\* The CPU sees the INTERRUPT and returns the process.
HandleInterruption ==
    /\ cpu # NoProcess
    /\ \E t \in Callers : call[t].at = "interrupt_ready"
    /\ sem["interrupt_ready"] = 0
    /\ \E toMs \in ToExecTimes :
         pcb' = [pcb EXCEPT ![cpu].left_burst_estimation =
                   Unsigned(Signed(@) - Signed(Clock - Signed(toMs)))]
    /\ sem' = [sem EXCEPT !["ready_for_exec"] = @ + 1, !["cpu_free"] = @ + 1,
                          !["interrupt_ready"] = @ + 1]
    /\ ready' = ready \cup {cpu}
    /\ cpu' = NoProcess
    /\ UNCHANGED <<now, queueVars, to_exec, to_ready, io, call, toExecTime, memory, ios, truth>>

\* The whole burst, as io_op works it out from a reading of toExecTime.
Real(p, toMs) ==
    Signed(pcb[p].burst_estimation - Signed(pcb[p].left_burst_estimation)
             + Clock - Signed(toMs))

Estimation(p, toMs) ==
    Unsigned((Alpha * Real(p, toMs) + (10 - Alpha) * pcb[p].burst_estimation) \div 10)

\* The burst ends with I/O: execute_io in the CPU, and io_op.
IoOp ==
    /\ cpu # NoProcess
    /\ ios[cpu] < MaxIos
    /\ \E time \in Ios, toMs \in ToExecTimes :
         /\ pcb' = [pcb EXCEPT ![cpu] =
              [burst_estimation |-> Estimation(cpu, toMs),
               left_burst_estimation |-> Estimation(cpu, toMs),
               blocked_time |-> Unsigned(Clock), pending_io_time |-> time]]
         /\ asked' = [asked EXCEPT ![cpu] = time]
    /\ blocked_q' = Append(blocked_q, cpu)
    /\ cpu' = NoProcess
    /\ Post("cpu_free")
    /\ ios' = [ios EXCEPT ![cpu] = @ + 1]
    /\ since' = [since EXCEPT ![cpu] = now]
    /\ slept' = [slept EXCEPT ![cpu] = 0]
    /\ ran' = [ran EXCEPT ![cpu] = 0]
    /\ late' = late \ {cpu}
    /\ UNCHANGED <<now, new_q, suspended_block_q, suspended_ready_q, exit_q, ready, to_exec,
                   to_ready, io, call, toExecTime, memory>>

\* It ends with EXIT: exit_op.
ExitOp ==
    /\ cpu # NoProcess
    /\ exit_q' = Append(exit_q, cpu)
    /\ cpu' = NoProcess
    /\ Post("cpu_free")
    /\ UNCHANGED <<now, pcb, new_q, blocked_q, suspended_block_q, suspended_ready_q, ready,
                   to_exec, to_ready, io, call, toExecTime, memory, ios, truth>>

ExitProcess ==
    /\ exit_q # <<>>
    /\ exit_q' = Tail(exit_q)
    /\ Ask("PROCESS_EXIT")
    /\ UNCHANGED <<now, pcb, new_q, blocked_q, suspended_block_q, suspended_ready_q, ready, sem,
                   to_exec, to_ready, io, call, toExecTime, cpu, ios, truth>>

\* table_index_success, suspension_success and exit_process_success.
Answered(header) ==
    CASE header = "PROCESS_NEW" -> "pcb_table_ready"
      [] header = "PROCESS_SUSPEND" -> "waiting_for_suspension"
      [] OTHER -> "sem_multiprogram"

MemoryAnswers ==
    /\ memory # <<>>
    /\ now = Head(memory).due
    /\ memory' = Tail(memory)
    /\ Post(Answered(Head(memory).header))
    /\ UNCHANGED <<now, pcb, queueVars, ready, to_exec, to_ready, io, call, toExecTime, cpu,
                   ios, truth>>

-----------------------------------------------------------------------------
(* The thread io_listener. *)

IoIdle == io.at = "process_for_IO" /\ call["io_listener"] = NotCalled

Sleep(where, p, ms) ==
    io' = [at |-> where, process |-> p, taken |-> now, wake |-> now + Usleep(ms), sleep_ms |-> ms]

\* A plausible bug: what the process has waited already is forgotten.
TimeBlocked_Forgotten(p) == 0

\* currTime - pcb->blocked_time
TimeBlocked(p) == Signed(Clock - pcb[p].blocked_time)

\* The oldest blocked process sleeps for its I/O, or for what is left of the maximum.
IoListener_Take ==
    /\ IoIdle
    /\ blocked_q # <<>>
    /\ LET p == Head(blocked_q)
           sleep_ms == Signed(MaxBlockedTime - TimeBlocked(p))
           remaining_io_time == Signed(sleep_ms - pcb[p].pending_io_time)
       IN  /\ IF remaining_io_time >= 0
              THEN Sleep("usleep", p, pcb[p].pending_io_time)
              ELSE Sleep("usleep_max", p, sleep_ms)
           /\ late' = IF now - since[p] > MaxBlockedTime THEN late \cup {p} ELSE late
    /\ blocked_q' = Tail(blocked_q)
    /\ UNCHANGED <<now, pcb, new_q, suspended_block_q, suspended_ready_q, exit_q, ready, sem,
                   to_exec, to_ready, call, toExecTime, cpu, memory, ios, since, asked, slept,
                   ran>>

\* The I/O is over: put_to_ready is called.
IoListener_Finish ==
    /\ io.at = "usleep"
    /\ now = io.wake
    /\ PutToReady_Call("io_listener", io.process)
    /\ io' = Idle
    /\ UNCHANGED <<now, pcb, queueVars, ready, sem, to_exec, to_ready, toExecTime, cpu, memory,
                   ios, truth>>

\* A plausible bug: the whole I/O is done again after the suspension.
IoListener_Suspend_Whole ==
    /\ io.at = "usleep_max"
    /\ now = io.wake
    /\ Ask("PROCESS_SUSPEND")
    /\ io' = [io EXCEPT !.at = "waiting_for_suspension"]
    /\ UNCHANGED <<now, pcb, queueVars, ready, sem, to_exec, to_ready, call, toExecTime, cpu,
                   ios, truth>>

\* The maximum is over: what was slept is taken off, and suspension is asked for.
IoListener_Suspend ==
    /\ io.at = "usleep_max"
    /\ now = io.wake
    /\ pcb' = [pcb EXCEPT ![io.process].pending_io_time = Unsigned(@ - io.sleep_ms)]
    /\ Ask("PROCESS_SUSPEND")
    /\ io' = [io EXCEPT !.at = "waiting_for_suspension"]
    /\ UNCHANGED <<now, queueVars, ready, sem, to_exec, to_ready, call, toExecTime, cpu, ios,
                   truth>>

\* A plausible bug: the permit of the suspended process is not given back.
IoListener_Wait_NoPermit ==
    /\ io.at = "waiting_for_suspension"
    /\ Wait("waiting_for_suspension")
    /\ suspended_block_q' = Append(suspended_block_q, io.process)
    /\ io' = Idle
    /\ UNCHANGED <<now, pcb, new_q, blocked_q, suspended_ready_q, exit_q, ready, to_exec,
                   to_ready, call, toExecTime, cpu, memory, ios, truth>>

\* The suspension is answered: one more process may be admitted.
IoListener_Wait ==
    /\ io.at = "waiting_for_suspension"
    /\ sem["waiting_for_suspension"] > 0
    /\ sem' = [sem EXCEPT !["waiting_for_suspension"] = @ - 1, !["sem_multiprogram"] = @ + 1]
    /\ suspended_block_q' = Append(suspended_block_q, io.process)
    /\ io' = Idle
    /\ UNCHANGED <<now, pcb, new_q, blocked_q, suspended_ready_q, exit_q, ready, to_exec,
                   to_ready, call, toExecTime, cpu, memory, ios, truth>>

\* With nobody in blocked_q the oldest suspended process does the rest of its I/O.
IoListener_TakeSuspended ==
    /\ IoIdle
    /\ blocked_q = <<>>
    /\ suspended_block_q # <<>>
    /\ Sleep("usleep_suspended", Head(suspended_block_q),
             pcb[Head(suspended_block_q)].pending_io_time)
    /\ suspended_block_q' = Tail(suspended_block_q)
    /\ UNCHANGED <<now, pcb, new_q, blocked_q, suspended_ready_q, exit_q, ready, sem, to_exec,
                   to_ready, call, toExecTime, cpu, memory, ios, truth>>

\* to_ready has to admit it again.
IoListener_FinishSuspended ==
    /\ io.at = "usleep_suspended"
    /\ now = io.wake
    /\ suspended_ready_q' = Append(suspended_ready_q, io.process)
    /\ io' = Idle
    /\ UNCHANGED <<now, pcb, new_q, blocked_q, suspended_block_q, exit_q, ready, sem, to_exec,
                   to_ready, call, toExecTime, cpu, memory, ios, truth>>

IoListener ==
    \/ IoListener_Take \/ IoListener_Finish
    \/ IoListener_Suspend \/ IoListener_Wait
    \/ IoListener_TakeSuspended \/ IoListener_FinishSuspended

-----------------------------------------------------------------------------
(* Time. *)

Sleeping == io.at \in {"usleep", "usleep_max", "usleep_suspended"}

\* A thread of the kernel can go on now.
ThreadDue ==
    \/ \E t \in Callers :
         \/ call[t].at = "execution_mutex" /\ MutexFree
         \/ call[t].at = "interrupt_ready" /\ sem["interrupt_ready"] > 0
    \/ /\ to_ready = NoProcess /\ call["to_ready"] = NotCalled
       /\ new_q \o suspended_ready_q # <<>> /\ sem["sem_multiprogram"] > 0
    \/ to_ready # NoProcess /\ sem["pcb_table_ready"] > 0
    \/ to_exec = "ready_for_exec" /\ sem["ready_for_exec"] > 0 /\ sem["cpu_free"] > 0
    \/ to_exec = "execution_mutex" /\ MutexFree /\ ready # {}
    \/ to_exec = "gettimeofday"
    \/ exit_q # <<>>
    \/ IoIdle /\ blocked_q \o suspended_block_q # <<>>
    \/ Sleeping /\ now = io.wake
    \/ io.at = "waiting_for_suspension" /\ sem["waiting_for_suspension"] > 0

\* Something happens now.
Due ==
    \/ ThreadDue
    \/ cpu # NoProcess /\ ran[cpu] >= MaxRun
    \/ memory # <<>> /\ now = Head(memory).due

\* Somebody waits for the time to pass.
Busy == cpu # NoProcess \/ Sleeping \/ memory # <<>>

Tick ==
    /\ ~Due
    /\ Busy
    /\ now' = now + 1
    /\ ran' = [p \in Processes |-> IF p = cpu THEN ran[p] + 1 ELSE ran[p]]
    /\ slept' = [p \in Processes |->
                   IF Sleeping /\ p = io.process THEN slept[p] + 1 ELSE slept[p]]
    /\ UNCHANGED <<pcb, queueVars, ready, sem, to_exec, to_ready, io, call, toExecTime, cpu,
                   memory, ios, since, asked, late>>

\* All that is left is to wait for consoles, or for an interruption that does not come.
Quiet ==
    /\ ~Due
    /\ ~Busy
    /\ UNCHANGED timesVars

TimesNext ==
    \/ \E t \in Callers : PutToReady(t) \/ PutToReady_Interrupt(t) \/ PutToReady_Resume(t)
    \/ ToReady \/ NewToReady
    \/ ToExec_Wait \/ (\E p \in Processes : ToExec_Send(p)) \/ ToExec_Stamp
    \/ HandleInterruption \/ IoOp \/ ExitOp
    \/ ExitProcess
    \/ MemoryAnswers
    \/ IoListener
    \/ Tick
    \/ Quiet

\* Time passes, the threads run and the CPU and the memory server answer.
TimesSpec == TimesInit /\ [][TimesNext]_timesVars /\ WF_timesVars(TimesNext)

-----------------------------------------------------------------------------
(* Properties. *)

(***************************************************************************)
(* A process that io_listener gets to in time sleeps until its I/O is over *)
(* or its maximum is reached, whichever comes first, and it is suspended   *)
(* exactly in the second case.  The readings of the clock it is worked out *)
(* from may lie on either side of a wrap.                                  *)
(***************************************************************************)
WakesInTime ==
    io.at \in {"usleep", "usleep_max"} /\ io.process \notin late =>
        LET finish == io.taken + asked[io.process]
            maximum == since[io.process] + MaxBlockedTime
        IN  /\ io.wake = Min({finish, maximum})
            /\ io.at = "usleep_max" <=> maximum < finish

(***************************************************************************)
(* A process that io_listener got to in time has slept for exactly as long *)
(* as it asked when put_to_ready puts it in ready_q, in one piece or, with *)
(* a suspension in between, in two.  The one that handle_interruption puts *)
(* there comes from the CPU.                                               *)
(***************************************************************************)
IoTakesWhatWasAsked ==
    [][\A p \in (ready' \ ready) \ (late \cup {cpu}) : slept[p] = asked[p]]_timesVars

(***************************************************************************)
(* However often a burst was interrupted, and whatever was dispatched in   *)
(* between, what io_op takes for its length is how long it executed, once  *)
(* to_exec has read the clock.                                             *)
(***************************************************************************)
BurstMeasured ==
    cpu # NoProcess /\ to_exec # "gettimeofday" => Real(cpu, toExecTime) = ran[cpu]

(***************************************************************************)
(* Every I/O ends and the process is ready again, although suspended       *)
(* processes wait while others block, for a permit after it, and for       *)
(* execution_mutex: unless a planner waits for an interruption for ever.   *)
(***************************************************************************)
EveryIoEnds ==
    LET PlannerWaits == \E t \in Callers : call[t].at = "interrupt_ready"
    IN  \A p \in Processes : p \in Range(blocked_q) ~> (p \in ready \/ []PlannerWaits)

\* "Duerme el maximo" and "sin superar el maximo" (kernel.c, io_listener): no sleep
\* of a blocked process is longer than the maximum.
SleepsAtMostMaximum ==
    io.at \in {"usleep", "usleep_max"} => io.wake - io.taken <= MaxBlockedTime

\* "PID #%d executed %d ms more, %d ms in total" (kernel.c, io_op): the total that is
\* logged when the process in the CPU asks for I/O is how long its burst executed.
LogsWhatWasExecuted ==
    cpu # NoProcess /\ ios[cpu] < MaxIos =>
        \A toMs \in ToExecTimes : Real(cpu, toMs) = ran[cpu]

=============================================================================
