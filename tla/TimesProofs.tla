---------------------------- MODULE TimesProofs ----------------------------
(***************************************************************************)
(* The kernel measures bursts and blocked times right, although the clock  *)
(* that it reads wraps: differences of readings are true modulo Word, and  *)
(* a burst, an I/O or the maximum is shorter than half a Word.             *)
(***************************************************************************)
EXTENDS Times, FiniteSetTheorems, TLAPS

-----------------------------------------------------------------------------
(* Numbers modulo Word. *)

\* A machine word has a value at least.
LEMMA WordFacts == Word \in Nat \ {0}
  BY TimesAssumption

\* Quotient and remainder.
LEMMA Division ==
  ASSUME NEW a \in Int
  PROVE  /\ a \div Word \in Int /\ Unsigned(a) \in 0 .. Word - 1
         /\ a = (a \div Word) * Word + Unsigned(a)
  <1>1. /\ a \div Word \in Int /\ a % Word \in 0 .. Word - 1
        /\ a % Word = a - Word * (a \div Word)
    BY WordFacts
  <1> DEFINE q == a \div Word
             r == a % Word
  <1>2. q \in Int /\ r \in 0 .. Word - 1 /\ r = a - Word * q /\ r = Unsigned(a)
    BY <1>1 DEF Unsigned
  <1> HIDE DEF q, r
  <1>3. Word * q = q * Word /\ Word * q \in Int /\ r \in Int
    BY <1>2, WordFacts
  <1>4. a = q * Word + r
    BY <1>2, <1>3
  <1>5. q \in Int /\ Unsigned(a) \in 0 .. Word - 1 /\ a = q * Word + Unsigned(a)
    BY <1>2, <1>4
  <1>. QED BY <1>5 DEF q

\* Only 0 is a multiple of m between -m and m.
LEMMA SmallMultiple ==
  ASSUME NEW m \in Nat \ {0}, NEW k \in Int, -m < k * m, k * m < m
  PROVE  k = 0
  <1>1. CASE k >= 1
    <2>1. (k - 1) * m >= 0
      BY <1>1
    <2>2. (k - 1) * m = k * m - m
      OBVIOUS
    <2>. QED BY <2>1, <2>2
  <1>2. CASE k <= -1
    <2>1. (-1 - k) * m >= 0
      BY <1>2
    <2>2. (-1 - k) * m = -(k * m) - m
      OBVIOUS
    <2>. QED BY <2>1, <2>2
  <1>. QED BY <1>1, <1>2

\* Two numbers are the same for the code.
Same(a, b) == \E k \in Int : a = b + k * Word

\* The code's arithmetic keeps it.
LEMMA SameSums ==
  ASSUME NEW a \in Int, NEW b \in Int, NEW c \in Int, NEW d \in Int, Same(a, b), Same(c, d)
  PROVE  Same(a + c, b + d) /\ Same(a - c, b - d)
  <1>1. PICK k \in Int : a = b + k * Word
    BY DEF Same
  <1>2. PICK j \in Int : c = d + j * Word
    BY DEF Same
  <1>3. (k + j) * Word = k * Word + j * Word /\ (k - j) * Word = k * Word - j * Word
    BY WordFacts
  <1>4. k * Word \in Int /\ j * Word \in Int
    BY WordFacts
  <1>5. a + c = (b + d) + (k + j) * Word /\ a - c = (b - d) + (k - j) * Word
    BY <1>1, <1>2, <1>3, <1>4
  <1>6. k + j \in Int /\ k - j \in Int
    OBVIOUS
  <1>. QED BY <1>5, <1>6 DEF Same

\* The numbers that are the same to a machine word form a congruence: reflexive,
LEMMA SameItself ==
  ASSUME NEW a \in Int
  PROVE  Same(a, a)
  <1>1. a = a + 0 * Word
    BY WordFacts
  <1>. QED BY <1>1 DEF Same

\* symmetric,
LEMMA SameSwap ==
  ASSUME NEW a \in Int, NEW b \in Int, Same(a, b)
  PROVE  Same(b, a)
  <1>1. Same(a - a, b - a) /\ Same(b - b, b - a)
    BY SameSums, SameItself
  <1>2. PICK k \in Int : a = b + k * Word
    BY DEF Same
  <1>3. (-k) * Word = -(k * Word) /\ k * Word \in Int /\ -k \in Int
    BY WordFacts
  <1>4. b = a + (-k) * Word
    BY <1>2, <1>3
  <1>. QED BY <1>3, <1>4 DEF Same

\* and transitive.
LEMMA SameChain ==
  ASSUME NEW a \in Int, NEW b \in Int, NEW c \in Int, Same(a, b), Same(b, c)
  PROVE  Same(a, c)
  <1>1. PICK k \in Int : a = b + k * Word
    BY DEF Same
  <1>2. PICK j \in Int : b = c + j * Word
    BY DEF Same
  <1>3. (k + j) * Word = k * Word + j * Word /\ k * Word \in Int /\ j * Word \in Int
    BY WordFacts
  <1>4. a = c + (k + j) * Word
    BY <1>1, <1>2, <1>3
  <1>. QED BY <1>4 DEF Same

\* An unsigned int is the number itself while that fits.
LEMMA UnsignedIs ==
  ASSUME NEW a \in Int
  PROVE  /\ Unsigned(a) \in 0 .. Word - 1 /\ Same(Unsigned(a), a)
         /\ \A b \in 0 .. Word - 1 : Same(a, b) => Unsigned(a) = b
  <1>1. /\ a \div Word \in Int /\ Unsigned(a) \in 0 .. Word - 1
        /\ a = (a \div Word) * Word + Unsigned(a)
    BY Division
  <1>2. Same(a, Unsigned(a))
    <2>1. a = Unsigned(a) + (a \div Word) * Word
      BY <1>1, WordFacts
    <2>. QED BY <1>1, <2>1 DEF Same
  <1>3. Same(Unsigned(a), a)
    BY <1>1, <1>2, SameSwap
  <1>4. ASSUME NEW b \in 0 .. Word - 1, Same(a, b) PROVE Unsigned(a) = b
    <2>0. b \in Int /\ Unsigned(a) \in Int
      BY <1>1, WordFacts
    <2>1. Same(Unsigned(a), b)
      BY <1>3, <1>4, <2>0, SameChain
    <2>2. PICK k \in Int : Unsigned(a) = b + k * Word
      BY <2>1 DEF Same
    <2>3. k * Word \in Int /\ -Word < k * Word /\ k * Word < Word
      BY <1>1, <2>0, <2>2, WordFacts
    <2>4. k = 0
      BY <2>3, SmallMultiple, WordFacts
    <2>. QED BY <2>0, <2>2, <2>4, WordFacts
  <1>. QED BY <1>1, <1>3, <1>4

\* Half of the values of an int are negative.
Half == Word \div 2

\* An int holds half of the values of a word on either side of 0.
LEMMA HalfFacts == Half \in Nat /\ Half > 0 /\ Word = Half + Half
  <1>1. Word \in Nat /\ Word > 0 /\ Word % 2 = 0
    BY TimesAssumption
  <1>. QED BY <1>1 DEF Half

\* An int is the number itself while that fits.
LEMMA SignedIs ==
  ASSUME NEW a \in Int
  PROVE  /\ Signed(a) \in -Half .. Half - 1 /\ Same(Signed(a), a)
         /\ \A b \in -Half .. Half - 1 : Same(a, b) => Signed(a) = b
  <1>1. Unsigned(a) \in 0 .. Word - 1 /\ Same(Unsigned(a), a)
    BY UnsignedIs
  <1>2. Signed(a) = IF Unsigned(a) < Half THEN Unsigned(a) ELSE Unsigned(a) - Word
    BY DEF Signed, Half
  <1>3. Signed(a) \in -Half .. Half - 1
    BY <1>1, <1>2, HalfFacts
  <1>4. Same(Signed(a), a)
    <2>1. CASE Unsigned(a) < Half
      BY <1>1, <1>2, <2>1
    <2>2. CASE ~(Unsigned(a) < Half)
      <3>1. 0 - Word = -Word /\ Word = 0 + 1 * Word /\ Word \in Int
        BY WordFacts
      <3>2. Same(Word, 0)
        BY <3>1 DEF Same
      <3>3. Unsigned(a) \in Int
        BY <1>1, WordFacts
      <3>4. Same(Unsigned(a) - Word, a - 0)
        BY <1>1, <3>1, <3>2, <3>3, SameSums
      <3>. QED BY <1>2, <2>2, <3>4
    <2>. QED BY <2>1, <2>2
  <1>5. ASSUME NEW b \in -Half .. Half - 1, Same(a, b) PROVE Signed(a) = b
    <2>0. b \in Int /\ Signed(a) \in Int
      BY <1>3, HalfFacts
    <2>1. Same(Signed(a), b)
      BY <1>4, <1>5, <2>0, SameChain
    <2>2. PICK k \in Int : Signed(a) = b + k * Word
      BY <2>1 DEF Same
    <2>3. k * Word \in Int /\ -Word < k * Word /\ k * Word < Word
      BY <1>3, <2>0, <2>2, WordFacts, HalfFacts
    <2>4. k = 0
      BY <2>3, SmallMultiple, WordFacts
    <2>. QED BY <2>0, <2>2, <2>4, WordFacts
  <1>. QED BY <1>3, <1>4, <1>5
-----------------------------------------------------------------------------
(* Types. *)

PcbTimes == [burst_estimation : Nat, left_burst_estimation : Nat,
             blocked_time : Nat, pending_io_time : Nat]

IoTimes == [at : {"process_for_IO", "usleep", "usleep_max", "waiting_for_suspension",
                  "usleep_suspended"},
            process : Processes \cup {NoProcess}, taken : Nat, wake : Nat, sleep_ms : Int]

Calls == [at : {"returned", "execution_mutex", "interrupt_ready"},
          process : Processes \cup {NoProcess}]

CpuTimesOK ==
    /\ now \in Nat /\ toExecTime \in Nat
    /\ pcb \in [Processes -> PcbTimes]
    /\ ready \in SUBSET Processes
    /\ cpu \in Processes \cup {NoProcess}
    /\ ran \in [Processes -> Nat]
    /\ to_exec \in {"ready_for_exec", "execution_mutex", "gettimeofday"}
    /\ sem \in [Semaphores -> Nat]

IoTimesOK ==
    /\ blocked_q \in Seq(Processes) /\ suspended_block_q \in Seq(Processes)
    /\ io \in IoTimes
    /\ io.at # "process_for_IO" => io.process \in Processes
    /\ since \in [Processes -> Nat] /\ asked \in [Processes -> Nat]
    /\ slept \in [Processes -> Int]

AdmissionOK ==
    /\ new_q \in Seq(Processes) /\ suspended_ready_q \in Seq(Processes)
    /\ to_ready \in Processes \cup {NoProcess}
    /\ call \in [Callers -> Calls]
    /\ \A t \in Callers : call[t].at = "execution_mutex" => call[t].process \in Processes

TimesTypeOK == CpuTimesOK /\ IoTimesOK /\ AdmissionOK

\* usleep never sleeps less than nothing.
LEMMA UsleepType ==
  ASSUME NEW ms \in Int
  PROVE  Usleep(ms) \in Nat
  <1>1. Micros \in Nat \ {0}
    BY TimesAssumption
  <1>2. ms * Micros \in Int
    BY <1>1
  <1>3. Unsigned(ms * Micros) \in 0 .. Word - 1
    BY <1>2, UnsignedIs
  <1> DEFINE n == Unsigned(ms * Micros) + Micros - 1
  <1>4. n \in Nat
    BY <1>1, <1>3, WordFacts
  <1>5. Usleep(ms) = n \div Micros
    BY DEF Usleep
  <1> HIDE DEF n
  <1>. QED BY <1>1, <1>4, <1>5

\* The clock, as an int.
LEMMA ClockType ==
  ASSUME now \in Nat
  PROVE  Clock \in Int /\ Same(Clock, now)
  <1>1. Signed(now) \in -Half .. Half - 1 /\ Same(Signed(now), now)
    BY SignedIs
  <1>. QED BY <1>1, HalfFacts DEF Clock

\* Seconds and milliseconds make up a time again.
LEMMA SecondsAndMilliseconds ==
  ASSUME NEW t \in Nat
  PROVE  (t \div Second) * Second + (t % Second) = t
  <1>1. Second \in Nat \ {0}
    BY TimesAssumption
  <1> DEFINE q == t \div Second
             r == t % Second
  <1>2. q \in Int /\ r \in Int /\ r = t - Second * q
    BY <1>1
  <1> HIDE DEF q, r
  <1>3. Second * q = q * Second /\ Second * q \in Int
    BY <1>1, <1>2
  <1>4. q * Second + r = t
    BY <1>2, <1>3
  <1>. QED BY <1>4 DEF q, r

\* What the handlers read in toExecTime is a time, and the right one but while to_exec
\* is writing it.
LEMMA ToExecTimesAre ==
  ASSUME CpuTimesOK
  PROVE  /\ \A toMs \in ToExecTimes : toMs \in Int
         /\ to_exec # "gettimeofday" => ToExecTimes = {toExecTime}
  <1>1. now \in Nat /\ toExecTime \in Nat /\ Second \in Nat \ {0}
    BY TimesAssumption DEF CpuTimesOK
  <1>2. \A s, ms \in Nat : (s \div Second) * Second + (ms % Second) \in Int
    <2>1. ASSUME NEW s \in Nat, NEW ms \in Nat
          PROVE  (s \div Second) * Second + (ms % Second) \in Int
      <3>1. s \div Second \in Int /\ ms % Second \in Int
        BY <1>1
      <3> DEFINE q == s \div Second
                 r == ms % Second
      <3>2. q \in Int /\ r \in Int
        BY <3>1
      <3> HIDE DEF q, r
      <3>3. q * Second + r \in Int
        BY <1>1, <3>2
      <3>. QED BY <3>3 DEF q, r
    <2>. QED BY <2>1
  <1>3. \A toMs \in ToExecTimes : \E s, ms \in Nat :
          toMs = (s \div Second) * Second + (ms % Second)
    BY <1>1 DEF ToExecTimes
  <1>4. (toExecTime \div Second) * Second + (toExecTime % Second) = toExecTime
    BY <1>1, SecondsAndMilliseconds
  <1>5. to_exec # "gettimeofday" =>
          ToExecTimes = {(toExecTime \div Second) * Second + (toExecTime % Second)}
    BY DEF ToExecTimes
  <1>6. to_exec # "gettimeofday" => ToExecTimes = {toExecTime}
    BY <1>4, <1>5
  <1>7. \A toMs \in ToExecTimes : toMs \in Int
    BY <1>2, <1>3
  <1>. QED BY <1>6, <1>7

\* What io_op computes is a uint32_t.
LEMMA EstimationType ==
  ASSUME CpuTimesOK, NEW p \in Processes, NEW toMs \in Int
  PROVE  Estimation(p, toMs) \in Nat
  <1>1. pcb[p].burst_estimation \in Nat /\ pcb[p].left_burst_estimation \in Nat
    BY DEF CpuTimesOK, PcbTimes
  <1>2. Signed(pcb[p].left_burst_estimation) \in Int /\ Signed(toMs) \in Int
    BY <1>1, SignedIs, HalfFacts
  <1>3. Clock \in Int
    BY ClockType DEF CpuTimesOK
  <1>4. Real(p, toMs) \in Int
    <2>1. pcb[p].burst_estimation - Signed(pcb[p].left_burst_estimation) + Clock - Signed(toMs)
            \in Int
      BY <1>1, <1>2, <1>3
    <2>. QED BY <2>1, SignedIs, HalfFacts DEF Real
  <1> DEFINE n == Alpha * Real(p, toMs) + (10 - Alpha) * pcb[p].burst_estimation
  <1>5. n \in Int
    BY <1>1, <1>4, TimesAssumption
  <1>6. Estimation(p, toMs) = Unsigned(n \div 10)
    BY DEF Estimation
  <1> HIDE DEF n
  <1>7. n \div 10 \in Int
    BY <1>5
  <1>. QED BY <1>6, <1>7, UnsignedIs, WordFacts

\* An answer posts a semaphore, and never cpu_free.
LEMMA AnsweredIs ==
  ASSUME NEW header
  PROVE  Answered(header) \in Semaphores \ {"cpu_free"}
  BY DEF Answered, Semaphores

\* No semaphore falls below zero.
LEMMA SemType ==
  ASSUME CpuTimesOK, [TimesNext]_timesVars
  PROVE  sem' \in [Semaphores -> Nat]
  <1>0. /\ sem \in [Semaphores -> Nat]
        /\ {"sem_multiprogram", "pcb_table_ready", "ready_for_exec", "cpu_free",
            "interrupt_ready", "waiting_for_suspension"} \subseteq Semaphores
    BY DEF CpuTimesOK, Semaphores
  <1>1. CASE UNCHANGED sem
    BY <1>0, <1>1
  <1>2. CASE \E s \in Semaphores : Post(s) \/ Wait(s)
    BY <1>0, <1>2 DEF Post, Wait
  <1>3. ASSUME NEW t \in Callers, PutToReady_Resume(t) PROVE sem' \in [Semaphores -> Nat]
    BY <1>0, <1>3 DEF PutToReady_Resume
  <1>4. CASE ToExec_Wait \/ HandleInterruption \/ IoListener_Wait
    BY <1>0, <1>4 DEF ToExec_Wait, HandleInterruption, IoListener_Wait
  <1>5. CASE MemoryAnswers
    BY <1>2, <1>5, AnsweredIs DEF MemoryAnswers
  <1>6. CASE IoOp \/ ExitOp \/ ToReady \/ NewToReady \/ \E t \in Callers : PutToReady(t)
    BY <1>0, <1>2, <1>6 DEF IoOp, ExitOp, ToReady, NewToReady, PutToReady
  <1>. QED BY <1>1, <1>3, <1>4, <1>5, <1>6
         DEF TimesNext, timesVars, PutToReady_Interrupt, ToExec_Send, ToExec_Stamp, ExitProcess,
         IoListener, IoListener_Take, IoListener_Finish, IoListener_Suspend,
         IoListener_TakeSuspended, IoListener_FinishSuspended, Tick, Quiet

\* The variables of the CPU and of its clock keep their types.
LEMMA CpuTimesType ==
  ASSUME CpuTimesOK, IoTimesOK, AdmissionOK, [TimesNext]_timesVars
  PROVE  CpuTimesOK'
  <1>0. sem' \in [Semaphores -> Nat]
    BY SemType
  <1>1. CASE UNCHANGED timesVars
    BY <1>1 DEF CpuTimesOK, timesVars, truth
  <1>2. ASSUME NEW t \in Callers, PutToReady(t) \/ PutToReady_Interrupt(t) PROVE CpuTimesOK'
    <2>1. call[t].process \in Processes
      BY <1>2 DEF PutToReady, PutToReady_Interrupt, AdmissionOK
    <2>2. ready' \in SUBSET Processes
      BY <1>2, <2>1 DEF PutToReady, PutToReady_Interrupt, CpuTimesOK
    <2>. QED BY <1>0, <1>2, <2>2 DEF PutToReady, PutToReady_Interrupt, CpuTimesOK, truth
  <1>3. CASE ToExec_Wait \/ ToExec_Stamp \/ \E p \in Processes : ToExec_Send(p)
    BY <1>0, <1>3 DEF ToExec_Wait, ToExec_Stamp, ToExec_Send, CpuTimesOK, truth
  <1>4. CASE HandleInterruption
    <2>1. cpu \in Processes
      BY <1>4 DEF HandleInterruption, CpuTimesOK
    <2>2. pcb[cpu] \in PcbTimes
      BY <2>1 DEF CpuTimesOK
    <2>3. \A n \in Int : Unsigned(n) \in Nat
      BY UnsignedIs, WordFacts
    <2>4. \A n \in Int : Signed(n) \in Int
      BY SignedIs, HalfFacts
    <2>5. PICK toMs \in Int :
            pcb' = [pcb EXCEPT ![cpu].left_burst_estimation =
                      Unsigned(Signed(pcb[cpu].left_burst_estimation)
                                 - Signed(Clock - Signed(toMs)))]
      BY <1>4, ToExecTimesAre DEF HandleInterruption
    <2>6. pcb[cpu].left_burst_estimation \in Nat /\ Clock \in Int /\ Signed(toMs) \in Int
      BY <2>2, <2>4, ClockType DEF PcbTimes, CpuTimesOK
    <2>7. Signed(pcb[cpu].left_burst_estimation) - Signed(Clock - Signed(toMs)) \in Int
      BY <2>4, <2>6
    <2>8. PICK n \in Nat : pcb' = [pcb EXCEPT ![cpu].left_burst_estimation = n]
      BY <2>3, <2>5, <2>7
    <2>9. pcb' \in [Processes -> PcbTimes]
      BY <2>1, <2>2, <2>8 DEF CpuTimesOK, PcbTimes
    <2>10. ready' \in SUBSET Processes
      BY <1>4, <2>1 DEF HandleInterruption, CpuTimesOK
    <2>. QED BY <1>0, <1>4, <2>9, <2>10 DEF HandleInterruption, CpuTimesOK, truth
  <1>5. CASE IoOp
    <2>1. cpu \in Processes
      BY <1>5 DEF IoOp, CpuTimesOK
    <2>2. Clock \in Int /\ \A toMs \in ToExecTimes : Estimation(cpu, toMs) \in Nat
      BY <2>1, ClockType, ToExecTimesAre, EstimationType DEF CpuTimesOK
    <2>3. Unsigned(Clock) \in Nat
      BY <2>2, UnsignedIs, WordFacts
    <2>4. PICK r \in PcbTimes : pcb' = [pcb EXCEPT ![cpu] = r]
      BY <1>5, <2>2, <2>3, SetsAssumption DEF IoOp, PcbTimes
    <2>5. pcb' \in [Processes -> PcbTimes]
      BY <2>4 DEF CpuTimesOK
    <2>6. ran' \in [Processes -> Nat]
      BY <1>5 DEF IoOp, CpuTimesOK
    <2>. QED BY <1>0, <1>5, <2>5, <2>6 DEF IoOp, CpuTimesOK
  <1>6. CASE IoListener_Suspend
    <2>1. io.process \in Processes /\ io.sleep_ms \in Int
      BY <1>6 DEF IoListener_Suspend, IoTimesOK, IoTimes
    <2>2. pcb[io.process] \in PcbTimes
      BY <2>1 DEF CpuTimesOK
    <2>3. pcb[io.process].pending_io_time - io.sleep_ms \in Int
      BY <2>1, <2>2 DEF PcbTimes
    <2>4. Unsigned(pcb[io.process].pending_io_time - io.sleep_ms) \in Nat
      BY <2>3, UnsignedIs, WordFacts
    <2>5. PICK n \in Nat : pcb' = [pcb EXCEPT ![io.process].pending_io_time = n]
      BY <1>6, <2>4 DEF IoListener_Suspend
    <2>6. pcb' \in [Processes -> PcbTimes]
      BY <2>1, <2>2, <2>5 DEF CpuTimesOK, PcbTimes
    <2>. QED BY <1>0, <1>6, <2>6 DEF IoListener_Suspend, CpuTimesOK, truth
  <1>7. CASE IoListener_Take \/ IoListener_Finish \/ IoListener_Wait
    BY <1>0, <1>7 DEF IoListener_Take, IoListener_Finish, IoListener_Wait, CpuTimesOK, truth
  <1>8. CASE IoListener_TakeSuspended \/ IoListener_FinishSuspended \/ MemoryAnswers
    BY <1>0, <1>8 DEF IoListener_TakeSuspended, IoListener_FinishSuspended, MemoryAnswers,
       CpuTimesOK, truth
  <1>9. CASE ToReady \/ NewToReady \/ \E t \in Callers : PutToReady_Resume(t)
    BY <1>0, <1>9 DEF ToReady, NewToReady, PutToReady_Resume, CpuTimesOK, truth
  <1>10. CASE ExitOp \/ ExitProcess
    BY <1>0, <1>10 DEF ExitOp, ExitProcess, CpuTimesOK, truth
  <1>11. CASE Tick
    <2>1. now' \in Nat /\ ran' \in [Processes -> Nat]
      BY <1>11 DEF Tick, CpuTimesOK
    <2>. QED BY <1>0, <1>11, <2>1 DEF Tick, CpuTimesOK
  <1>. QED BY <1>1, <1>2, <1>3, <1>4, <1>5, <1>6, <1>7, <1>8, <1>9, <1>10, <1>11
         DEF TimesNext, IoListener, Quiet

\* A sleep that begins now.
LEMMA SleepType ==
  ASSUME now \in Nat, NEW where \in {"usleep", "usleep_max", "usleep_suspended"},
         NEW p \in Processes, NEW ms \in Int, Sleep(where, p, ms)
  PROVE  /\ io' \in IoTimes /\ io'.process = p /\ io'.at = where
         /\ io'.taken = now /\ io'.wake = now + Usleep(ms) /\ io'.sleep_ms = ms
  <1>1. Usleep(ms) \in Nat
    BY UsleepType
  <1>2. now + Usleep(ms) \in Nat
    BY <1>1
  <1>. QED BY <1>2 DEF Sleep, IoTimes

\* What io_listener takes from blocked_q sleeps for one of two times.
LEMMA TakeSleeps ==
  ASSUME CpuTimesOK, IoTimesOK, IoListener_Take
  PROVE  LET p == Head(blocked_q)
             sleep_ms == Signed(MaxBlockedTime - TimeBlocked(p))
             remaining_io_time == Signed(sleep_ms - pcb[p].pending_io_time)
         IN  /\ p \in Processes /\ sleep_ms \in Int /\ TimeBlocked(p) \in Int
             /\ pcb[p].pending_io_time \in Nat /\ pcb[p].blocked_time \in Nat
             /\ IF remaining_io_time >= 0
                THEN Sleep("usleep", p, pcb[p].pending_io_time)
                ELSE Sleep("usleep_max", p, sleep_ms)
  <1> DEFINE p == Head(blocked_q)
             sleep_ms == Signed(MaxBlockedTime - TimeBlocked(p))
  <1>1. blocked_q \in Seq(Processes) /\ blocked_q # <<>>
    BY DEF IoListener_Take, IoTimesOK
  <1>2. p \in Processes
    BY <1>1
  <1>3. pcb[p] \in PcbTimes
    BY <1>2 DEF CpuTimesOK
  <1>4. pcb[p].pending_io_time \in Nat /\ pcb[p].blocked_time \in Nat
    BY <1>3 DEF PcbTimes
  <1>5. Clock - pcb[p].blocked_time \in Int
    BY <1>4, ClockType DEF CpuTimesOK
  <1>6. TimeBlocked(p) \in Int
    BY <1>5, SignedIs, HalfFacts DEF TimeBlocked
  <1>7. MaxBlockedTime - TimeBlocked(p) \in Int
    BY <1>6, TimesAssumption
  <1>8. sleep_ms \in Int
    BY <1>7, SignedIs, HalfFacts
  <1>. QED BY <1>2, <1>4, <1>6, <1>8 DEF IoListener_Take

\* The same for what io_listener uses.
LEMMA IoTimesType ==
  ASSUME CpuTimesOK, IoTimesOK, [TimesNext]_timesVars
  PROVE  IoTimesOK'
  <1>1. CASE UNCHANGED timesVars
    BY <1>1 DEF IoTimesOK, timesVars, queueVars, truth
  <1>2. CASE \E t \in Callers : PutToReady(t) \/ PutToReady_Interrupt(t) \/ PutToReady_Resume(t)
    BY <1>2 DEF PutToReady, PutToReady_Interrupt, PutToReady_Resume, IoTimesOK, queueVars, truth
  <1>3. CASE ToExec_Wait \/ ToExec_Stamp \/ \E p \in Processes : ToExec_Send(p)
    BY <1>3 DEF ToExec_Wait, ToExec_Stamp, ToExec_Send, IoTimesOK, queueVars, truth
  <1>4. CASE ToReady \/ NewToReady \/ ExitOp \/ ExitProcess
    BY <1>4 DEF ToReady, NewToReady, ExitOp, ExitProcess, IoTimesOK, queueVars, truth
  <1>5. CASE HandleInterruption \/ MemoryAnswers
    BY <1>5 DEF HandleInterruption, MemoryAnswers, IoTimesOK, queueVars, truth
  <1>6. CASE IoOp
    <2>1. cpu \in Processes
      BY <1>6 DEF IoOp, CpuTimesOK
    <2>2. blocked_q' \in Seq(Processes)
      BY <1>6, <2>1 DEF IoOp, IoTimesOK
    <2>3. /\ since' \in [Processes -> Nat] /\ asked' \in [Processes -> Nat]
          /\ slept' \in [Processes -> Int]
      BY <1>6, SetsAssumption DEF IoOp, IoTimesOK, CpuTimesOK
    <2>. QED BY <1>6, <2>2, <2>3 DEF IoOp, IoTimesOK
  <1>7. CASE IoListener_Take
    <2>1. io' \in IoTimes /\ io'.process \in Processes
      BY <1>7, TakeSleeps, SleepType DEF CpuTimesOK
    <2>2. blocked_q' \in Seq(Processes)
      BY <1>7 DEF IoListener_Take, IoTimesOK
    <2>. QED BY <1>7, <2>1, <2>2 DEF IoListener_Take, IoTimesOK
  <1>8. CASE IoListener_Finish \/ IoListener_FinishSuspended
    <2>1. Idle \in IoTimes /\ Idle.at = "process_for_IO"
      BY DEF Idle, IoTimes
    <2>. QED BY <1>8, <2>1 DEF IoListener_Finish, IoListener_FinishSuspended, IoTimesOK,
           queueVars, truth
  <1>9. CASE IoListener_Suspend
    <2>1. io' \in IoTimes /\ io'.process = io.process
      BY <1>9 DEF IoListener_Suspend, IoTimesOK, IoTimes
    <2>2. io.process \in Processes
      BY <1>9 DEF IoListener_Suspend, IoTimesOK
    <2>. QED BY <1>9, <2>1, <2>2 DEF IoListener_Suspend, IoTimesOK, queueVars, truth
  <1>10. CASE IoListener_Wait
    <2>1. Idle \in IoTimes /\ Idle.at = "process_for_IO"
      BY DEF Idle, IoTimes
    <2>2. io.process \in Processes
      BY <1>10 DEF IoListener_Wait, IoTimesOK
    <2>3. suspended_block_q' \in Seq(Processes)
      BY <1>10, <2>2 DEF IoListener_Wait, IoTimesOK
    <2>. QED BY <1>10, <2>1, <2>3 DEF IoListener_Wait, IoTimesOK, truth
  <1>11. CASE IoListener_TakeSuspended
    <2>1. suspended_block_q \in Seq(Processes) /\ suspended_block_q # <<>>
      BY <1>11 DEF IoListener_TakeSuspended, IoTimesOK
    <2>2. Head(suspended_block_q) \in Processes /\ Tail(suspended_block_q) \in Seq(Processes)
      BY <2>1
    <2>3. pcb[Head(suspended_block_q)].pending_io_time \in Int
      BY <2>2 DEF CpuTimesOK, PcbTimes
    <2>4. io' \in IoTimes /\ io'.process \in Processes
      BY <1>11, <2>2, <2>3, SleepType DEF IoListener_TakeSuspended, CpuTimesOK
    <2>. QED BY <1>11, <2>2, <2>4 DEF IoListener_TakeSuspended, IoTimesOK, truth
  <1>12. CASE Tick
    <2>1. slept' \in [Processes -> Int]
      BY <1>12 DEF Tick, IoTimesOK
    <2>. QED BY <1>12, <2>1 DEF Tick, IoTimesOK, queueVars
  <1>. QED BY <1>1, <1>2, <1>3, <1>4, <1>5, <1>6, <1>7, <1>8, <1>9, <1>10, <1>11, <1>12
         DEF TimesNext, IoListener, Quiet

\* The same for the way to ready_q.
LEMMA AdmissionType ==
  ASSUME IoTimesOK, AdmissionOK, [TimesNext]_timesVars
  PROVE  AdmissionOK'
  <1>0. /\ NotCalled \in Calls /\ NotCalled.at # "execution_mutex"
        /\ [at |-> "interrupt_ready", process |-> NoProcess] \in Calls
        /\ \A p \in Processes : [at |-> "execution_mutex", process |-> p] \in Calls
        /\ "to_ready" \in Callers /\ "io_listener" \in Callers
    BY DEF NotCalled, Calls, Callers
  <1>1. CASE UNCHANGED <<new_q, suspended_ready_q, to_ready, call>>
    BY <1>1 DEF AdmissionOK
  <1>2. ASSUME NEW t \in Callers,
               PutToReady(t) \/ PutToReady_Interrupt(t) \/ PutToReady_Resume(t)
        PROVE  AdmissionOK'
    BY <1>0, <1>2 DEF PutToReady, PutToReady_Interrupt, PutToReady_Resume, AdmissionOK, queueVars
  <1>3. CASE ToReady
    <2>1. CASE /\ suspended_ready_q # <<>>
               /\ PutToReady_Call("to_ready", Head(suspended_ready_q))
               /\ suspended_ready_q' = Tail(suspended_ready_q)
               /\ UNCHANGED <<new_q, to_ready, memory>>
      BY <1>0, <2>1 DEF PutToReady_Call, AdmissionOK
    <2>2. CASE /\ new_q # <<>> /\ to_ready' = Head(new_q) /\ new_q' = Tail(new_q)
               /\ UNCHANGED <<suspended_ready_q, call>>
      BY <2>2 DEF AdmissionOK
    <2>. QED BY <1>3, <2>1, <2>2 DEF ToReady
  <1>4. CASE NewToReady
    <2>1. to_ready \in Processes /\ to_ready' = NoProcess
      BY <1>4 DEF NewToReady, AdmissionOK
    <2>. QED BY <1>0, <1>4, <2>1 DEF NewToReady, PutToReady_Call, AdmissionOK, queueVars
  <1>5. CASE IoListener_Finish
    <2>1. io.process \in Processes
      BY <1>5 DEF IoListener_Finish, IoTimesOK
    <2>. QED BY <1>0, <1>5, <2>1 DEF IoListener_Finish, PutToReady_Call, AdmissionOK, queueVars
  <1>6. CASE IoListener_FinishSuspended
    <2>1. io.process \in Processes
      BY <1>6 DEF IoListener_FinishSuspended, IoTimesOK
    <2>. QED BY <1>6, <2>1 DEF IoListener_FinishSuspended, AdmissionOK
  <1>7. CASE ToExec_Wait \/ ToExec_Stamp \/ \E p \in Processes : ToExec_Send(p)
    BY <1>1, <1>7 DEF ToExec_Wait, ToExec_Stamp, ToExec_Send, queueVars
  <1>8. CASE HandleInterruption \/ IoOp \/ ExitOp \/ ExitProcess \/ MemoryAnswers
    BY <1>1, <1>8 DEF HandleInterruption, IoOp, ExitOp, ExitProcess, MemoryAnswers, queueVars
  <1>9. CASE IoListener_Take \/ IoListener_Suspend \/ IoListener_Wait \/ IoListener_TakeSuspended
    BY <1>1, <1>9 DEF IoListener_Take, IoListener_Suspend, IoListener_Wait,
       IoListener_TakeSuspended, queueVars
  <1>10. CASE Tick \/ UNCHANGED timesVars
    BY <1>1, <1>10 DEF Tick, timesVars, queueVars
  <1>. QED BY <1>2, <1>3, <1>4, <1>5, <1>6, <1>7, <1>8, <1>9, <1>10
         DEF TimesNext, IoListener, Quiet

\* They have their types at the start.
LEMMA TimesTypeInitially == TimesInit => TimesTypeOK
  <1> SUFFICES ASSUME TimesInit PROVE TimesTypeOK
    OBVIOUS
  <1>1. sem \in [Semaphores -> Nat]
    BY TimesAssumption DEF TimesInit
  <1>2. CpuTimesOK
    BY <1>1, SetsAssumption, TimesAssumption DEF TimesInit, CpuTimesOK, PcbTimes
  <1>3. IoTimesOK
    BY DEF TimesInit, IoTimesOK, Idle, IoTimes
  <1>4. new_q \in Seq(Processes)
    <2>1. Cardinality(Processes) \in Nat
      BY ProcessesAssumption, FS_CardinalityType
    <2>2. new_q \in [1 .. Cardinality(Processes) -> Processes]
      BY DEF TimesInit, SetToSeqs
    <2>. QED BY <2>1, <2>2
  <1>5. AdmissionOK
    BY <1>4 DEF TimesInit, AdmissionOK, NotCalled, Calls, Callers
  <1>. QED BY <1>2, <1>3, <1>5 DEF TimesTypeOK

-----------------------------------------------------------------------------
(* The CPU has one process at a time. *)

\* cpu_free is up when nobody has the CPU, and to_exec, which has taken it, finds the CPU
\* empty.  execution_mutex has one holder.
CpuInv ==
    /\ sem["cpu_free"] = IF cpu = NoProcess /\ to_exec # "execution_mutex" THEN 1 ELSE 0
    /\ to_exec = "execution_mutex" => cpu = NoProcess
    /\ \A t \in Callers : call[t].at = "interrupt_ready" => to_exec # "gettimeofday"

\* A step that posts or takes another semaphore leaves cpu_free alone.
LEMMA CpuFreeKept ==
  ASSUME sem \in [Semaphores -> Nat], NEW s \in Semaphores \ {"cpu_free"}, Post(s) \/ Wait(s)
  PROVE  sem'["cpu_free"] = sem["cpu_free"]
  BY DEF Post, Wait, Semaphores

\* Every step keeps it.
LEMMA CpuInvStep ==
  ASSUME TimesTypeOK, CpuInv, [TimesNext]_timesVars
  PROVE  CpuInv'
  <1>0. /\ sem \in [Semaphores -> Nat] /\ cpu \in Processes \cup {NoProcess}
        /\ "cpu_free" \in Semaphores /\ NoProcess \notin Processes
        /\ call \in [Callers -> Calls] /\ "to_ready" \in Callers /\ "io_listener" \in Callers
    BY ProcessesAssumption DEF TimesTypeOK, CpuTimesOK, AdmissionOK, Semaphores, Callers
  <1>1. CASE UNCHANGED <<sem, cpu, to_exec, call>>
    BY <1>1 DEF CpuInv
  <1>2. ASSUME NEW t \in Callers, PutToReady(t) PROVE CpuInv'
    <2>1. sem'["cpu_free"] = sem["cpu_free"]
      BY <1>0, <1>2, CpuFreeKept DEF PutToReady, Semaphores
    <2>2. /\ UNCHANGED <<cpu, to_exec>>
          /\ \A u \in Callers : call'[u] = call[u] \/ call'[u] = NotCalled
      BY <1>0, <1>2 DEF PutToReady
    <2>. QED BY <2>1, <2>2 DEF CpuInv, NotCalled
  <1>3. ASSUME NEW t \in Callers, PutToReady_Interrupt(t) PROVE CpuInv'
    <2>1. /\ UNCHANGED <<sem, cpu, to_exec>> /\ to_exec # "gettimeofday"
      BY <1>3 DEF PutToReady_Interrupt, MutexFree
    <2>. QED BY <2>1 DEF CpuInv
  <1>4. ASSUME NEW t \in Callers, PutToReady_Resume(t) PROVE CpuInv'
    <2>1. sem'["cpu_free"] = sem["cpu_free"]
      BY <1>0, <1>4 DEF PutToReady_Resume, Semaphores
    <2>2. /\ UNCHANGED <<cpu, to_exec>>
          /\ \A u \in Callers : call'[u] = call[u] \/ call'[u] = NotCalled
      BY <1>0, <1>4 DEF PutToReady_Resume
    <2>. QED BY <2>1, <2>2 DEF CpuInv, NotCalled
  <1>5. CASE ToReady \/ NewToReady
    <2>1. sem'["cpu_free"] = sem["cpu_free"]
      BY <1>0, <1>5, CpuFreeKept DEF ToReady, NewToReady, Semaphores
    <2>2. /\ UNCHANGED <<cpu, to_exec>>
          /\ \A u \in Callers : call'[u] = call[u] \/ call'[u].at = "execution_mutex"
      BY <1>0, <1>5 DEF ToReady, NewToReady, PutToReady_Call
    <2>. QED BY <2>1, <2>2 DEF CpuInv
  <1>6. CASE ToExec_Wait
    <2>1. /\ sem["cpu_free"] > 0 /\ sem'["cpu_free"] = sem["cpu_free"] - 1
          /\ to_exec' = "execution_mutex" /\ UNCHANGED <<cpu, call>>
      BY <1>0, <1>6 DEF ToExec_Wait, Semaphores
    <2>. QED BY <2>1 DEF CpuInv
  <1>7. ASSUME NEW p \in Processes, ToExec_Send(p) PROVE CpuInv'
    <2>1. /\ to_exec = "execution_mutex" /\ to_exec' = "gettimeofday" /\ cpu' = p
          /\ UNCHANGED <<sem, call>>
          /\ \A t \in Callers : call[t].at # "interrupt_ready"
      BY <1>7 DEF ToExec_Send, MutexFree
    <2>. QED BY <1>0, <2>1 DEF CpuInv
  <1>8. CASE ToExec_Stamp
    BY <1>8 DEF ToExec_Stamp, CpuInv
  <1>9. CASE HandleInterruption \/ IoOp \/ ExitOp
    <2>1. /\ cpu # NoProcess /\ cpu' = NoProcess /\ UNCHANGED <<to_exec, call>>
          /\ sem'["cpu_free"] = sem["cpu_free"] + 1
      BY <1>0, <1>9 DEF HandleInterruption, IoOp, ExitOp, Post, Semaphores
    <2>. QED BY <2>1 DEF CpuInv
  <1>10. CASE MemoryAnswers
    <2>1. sem'["cpu_free"] = sem["cpu_free"]
      BY <1>0, <1>10, AnsweredIs, CpuFreeKept DEF MemoryAnswers
    <2>. QED BY <1>10, <2>1 DEF MemoryAnswers, CpuInv
  <1>11. CASE IoListener_Wait
    <2>1. sem'["cpu_free"] = sem["cpu_free"]
      BY <1>0, <1>11 DEF IoListener_Wait, Semaphores
    <2>. QED BY <1>11, <2>1 DEF IoListener_Wait, CpuInv
  <1>12. CASE IoListener_Finish
    <2>1. \A u \in Callers : call'[u] = call[u] \/ call'[u].at = "execution_mutex"
      BY <1>0, <1>12 DEF IoListener_Finish, PutToReady_Call
    <2>. QED BY <1>12, <2>1 DEF IoListener_Finish, CpuInv
  <1>13. CASE \/ ExitProcess \/ IoListener_Take \/ IoListener_Suspend
              \/ IoListener_TakeSuspended \/ IoListener_FinishSuspended
    BY <1>1, <1>13 DEF ExitProcess, IoListener_Take, IoListener_Suspend,
       IoListener_TakeSuspended, IoListener_FinishSuspended
  <1>14. CASE Tick \/ UNCHANGED timesVars
    BY <1>1, <1>14 DEF Tick, timesVars
  <1>. QED BY <1>2, <1>3, <1>4, <1>5, <1>6, <1>7, <1>8, <1>9, <1>10, <1>11, <1>12, <1>13, <1>14
         DEF TimesNext, IoListener, Quiet

\* It holds at the start.
LEMMA CpuInvInitially == TimesInit => CpuInv
  BY DEF TimesInit, CpuInv, Semaphores, NotCalled

-----------------------------------------------------------------------------
(* Every process is in one place. *)

\* io_listener has a process.
Occupied == io.at # "process_for_IO"

\* The calls of put_to_ready are named for their callers; new_pcb waits for its tables.
Places == Callers \cup {"ready", "cpu", "io", "new_pcb", "new_q", "blocked_q",
                        "suspended_block_q", "suspended_ready_q"}

Place ==
    [ready |-> ready, cpu |-> {cpu} \ {NoProcess},
     io |-> IF Occupied THEN {io.process} ELSE {},
     to_ready |-> {call["to_ready"].process} \ {NoProcess},
     io_listener |-> {call["io_listener"].process} \ {NoProcess},
     new_pcb |-> {to_ready} \ {NoProcess},
     new_q |-> Range(new_q), blocked_q |-> Range(blocked_q),
     suspended_block_q |-> Range(suspended_block_q),
     suspended_ready_q |-> Range(suspended_ready_q)]

\* No two of the sets share a process.
Disjoint(P) == \A j, k \in Places : j # k => P[j] \cap P[k] = {}

\* A process is in the queue once.
Once(q) == \A i, j \in DOMAIN q : q[i] = q[j] => i = j

Apart ==
    /\ Disjoint(Place)
    /\ Once(new_q) /\ Once(blocked_q) /\ Once(suspended_block_q) /\ Once(suspended_ready_q)

\* The processes that have not left.
Present == {p \in Processes : \E k \in Places : p \in Place[k]}

\* From P to Q the process x goes from one place to another, or nobody goes anywhere
\* but away.
Moves(P, Q, x, from, to) ==
    /\ x \in P[from] /\ x \notin Q[from] /\ Q[from] \subseteq P[from]
    /\ Q[to] \subseteq P[to] \cup {x}
    /\ \A k \in Places \ {from, to} : Q[k] \subseteq P[k]

Shrinks(P, Q) == \A k \in Places : Q[k] \subseteq P[k]

\* Then no two share a process afterwards, and nobody is new.
LEMMA Moved ==
  ASSUME NEW P, NEW Q, NEW x, NEW from \in Places, NEW to \in Places, from # to,
         Disjoint(P), Moves(P, Q, x, from, to)
  PROVE  /\ Disjoint(Q)
         /\ \A p : (\E k \in Places : p \in Q[k]) => \E k \in Places : p \in P[k]
  <1>1. \A k \in Places : Q[k] \subseteq P[k] \cup {x} /\ (x \in Q[k] => k = to)
    <2>1. ASSUME NEW k \in Places, k # from, k # to
          PROVE  Q[k] \subseteq P[k] /\ x \notin P[k]
      BY <2>1 DEF Moves, Disjoint
    <2>. QED BY <2>1 DEF Moves
  <1>2. ASSUME NEW j \in Places, NEW k \in Places, j # k PROVE Q[j] \cap Q[k] = {}
    <2>1. P[j] \cap P[k] = {}
      BY <1>2 DEF Disjoint
    <2>. QED BY <1>1, <1>2, <2>1
  <1>. QED BY <1>1, <1>2 DEF Disjoint, Moves

\* The same when nobody goes anywhere but away.
LEMMA Shrunk ==
  ASSUME NEW P, NEW Q, Disjoint(P), Shrinks(P, Q)
  PROVE  /\ Disjoint(Q)
         /\ \A p : (\E k \in Places : p \in Q[k]) => \E k \in Places : p \in P[k]
  BY DEF Disjoint, Shrinks

\* The first of a queue leaves it.
LEMMA TailOnce ==
  ASSUME NEW q \in Seq(Processes), q # <<>>, Once(q)
  PROVE  /\ Head(q) \in Range(q) /\ Head(q) \notin Range(Tail(q))
         /\ Range(Tail(q)) \subseteq Range(q) /\ Once(Tail(q)) /\ Tail(q) \in Seq(Processes)
  <1>1. /\ Len(q) \in Nat /\ Len(q) > 0 /\ Head(q) = q[1] /\ DOMAIN q = 1 .. Len(q)
        /\ Tail(q) \in Seq(Processes)
        /\ DOMAIN Tail(q) = 1 .. Len(q) - 1
        /\ \A i \in 1 .. Len(q) - 1 : Tail(q)[i] = q[i + 1]
    OBVIOUS
  <1>2. Head(q) \in Range(q)
    BY <1>1 DEF Range
  <1>3. \A i \in DOMAIN Tail(q) : i + 1 \in DOMAIN q /\ i + 1 # 1 /\ Tail(q)[i] = q[i + 1]
    BY <1>1
  <1>4. Range(Tail(q)) \subseteq Range(q)
    BY <1>3 DEF Range
  <1>5. Head(q) \notin Range(Tail(q))
    BY <1>1, <1>3 DEF Range, Once
  <1>6. Once(Tail(q))
    BY <1>1, <1>3 DEF Once
  <1>. QED BY <1>1, <1>2, <1>4, <1>5, <1>6

\* Somebody enters at its end.
LEMMA AppendOnce ==
  ASSUME NEW q \in Seq(Processes), NEW p \in Processes
  PROVE  /\ Range(Append(q, p)) = Range(q) \cup {p}
         /\ Once(q) /\ p \notin Range(q) => Once(Append(q, p))
  <1>1. /\ Len(q) \in Nat /\ DOMAIN q = 1 .. Len(q)
        /\ DOMAIN Append(q, p) = 1 .. Len(q) + 1
        /\ Append(q, p)[Len(q) + 1] = p
        /\ \A i \in 1 .. Len(q) : Append(q, p)[i] = q[i]
    OBVIOUS
  <1>2. 1 .. Len(q) + 1 = 1 .. Len(q) \cup {Len(q) + 1}
    BY <1>1
  <1>3. Range(Append(q, p)) = Range(q) \cup {p}
    BY <1>1, <1>2 DEF Range
  <1>4. ASSUME Once(q), p \notin Range(q) PROVE Once(Append(q, p))
    <2>1. \A i \in 1 .. Len(q) : q[i] # p
      BY <1>1, <1>4 DEF Range
    <2>. QED BY <1>1, <1>2, <1>4, <2>1 DEF Once
  <1>. QED BY <1>3, <1>4

\* A step that takes nobody anywhere, or away.
LEMMA ApartKept ==
  ASSUME Apart, Shrinks(Place, Place'), UNCHANGED <<new_q, blocked_q, suspended_block_q,
                                                    suspended_ready_q>>
  PROVE  Apart' /\ Present' \subseteq Present
  <1>1. Disjoint(Place')
    BY Shrunk DEF Apart
  <1>2. \A p : (\E k \in Places : p \in Place'[k]) => \E k \in Places : p \in Place[k]
    BY Shrunk DEF Apart
  <1>. QED BY <1>1, <1>2 DEF Apart, Disjoint, Present

\* A step that takes a process from one place to another.
LEMMA ApartMoved ==
  ASSUME Apart, NEW x, NEW from \in Places, NEW to \in Places, from # to,
         Moves(Place, Place', x, from, to),
         Once(new_q)', Once(blocked_q)', Once(suspended_block_q)', Once(suspended_ready_q)'
  PROVE  Apart' /\ Present' \subseteq Present
  <1>1. Disjoint(Place')
    BY Moved DEF Apart
  <1>2. \A p : (\E k \in Places : p \in Place'[k]) => \E k \in Places : p \in Place[k]
    BY Moved DEF Apart
  <1>. QED BY <1>1, <1>2 DEF Apart, Disjoint, Present

\* Who is where.
LEMMA PlaceTypes ==
  ASSUME TimesTypeOK
  PROVE  /\ NoProcess \notin Processes /\ ready \subseteq Processes
         /\ cpu \in Processes \cup {NoProcess} /\ to_ready \in Processes \cup {NoProcess}
         /\ (Occupied => io.process \in Processes)
         /\ new_q \in Seq(Processes) /\ blocked_q \in Seq(Processes)
         /\ suspended_block_q \in Seq(Processes) /\ suspended_ready_q \in Seq(Processes)
         /\ "to_ready" \in DOMAIN call /\ "io_listener" \in DOMAIN call
         /\ call \in [Callers -> Calls]
  BY ProcessesAssumption
     DEF TimesTypeOK, CpuTimesOK, IoTimesOK, AdmissionOK, Occupied, Callers

\* put_to_ready puts the process in ready_q, and may wait afterwards.
LEMMA PutToReady_Apart ==
  ASSUME TimesTypeOK, Apart, NEW t \in Callers, PutToReady(t) \/ PutToReady_Interrupt(t)
  PROVE  Apart' /\ Present' \subseteq Present
  <1> DEFINE x == call[t].process
  <1>1. x \in Processes /\ x # NoProcess
    BY PlaceTypes DEF PutToReady, PutToReady_Interrupt, TimesTypeOK, AdmissionOK
  <1>2. /\ UNCHANGED <<new_q, blocked_q, suspended_block_q, suspended_ready_q, cpu, io, to_ready>>
        /\ ready' = ready \cup {x}
        /\ call'[t].process = NoProcess
        /\ \A u \in Callers \ {t} : call'[u] = call[u]
    BY PlaceTypes DEF PutToReady, PutToReady_Interrupt, queueVars, NotCalled
  <1> HIDE DEF x
  <1>3. Moves(Place, Place', x, t, "ready")
    <2>1. CASE t = "to_ready"
      <3>1. call["to_ready"].process = x /\ call'["to_ready"].process = NoProcess
            /\ call'["io_listener"] = call["io_listener"]
        BY <1>2, <2>1 DEF Callers, x
      <3>. QED BY <1>1, <1>2, <2>1, <3>1 DEF Moves, Place, Places, Callers, Occupied
    <2>2. CASE t = "io_listener"
      <3>1. call["io_listener"].process = x /\ call'["io_listener"].process = NoProcess
            /\ call'["to_ready"] = call["to_ready"]
        BY <1>2, <2>2 DEF Callers, x
      <3>. QED BY <1>1, <1>2, <2>2, <3>1 DEF Moves, Place, Places, Callers, Occupied
    <2>. QED BY <2>1, <2>2 DEF Callers
  <1>4. t \in Places /\ "ready" \in Places /\ t # "ready"
    BY DEF Places, Callers
  <1>5. Once(new_q)' /\ Once(blocked_q)' /\ Once(suspended_block_q)' /\ Once(suspended_ready_q)'
    BY <1>2 DEF Apart, Once
  <1>. QED BY <1>3, <1>4, <1>5, ApartMoved

\* put_to_ready returns: its process has long been ready.
LEMMA PutToReady_Resume_Apart ==
  ASSUME TimesTypeOK, Apart, NEW t \in Callers, PutToReady_Resume(t)
  PROVE  Apart' /\ Present' \subseteq Present
  <1>1. /\ UNCHANGED <<new_q, blocked_q, suspended_block_q, suspended_ready_q, cpu, io, to_ready,
                       ready>>
        /\ \A u \in Callers : call'[u] = call[u] \/ call'[u].process = NoProcess
    BY PlaceTypes DEF PutToReady_Resume, queueVars, NotCalled
  <1>2. Shrinks(Place, Place')
    BY <1>1 DEF Shrinks, Place, Places, Callers, Occupied
  <1>. QED BY <1>1, <1>2, ApartKept

\* to_ready takes a suspended process into put_to_ready, or a new one to wait.
LEMMA ToReady_Apart ==
  ASSUME TimesTypeOK, Apart, ToReady
  PROVE  Apart' /\ Present' \subseteq Present
  <1>1. /\ UNCHANGED <<blocked_q, suspended_block_q, cpu, io, ready>>
        /\ to_ready = NoProcess /\ call["to_ready"].process = NoProcess
    BY DEF ToReady, NotCalled
  <1>2. Once(blocked_q)' /\ Once(suspended_block_q)'
    BY <1>1 DEF Apart, Once
  <1>3. CASE /\ suspended_ready_q # <<>>
             /\ PutToReady_Call("to_ready", Head(suspended_ready_q))
             /\ suspended_ready_q' = Tail(suspended_ready_q)
             /\ UNCHANGED <<new_q, to_ready, memory>>
    <2>1. /\ Head(suspended_ready_q) \in Range(suspended_ready_q)
          /\ Head(suspended_ready_q) \notin Range(Tail(suspended_ready_q))
          /\ Range(Tail(suspended_ready_q)) \subseteq Range(suspended_ready_q)
          /\ Once(Tail(suspended_ready_q))
      BY <1>3, PlaceTypes, TailOnce DEF Apart
    <2>2. /\ call'["to_ready"].process = Head(suspended_ready_q)
          /\ call'["io_listener"] = call["io_listener"]
      BY <1>3, PlaceTypes DEF PutToReady_Call
    <2>3. Moves(Place, Place', Head(suspended_ready_q), "suspended_ready_q", "to_ready")
      BY <1>1, <1>3, <2>1, <2>2 DEF Moves, Place, Places, Callers, Occupied
    <2>4. Once(new_q)' /\ Once(suspended_ready_q)'
      BY <1>3, <2>1 DEF Apart, Once
    <2>. QED BY <1>2, <2>3, <2>4, ApartMoved DEF Places, Callers
  <1>4. CASE /\ new_q # <<>> /\ to_ready' = Head(new_q) /\ new_q' = Tail(new_q)
             /\ UNCHANGED <<suspended_ready_q, call>>
    <2>1. /\ Head(new_q) \in Range(new_q) /\ Head(new_q) \notin Range(Tail(new_q))
          /\ Range(Tail(new_q)) \subseteq Range(new_q) /\ Once(Tail(new_q))
      BY <1>4, PlaceTypes, TailOnce DEF Apart
    <2>2. Moves(Place, Place', Head(new_q), "new_q", "new_pcb")
      BY <1>1, <1>4, <2>1 DEF Moves, Place, Places, Callers, Occupied
    <2>3. Once(new_q)' /\ Once(suspended_ready_q)'
      BY <1>4, <2>1 DEF Apart, Once
    <2>. QED BY <1>2, <2>2, <2>3, ApartMoved DEF Places, Callers
  <1>. QED BY <1>3, <1>4 DEF ToReady

\* The tables are there: the new process goes into put_to_ready.
LEMMA NewToReady_Apart ==
  ASSUME TimesTypeOK, Apart, NewToReady
  PROVE  Apart' /\ Present' \subseteq Present
  <1>1. /\ UNCHANGED <<new_q, blocked_q, suspended_block_q, suspended_ready_q, cpu, io, ready>>
        /\ to_ready # NoProcess /\ to_ready' = NoProcess
        /\ call'["to_ready"].process = to_ready /\ call'["io_listener"] = call["io_listener"]
    BY PlaceTypes DEF NewToReady, PutToReady_Call, queueVars
  <1>2. Moves(Place, Place', to_ready, "new_pcb", "to_ready")
    BY <1>1 DEF Moves, Place, Places, Callers, Occupied
  <1>3. Once(new_q)' /\ Once(blocked_q)' /\ Once(suspended_block_q)' /\ Once(suspended_ready_q)'
    BY <1>1 DEF Apart, Once
  <1>. QED BY <1>2, <1>3, ApartMoved DEF Places, Callers

\* A process is sent to the CPU.
LEMMA ToExec_Send_Apart ==
  ASSUME TimesTypeOK, CpuInv, Apart, NEW p \in Processes, ToExec_Send(p)
  PROVE  Apart' /\ Present' \subseteq Present
  <1>1. /\ UNCHANGED <<new_q, blocked_q, suspended_block_q, suspended_ready_q, io, call, to_ready>>
        /\ p \in ready /\ ready' = ready \ {p} /\ cpu' = p /\ cpu = NoProcess
    BY DEF ToExec_Send, queueVars, CpuInv
  <1>2. Moves(Place, Place', p, "ready", "cpu")
    BY <1>1 DEF Moves, Place, Places, Callers, Occupied
  <1>3. Once(new_q)' /\ Once(blocked_q)' /\ Once(suspended_block_q)' /\ Once(suspended_ready_q)'
    BY <1>1 DEF Apart, Once
  <1>. QED BY <1>2, <1>3, ApartMoved DEF Places, Callers

\* The process comes back interrupted.
LEMMA HandleInterruption_Apart ==
  ASSUME TimesTypeOK, Apart, HandleInterruption
  PROVE  Apart' /\ Present' \subseteq Present
  <1>1. /\ UNCHANGED <<new_q, blocked_q, suspended_block_q, suspended_ready_q, io, call, to_ready>>
        /\ cpu # NoProcess /\ ready' = ready \cup {cpu} /\ cpu' = NoProcess
    BY DEF HandleInterruption, queueVars
  <1>2. Moves(Place, Place', cpu, "cpu", "ready")
    BY <1>1 DEF Moves, Place, Places, Callers, Occupied
  <1>3. Once(new_q)' /\ Once(blocked_q)' /\ Once(suspended_block_q)' /\ Once(suspended_ready_q)'
    BY <1>1 DEF Apart, Once
  <1>. QED BY <1>2, <1>3, ApartMoved DEF Places, Callers

\* It blocks.
LEMMA IoOp_Apart ==
  ASSUME TimesTypeOK, Apart, IoOp
  PROVE  Apart' /\ Present' \subseteq Present
  <1>1. /\ UNCHANGED <<new_q, suspended_block_q, suspended_ready_q, io, call, to_ready, ready>>
        /\ cpu \in Processes /\ cpu # NoProcess /\ cpu' = NoProcess
        /\ blocked_q' = Append(blocked_q, cpu)
    BY PlaceTypes DEF IoOp
  <1>2. cpu \notin Range(blocked_q)
    <2>1. Place["cpu"] \cap Place["blocked_q"] = {}
      BY DEF Apart, Disjoint, Places
    <2>. QED BY <1>1, <2>1 DEF Place
  <1>3. Range(blocked_q') = Range(blocked_q) \cup {cpu} /\ Once(blocked_q')
    BY <1>1, <1>2, PlaceTypes, AppendOnce DEF Apart
  <1>4. Moves(Place, Place', cpu, "cpu", "blocked_q")
    BY <1>1, <1>3 DEF Moves, Place, Places, Callers, Occupied
  <1>5. Once(new_q)' /\ Once(blocked_q)' /\ Once(suspended_block_q)' /\ Once(suspended_ready_q)'
    BY <1>1, <1>3 DEF Apart, Once
  <1>. QED BY <1>4, <1>5, ApartMoved DEF Places, Callers

\* It exits, and is nowhere.
LEMMA ExitOp_Apart ==
  ASSUME TimesTypeOK, Apart, ExitOp
  PROVE  Apart' /\ Present' \subseteq Present \ {cpu}
  <1>1. /\ UNCHANGED <<new_q, blocked_q, suspended_block_q, suspended_ready_q, io, call, to_ready,
                       ready>>
        /\ cpu # NoProcess /\ cpu' = NoProcess
    BY DEF ExitOp
  <1>2. Shrinks(Place, Place')
    BY <1>1 DEF Shrinks, Place, Places, Callers, Occupied
  <1>3. Apart' /\ Present' \subseteq Present
    BY <1>1, <1>2, ApartKept
  <1>4. ASSUME NEW k \in Places PROVE cpu \notin Place'[k]
    <2>1. "cpu" \in Places /\ cpu \in Place["cpu"] /\ cpu \notin Place'["cpu"]
      BY <1>1 DEF Places, Place
    <2>2. k # "cpu" => cpu \notin Place[k]
      BY <2>1 DEF Apart, Disjoint
    <2>. QED BY <1>2, <2>1, <2>2 DEF Shrinks
  <1>5. cpu \notin Present'
    BY <1>4 DEF Present
  <1>. QED BY <1>3, <1>5

\* io_listener takes a process from one of its queues.
LEMMA IoListener_Take_Apart ==
  ASSUME TimesTypeOK, Apart, IoListener_Take \/ IoListener_TakeSuspended
  PROVE  Apart' /\ Present' \subseteq Present
  <1>1. /\ UNCHANGED <<new_q, suspended_ready_q, cpu, call, to_ready, ready>> /\ ~Occupied
    BY DEF IoListener_Take, IoListener_TakeSuspended, IoIdle, Occupied
  <1>2. CASE IoListener_Take
    <2>1. blocked_q # <<>> /\ blocked_q' = Tail(blocked_q) /\ UNCHANGED suspended_block_q
      BY <1>2 DEF IoListener_Take
    <2>2. io'.process = Head(blocked_q)
      BY <1>2, TakeSleeps, SleepType DEF CpuTimesOK, TimesTypeOK
    <2>3. /\ Head(blocked_q) \in Range(blocked_q) /\ Head(blocked_q) \notin Range(Tail(blocked_q))
          /\ Range(Tail(blocked_q)) \subseteq Range(blocked_q) /\ Once(Tail(blocked_q))
      BY <2>1, PlaceTypes, TailOnce DEF Apart
    <2>4. Moves(Place, Place', Head(blocked_q), "blocked_q", "io")
      BY <1>1, <2>1, <2>2, <2>3 DEF Moves, Place, Places, Callers
    <2>5. Once(new_q)' /\ Once(blocked_q)' /\ Once(suspended_block_q)' /\ Once(suspended_ready_q)'
      BY <1>1, <2>1, <2>3 DEF Apart, Once
    <2>. QED BY <2>4, <2>5, ApartMoved DEF Places, Callers
  <1>3. CASE IoListener_TakeSuspended
    <2>1. /\ suspended_block_q # <<>> /\ suspended_block_q' = Tail(suspended_block_q)
          /\ UNCHANGED blocked_q
      BY <1>3 DEF IoListener_TakeSuspended
    <2>2. io'.process = Head(suspended_block_q)
      BY <1>3 DEF IoListener_TakeSuspended, Sleep
    <2>3. /\ Head(suspended_block_q) \in Range(suspended_block_q)
          /\ Head(suspended_block_q) \notin Range(Tail(suspended_block_q))
          /\ Range(Tail(suspended_block_q)) \subseteq Range(suspended_block_q)
          /\ Once(Tail(suspended_block_q))
      BY <2>1, PlaceTypes, TailOnce DEF Apart
    <2>4. Moves(Place, Place', Head(suspended_block_q), "suspended_block_q", "io")
      BY <1>1, <2>1, <2>2, <2>3 DEF Moves, Place, Places, Callers
    <2>5. Once(new_q)' /\ Once(blocked_q)' /\ Once(suspended_block_q)' /\ Once(suspended_ready_q)'
      BY <1>1, <2>1, <2>3 DEF Apart, Once
    <2>. QED BY <2>4, <2>5, ApartMoved DEF Places, Callers
  <1>. QED BY <1>2, <1>3

\* It calls put_to_ready for it.
LEMMA IoListener_Finish_Apart ==
  ASSUME TimesTypeOK, Apart, IoListener_Finish
  PROVE  Apart' /\ Present' \subseteq Present
  <1>1. /\ UNCHANGED <<new_q, blocked_q, suspended_block_q, suspended_ready_q, cpu, to_ready,
                       ready>>
        /\ Occupied /\ ~Occupied'
        /\ call'["io_listener"].process = io.process /\ call'["to_ready"] = call["to_ready"]
    BY PlaceTypes DEF IoListener_Finish, PutToReady_Call, queueVars, Occupied, Idle
  <1>2. Moves(Place, Place', io.process, "io", "io_listener")
    BY <1>1 DEF Moves, Place, Places, Callers
  <1>3. Once(new_q)' /\ Once(blocked_q)' /\ Once(suspended_block_q)' /\ Once(suspended_ready_q)'
    BY <1>1 DEF Apart, Once
  <1>. QED BY <1>2, <1>3, ApartMoved DEF Places, Callers

\* It puts the process in a queue.
LEMMA IoListener_Put_Apart ==
  ASSUME TimesTypeOK, Apart, IoListener_Wait \/ IoListener_FinishSuspended
  PROVE  Apart' /\ Present' \subseteq Present
  <1>1. /\ UNCHANGED <<new_q, blocked_q, cpu, call, to_ready, ready>>
        /\ Occupied /\ ~Occupied'
    BY DEF IoListener_Wait, IoListener_FinishSuspended, Occupied, Idle
  <1>2. PICK p \in Processes : p = io.process
    BY <1>1, PlaceTypes
  <1>3. CASE IoListener_Wait
    <2>1. suspended_block_q' = Append(suspended_block_q, p) /\ UNCHANGED suspended_ready_q
      BY <1>2, <1>3 DEF IoListener_Wait
    <2>2. p \notin Range(suspended_block_q)
      BY <1>1, <1>2 DEF Apart, Disjoint, Place, Places
    <2>3. /\ Range(suspended_block_q') = Range(suspended_block_q) \cup {p}
          /\ Once(suspended_block_q')
      BY <2>1, <2>2, PlaceTypes, AppendOnce DEF Apart
    <2>4. Moves(Place, Place', p, "io", "suspended_block_q")
      BY <1>1, <1>2, <2>1, <2>3 DEF Moves, Place, Places, Callers
    <2>5. Once(new_q)' /\ Once(blocked_q)' /\ Once(suspended_block_q)' /\ Once(suspended_ready_q)'
      BY <1>1, <2>1, <2>3 DEF Apart, Once
    <2>. QED BY <2>4, <2>5, ApartMoved DEF Places, Callers
  <1>4. CASE IoListener_FinishSuspended
    <2>1. suspended_ready_q' = Append(suspended_ready_q, p) /\ UNCHANGED suspended_block_q
      BY <1>2, <1>4 DEF IoListener_FinishSuspended
    <2>2. p \notin Range(suspended_ready_q)
      BY <1>1, <1>2 DEF Apart, Disjoint, Place, Places
    <2>3. /\ Range(suspended_ready_q') = Range(suspended_ready_q) \cup {p}
          /\ Once(suspended_ready_q')
      BY <2>1, <2>2, PlaceTypes, AppendOnce DEF Apart
    <2>4. Moves(Place, Place', p, "io", "suspended_ready_q")
      BY <1>1, <1>2, <2>1, <2>3 DEF Moves, Place, Places, Callers
    <2>5. Once(new_q)' /\ Once(blocked_q)' /\ Once(suspended_block_q)' /\ Once(suspended_ready_q)'
      BY <1>1, <2>1, <2>3 DEF Apart, Once
    <2>. QED BY <2>4, <2>5, ApartMoved DEF Places, Callers
  <1>. QED BY <1>3, <1>4

\* Whatever happens, every process is in one place, and nobody comes back who has left.
LEMMA ApartStep ==
  ASSUME TimesTypeOK, CpuInv, Apart, [TimesNext]_timesVars
  PROVE  Apart' /\ Present' \subseteq Present
  <1>1. ASSUME UNCHANGED <<new_q, blocked_q, suspended_block_q, suspended_ready_q, cpu, call,
                           to_ready, ready>>,
               io'.process = io.process, Occupied' = Occupied
        PROVE  Apart' /\ Present' \subseteq Present
    <2>1. Shrinks(Place, Place')
      BY <1>1 DEF Shrinks, Place, Places, Callers
    <2>. QED BY <1>1, <2>1, ApartKept
  <1>2. CASE ToExec_Wait \/ ToExec_Stamp \/ ExitProcess \/ MemoryAnswers
    BY <1>1, <1>2 DEF ToExec_Wait, ToExec_Stamp, ExitProcess, MemoryAnswers, queueVars, Occupied
  <1>3. CASE IoListener_Suspend
    <2>1. io'.process = io.process /\ Occupied' = Occupied
      BY <1>3 DEF IoListener_Suspend, Occupied, TimesTypeOK, IoTimesOK, IoTimes
    <2>. QED BY <1>1, <1>3, <2>1 DEF IoListener_Suspend, queueVars
  <1>4. CASE Tick \/ UNCHANGED timesVars
    BY <1>1, <1>4 DEF Tick, timesVars, queueVars, Occupied
  <1>. QED BY <1>2, <1>3, <1>4, PutToReady_Apart, PutToReady_Resume_Apart, ToReady_Apart,
         NewToReady_Apart, ToExec_Send_Apart, HandleInterruption_Apart, IoOp_Apart, ExitOp_Apart,
         IoListener_Take_Apart, IoListener_Finish_Apart, IoListener_Put_Apart
         DEF TimesNext, IoListener, Quiet

\* Every process is new at the start.
LEMMA ApartInitially == TimesInit => Apart
  <1> SUFFICES ASSUME TimesInit PROVE Apart
    OBVIOUS
  <1>1. /\ cpu = NoProcess /\ to_ready = NoProcess /\ ready = {} /\ ~Occupied
        /\ blocked_q = <<>> /\ suspended_block_q = <<>> /\ suspended_ready_q = <<>>
        /\ call["to_ready"].process = NoProcess /\ call["io_listener"].process = NoProcess
    BY DEF TimesInit, Occupied, Idle, NotCalled, Callers
  <1>2. /\ Range(blocked_q) = {} /\ Range(suspended_block_q) = {} /\ Range(suspended_ready_q) = {}
        /\ Once(blocked_q) /\ Once(suspended_block_q) /\ Once(suspended_ready_q)
    BY <1>1 DEF Range, Once
  <1>3. Once(new_q)
    BY DEF TimesInit, SetToSeqs, Once
  <1>4. \A k \in Places \ {"new_q"} : Place[k] = {}
    BY <1>1, <1>2 DEF Place, Places, Callers
  <1>5. Disjoint(Place)
    BY <1>4 DEF Disjoint
  <1>. QED BY <1>2, <1>3, <1>5 DEF Apart
-----------------------------------------------------------------------------
(* The length of a burst. *)

\* What a process has executed of its burst, for the kernel's arithmetic.
Executed(p) == pcb[p].burst_estimation - pcb[p].left_burst_estimation

\* to_exec has read the clock for the process in the CPU.
Stamped(p) == p = cpu /\ to_exec # "gettimeofday"

\* For a process that has not left it is what it really executed, up to the last dispatch
\* for the one in the CPU: before to_exec has read the clock it has executed nothing since.
MeasureInv ==
    \A p \in Present :
        /\ ~Stamped(p) => Same(Executed(p), ran[p])
        /\ Stamped(p) => Same(Executed(p) + (now - toExecTime), ran[p])
        /\ ran[p] <= MaxRun

BurstInv == TimesTypeOK /\ CpuInv /\ Apart /\ MeasureInv

\* The process in the CPU has not left.
LEMMA CpuPresent ==
  ASSUME TimesTypeOK, cpu # NoProcess
  PROVE  cpu \in Present /\ cpu \in Processes
  <1>1. cpu \in Processes
    BY DEF TimesTypeOK, CpuTimesOK
  <1>2. "cpu" \in Places /\ cpu \in Place["cpu"]
    BY DEF Places, Place
  <1>. QED BY <1>1, <1>2 DEF Present

\* Nobody is present but a process.
LEMMA PresentProcesses == Present \subseteq Processes
  BY DEF Present

\* What io_op computes for the length of the burst.
LEMMA RealIs ==
  ASSUME BurstInv, MaxRun < Half, cpu # NoProcess, to_exec # "gettimeofday"
  PROVE  Real(cpu, toExecTime) = ran[cpu]
  <1>1. cpu \in Processes /\ cpu \in Present
    BY CpuPresent DEF BurstInv
  <1> DEFINE be == pcb[cpu].burst_estimation
             left == pcb[cpu].left_burst_estimation
             n == be - Signed(left) + Clock - Signed(toExecTime)
  <1>2. be \in Nat /\ left \in Nat /\ now \in Nat /\ toExecTime \in Nat
    BY <1>1 DEF BurstInv, TimesTypeOK, CpuTimesOK, PcbTimes
  <1>3. /\ Signed(left) \in Int /\ Same(Signed(left), left) /\ Clock \in Int /\ Same(Clock, now)
        /\ Signed(toExecTime) \in Int /\ Same(Signed(toExecTime), toExecTime)
    BY <1>2, SignedIs, HalfFacts, ClockType
  <1>4. /\ Same(be - left + (now - toExecTime), ran[cpu])
        /\ ran[cpu] \in Nat /\ ran[cpu] <= MaxRun
    BY <1>1 DEF BurstInv, MeasureInv, Stamped, Executed, TimesTypeOK, CpuTimesOK
  <1> HIDE DEF be, left
  <1>5. Same(be - Signed(left), be - left)
    BY <1>2, <1>3, SameItself, SameSums
  <1>6. Same(Clock - Signed(toExecTime), now - toExecTime)
    BY <1>2, <1>3, SameSums
  <1>7. Same((be - Signed(left)) + (Clock - Signed(toExecTime)),
             (be - left) + (now - toExecTime))
    BY <1>2, <1>3, <1>5, <1>6, SameSums
  <1>8. n = (be - Signed(left)) + (Clock - Signed(toExecTime)) /\ n \in Int
    BY <1>2, <1>3
  <1>9. Same(n, ran[cpu])
    BY <1>2, <1>4, <1>7, <1>8, SameChain
  <1>10. ran[cpu] \in -Half .. Half - 1
    BY <1>4, HalfFacts, TimesAssumption
  <1>11. Signed(n) = ran[cpu]
    BY <1>8, <1>9, <1>10, SignedIs
  <1>. QED BY <1>11 DEF Real, be, left

\* Steps that neither begin, interrupt nor end a burst, and take no time.
LEMMA MeasureFrame ==
  ASSUME MeasureInv, Present' \subseteq Present, UNCHANGED <<now, toExecTime, cpu, ran>>,
         to_exec' = "gettimeofday" <=> to_exec = "gettimeofday",
         \A p \in Processes :
           /\ pcb'[p].burst_estimation = pcb[p].burst_estimation
           /\ pcb'[p].left_burst_estimation = pcb[p].left_burst_estimation
  PROVE  MeasureInv'
  <1>1. \A p \in Present : Executed(p)' = Executed(p) /\ Stamped(p)' = Stamped(p)
    BY PresentProcesses DEF Executed, Stamped
  <1>2. ASSUME NEW p \in Present
        PROVE  /\ ~Stamped(p) => Same(Executed(p), ran[p])
               /\ Stamped(p) => Same(Executed(p) + (now - toExecTime), ran[p])
               /\ ran[p] <= MaxRun
    BY DEF MeasureInv
  <1>. QED BY <1>1, <1>2 DEF MeasureInv

\* A process is sent: it has executed nothing since.
LEMMA ToExec_Send_Measure ==
  ASSUME BurstInv, Present' \subseteq Present, NEW p \in Processes, ToExec_Send(p)
  PROVE  MeasureInv'
  <1>1. /\ cpu = NoProcess /\ to_exec' = "gettimeofday"
        /\ UNCHANGED <<now, pcb, toExecTime, ran>>
    BY DEF ToExec_Send, truth, BurstInv, CpuInv
  <1>2. ASSUME NEW q \in Present
        PROVE  Executed(q)' = Executed(q) /\ ~Stamped(q) /\ ~Stamped(q)'
    BY <1>1, ProcessesAssumption, PresentProcesses DEF Executed, Stamped
  <1>3. ASSUME NEW q \in Present PROVE Same(Executed(q), ran[q]) /\ ran[q] <= MaxRun
    BY <1>2 DEF BurstInv, MeasureInv
  <1>. QED BY <1>1, <1>2, <1>3 DEF MeasureInv

\* to_exec reads the clock, and no time has passed since the process was sent.
LEMMA ToExec_Stamp_Measure ==
  ASSUME BurstInv, Present' \subseteq Present, ToExec_Stamp
  PROVE  MeasureInv'
  <1>1. /\ to_exec = "gettimeofday" /\ to_exec' = "ready_for_exec" /\ toExecTime' = now
        /\ UNCHANGED <<now, pcb, cpu, ran>> /\ now \in Nat /\ pcb \in [Processes -> PcbTimes]
    BY DEF ToExec_Stamp, truth, BurstInv, TimesTypeOK, CpuTimesOK
  <1>2. ASSUME NEW p \in Present
        PROVE  /\ Executed(p)' = Executed(p) /\ ~Stamped(p)
               /\ Executed(p) + (now - now) = Executed(p)
    BY <1>1, PresentProcesses DEF Executed, Stamped, PcbTimes
  <1>3. ASSUME NEW p \in Present PROVE Same(Executed(p), ran[p]) /\ ran[p] <= MaxRun
    BY <1>2 DEF BurstInv, MeasureInv
  <1>. QED BY <1>1, <1>2, <1>3 DEF MeasureInv

\* handle_interruption takes what was executed off what is left.
LEMMA HandleInterruption_Measure ==
  ASSUME BurstInv, Present' \subseteq Present, HandleInterruption
  PROVE  MeasureInv'
  <1>1. /\ cpu \in Processes /\ cpu' = NoProcess /\ UNCHANGED <<now, toExecTime, ran, to_exec>>
        /\ to_exec # "gettimeofday"
    BY DEF HandleInterruption, BurstInv, CpuInv, TimesTypeOK, CpuTimesOK, truth
  <1> DEFINE be == pcb[cpu].burst_estimation
             left == pcb[cpu].left_burst_estimation
             toMs == Signed(toExecTime)
             n == Signed(left) - Signed(Clock - toMs)
  <1>2. /\ be \in Nat /\ left \in Nat /\ now \in Nat /\ toExecTime \in Nat
        /\ pcb \in [Processes -> PcbTimes]
    BY <1>1 DEF BurstInv, TimesTypeOK, CpuTimesOK, PcbTimes
  <1>3. pcb' = [pcb EXCEPT ![cpu].left_burst_estimation = Unsigned(n)]
    <2>1. ToExecTimes = {toExecTime}
      BY <1>1, ToExecTimesAre DEF BurstInv, TimesTypeOK
    <2>. QED BY <2>1 DEF HandleInterruption
  <1>4. Clock \in Int /\ Same(Clock, now)
    BY <1>2, ClockType
  <1>5. /\ \A a \in Int : Signed(a) \in Int /\ Same(Signed(a), a)
        /\ \A a \in Int : Unsigned(a) \in Int /\ Same(Unsigned(a), a)
    BY SignedIs, HalfFacts, UnsignedIs, WordFacts
  <1>6. /\ pcb'[cpu].burst_estimation = be /\ pcb'[cpu].left_burst_estimation = Unsigned(n)
        /\ \A p \in Processes \ {cpu} : pcb'[p] = pcb[p]
    BY <1>1, <1>2, <1>3 DEF PcbTimes
  <1>7. Executed(cpu) = be - left /\ be - pcb'[cpu].left_burst_estimation = be - Unsigned(n)
    BY <1>6 DEF Executed
  <1>8. toMs \in Int /\ Same(toMs, toExecTime)
    BY <1>2, <1>5
  <1> HIDE DEF be, left, toMs, n
  <1>9. Same(Unsigned(n), left - (now - toExecTime)) /\ n \in Int
    <2>1. /\ Clock - toMs \in Int /\ now - toExecTime \in Int
          /\ Signed(Clock - toMs) \in Int /\ Signed(left) \in Int
      BY <1>2, <1>4, <1>5, <1>8
    <2>2. Same(Clock - toMs, now - toExecTime)
      BY <1>2, <1>4, <1>8, SameSums
    <2>3. Same(Signed(Clock - toMs), now - toExecTime)
      BY <1>5, <2>1, <2>2, SameChain
    <2>4. Same(Signed(left) - Signed(Clock - toMs), left - (now - toExecTime))
      BY <1>2, <1>5, <2>1, <2>3, SameSums
    <2>5. n \in Int /\ Same(n, left - (now - toExecTime))
      BY <2>1, <2>4 DEF n
    <2>6. left - (now - toExecTime) \in Int
      BY <1>2
    <2>. QED BY <1>5, <2>5, <2>6, SameChain
  <1>10. Same(be - Unsigned(n), ran[cpu])
    <2>1. Same(be - Unsigned(n), be - (left - (now - toExecTime)))
      BY <1>2, <1>5, <1>9, SameItself, SameSums
    <2>2. be - (left - (now - toExecTime)) = be - left + (now - toExecTime)
      BY <1>2
    <2>3. Same(be - left + (now - toExecTime), ran[cpu])
      BY <1>1, <1>7, CpuPresent, ProcessesAssumption DEF BurstInv, MeasureInv, Stamped
    <2>4. /\ be - Unsigned(n) \in Int /\ be - left + (now - toExecTime) \in Int
          /\ ran[cpu] \in Int
      BY <1>1, <1>2, <1>5, <1>9 DEF BurstInv, TimesTypeOK, CpuTimesOK
    <2>. QED BY <2>1, <2>2, <2>3, <2>4, SameChain
  <1>11. ASSUME NEW p \in Present
         PROVE  ~Stamped(p)' /\ Same(Executed(p)', ran'[p]) /\ ran'[p] <= MaxRun
    <2>1. ~Stamped(p)' /\ ran'[p] = ran[p] /\ ran[p] <= MaxRun
      BY <1>1, ProcessesAssumption, PresentProcesses DEF Stamped, BurstInv, MeasureInv
    <2>2. CASE p = cpu
      <3>1. Executed(p)' = be - Unsigned(n)
        BY <1>6, <2>2 DEF Executed
      <3>. QED BY <1>10, <2>1, <2>2, <3>1
    <2>3. CASE p # cpu
      <3>1. Executed(p)' = Executed(p) /\ ~Stamped(p)
        BY <1>6, <2>3, PresentProcesses DEF Executed, Stamped
      <3>. QED BY <2>1, <3>1 DEF BurstInv, MeasureInv
    <2>. QED BY <2>2, <2>3
  <1>. QED BY <1>11 DEF MeasureInv

\* io_op starts the estimate of the next burst, whatever it has read.
LEMMA IoOp_Measure ==
  ASSUME BurstInv, Present' \subseteq Present, IoOp
  PROVE  MeasureInv'
  <1>1. /\ cpu \in Processes /\ cpu' = NoProcess
        /\ ran' = [ran EXCEPT ![cpu] = 0]
        /\ pcb \in [Processes -> PcbTimes] /\ ran \in [Processes -> Nat]
    BY DEF IoOp, BurstInv, TimesTypeOK, CpuTimesOK
  <1>2. PICK time \in Ios, toMs \in ToExecTimes :
          pcb' = [pcb EXCEPT ![cpu] =
            [burst_estimation |-> Estimation(cpu, toMs),
             left_burst_estimation |-> Estimation(cpu, toMs),
             blocked_time |-> Unsigned(Clock), pending_io_time |-> time]]
    BY DEF IoOp
  <1>3. Estimation(cpu, toMs) \in Nat
    BY <1>1, ToExecTimesAre, EstimationType DEF BurstInv, TimesTypeOK
  <1>4. /\ pcb'[cpu].burst_estimation = pcb'[cpu].left_burst_estimation
        /\ pcb'[cpu].burst_estimation \in Nat
        /\ \A p \in Processes \ {cpu} : pcb'[p] = pcb[p]
    BY <1>1, <1>2, <1>3
  <1>5. Same(0, 0) /\ MaxRun \in Nat
    BY SameItself, TimesAssumption
  <1>6. ASSUME NEW p \in Present
        PROVE  ~Stamped(p)' /\ Same(Executed(p)', ran'[p]) /\ ran'[p] <= MaxRun
    <2>1. ~Stamped(p)'
      BY <1>1, ProcessesAssumption, PresentProcesses DEF Stamped
    <2>2. CASE p = cpu
      <3>1. Executed(p)' = 0 /\ ran'[p] = 0
        BY <1>1, <1>4, <2>2 DEF Executed
      <3>. QED BY <1>5, <2>1, <3>1
    <2>3. CASE p # cpu
      <3>1. Executed(p)' = Executed(p) /\ ran'[p] = ran[p] /\ ~Stamped(p)
        BY <1>1, <1>4, <2>3, PresentProcesses DEF Executed, Stamped
      <3>. QED BY <2>1, <3>1 DEF BurstInv, MeasureInv
    <2>. QED BY <2>2, <2>3
  <1>. QED BY <1>6 DEF MeasureInv

\* exit_op: the last burst is not measured, and the process has left.
LEMMA ExitOp_Measure ==
  ASSUME BurstInv, ExitOp
  PROVE  MeasureInv'
  <1>1. /\ cpu' = NoProcess /\ UNCHANGED <<now, pcb, ran>>
        /\ Present' \subseteq Present \ {cpu}
    BY ExitOp_Apart DEF ExitOp, truth, BurstInv
  <1>2. ASSUME NEW p \in Present \ {cpu}
        PROVE  Executed(p)' = Executed(p) /\ ~Stamped(p) /\ ~Stamped(p)'
    BY <1>1, ProcessesAssumption, PresentProcesses DEF Executed, Stamped
  <1>3. ASSUME NEW p \in Present \ {cpu} PROVE Same(Executed(p), ran[p]) /\ ran[p] <= MaxRun
    BY <1>2 DEF BurstInv, MeasureInv
  <1>. QED BY <1>1, <1>2, <1>3 DEF MeasureInv

\* A millisecond passes in the CPU.
LEMMA Tick_Measure ==
  ASSUME BurstInv, Present' \subseteq Present, Tick
  PROVE  MeasureInv'
  <1>1. /\ now' = now + 1 /\ UNCHANGED <<pcb, cpu, to_exec, toExecTime>>
        /\ now \in Nat /\ toExecTime \in Nat /\ MaxRun \in Nat
        /\ pcb \in [Processes -> PcbTimes] /\ ran \in [Processes -> Nat]
    BY TimesAssumption DEF Tick, BurstInv, TimesTypeOK, CpuTimesOK
  <1>2. to_exec # "gettimeofday" /\ (cpu # NoProcess => ~(ran[cpu] >= MaxRun))
    BY DEF Tick, Due, ThreadDue
  <1>3. \A p \in Processes : ran'[p] = IF p = cpu THEN ran[p] + 1 ELSE ran[p]
    BY DEF Tick
  <1>4. ASSUME NEW p \in Present
        PROVE  /\ p \in Processes /\ p # NoProcess /\ Executed(p) \in Int /\ ran[p] \in Nat
               /\ Executed(p)' = Executed(p) /\ Stamped(p)' = Stamped(p)
               /\ Stamped(p) <=> p = cpu
    BY <1>1, <1>2, ProcessesAssumption, PresentProcesses DEF Executed, Stamped, PcbTimes
  <1>5. ASSUME NEW p \in Present
        PROVE  /\ ~Stamped(p) => Same(Executed(p), ran'[p])
               /\ Stamped(p) => Same(Executed(p) + (now' - toExecTime), ran'[p])
               /\ ran'[p] <= MaxRun
    <2> DEFINE e == Executed(p)
    <2>1. e \in Int /\ ran[p] \in Nat
      BY <1>4
    <2>2. /\ ~Stamped(p) => Same(e, ran[p])
          /\ Stamped(p) => Same(e + (now - toExecTime), ran[p])
          /\ ran[p] <= MaxRun
      BY DEF BurstInv, MeasureInv
    <2>3. CASE ~Stamped(p)
      BY <1>3, <1>4, <2>2, <2>3
    <2>4. CASE Stamped(p)
      <3>1. ran'[p] = ran[p] + 1 /\ ran[p] < MaxRun
        BY <1>1, <1>2, <1>3, <1>4, <2>1, <2>4
      <3> HIDE DEF e
      <3> DEFINE done == e + (now - toExecTime)
      <3>2. done \in Int /\ ran[p] \in Int /\ 1 \in Int /\ e + (now' - toExecTime) = done + 1
        BY <1>1, <2>1
      <3>3. Same(done, ran[p]) /\ Same(1, 1)
        BY <2>2, <2>4, SameItself DEF e
      <3> HIDE DEF done
      <3>4. Same(done + 1, ran[p] + 1)
        BY <3>2, <3>3, SameSums
      <3>5. Same(e + (now' - toExecTime), ran'[p])
        BY <3>1, <3>2, <3>4
      <3>6. ran'[p] <= MaxRun
        BY <1>1, <2>1, <3>1
      <3>. QED BY <2>4, <3>5, <3>6 DEF e
    <2>. QED BY <2>3, <2>4
  <1>. QED BY <1>1, <1>4, <1>5 DEF MeasureInv

\* Every step keeps the measure.
LEMMA MeasureStep ==
  ASSUME BurstInv, [TimesNext]_timesVars
  PROVE  MeasureInv'
  <1>0. Present' \subseteq Present /\ MeasureInv /\ TimesTypeOK /\ CpuInv
    BY ApartStep DEF BurstInv
  <1>1. ASSUME UNCHANGED <<now, toExecTime, cpu, ran, to_exec, pcb>> PROVE MeasureInv'
    BY <1>0, <1>1, MeasureFrame
  <1>2. CASE \E t \in Callers : PutToReady(t) \/ PutToReady_Interrupt(t) \/ PutToReady_Resume(t)
    BY <1>1, <1>2 DEF PutToReady, PutToReady_Interrupt, PutToReady_Resume, truth
  <1>3. CASE ToReady \/ NewToReady \/ ExitProcess \/ MemoryAnswers
    BY <1>1, <1>3 DEF ToReady, NewToReady, ExitProcess, MemoryAnswers, truth
  <1>4. CASE ToExec_Wait
    <2>1. /\ UNCHANGED <<now, toExecTime, cpu, ran, pcb>>
          /\ to_exec = "ready_for_exec" /\ to_exec' = "execution_mutex"
      BY <1>4 DEF ToExec_Wait, truth
    <2>. QED BY <1>0, <2>1, MeasureFrame
  <1>5. CASE IoListener_Take \/ IoListener_Finish \/ IoListener_Wait
    BY <1>1, <1>5 DEF IoListener_Take, IoListener_Finish, IoListener_Wait, truth
  <1>6. CASE IoListener_TakeSuspended \/ IoListener_FinishSuspended \/ UNCHANGED timesVars
    BY <1>1, <1>6 DEF IoListener_TakeSuspended, IoListener_FinishSuspended, timesVars, truth
  <1>7. CASE IoListener_Suspend
    <2>1. /\ UNCHANGED <<now, toExecTime, cpu, ran, to_exec>>
          /\ pcb \in [Processes -> PcbTimes]
      BY <1>0, <1>7 DEF IoListener_Suspend, truth, TimesTypeOK, CpuTimesOK
    <2>2. PICK n : pcb' = [pcb EXCEPT ![io.process].pending_io_time = n]
      BY <1>7 DEF IoListener_Suspend
    <2>3. \A p \in Processes :
            /\ pcb'[p].burst_estimation = pcb[p].burst_estimation
            /\ pcb'[p].left_burst_estimation = pcb[p].left_burst_estimation
      BY <2>1, <2>2 DEF PcbTimes
    <2>. QED BY <1>0, <2>1, <2>3, MeasureFrame
  <1>. QED BY <1>0, <1>2, <1>3, <1>4, <1>5, <1>6, <1>7, ToExec_Send_Measure,
         ToExec_Stamp_Measure, HandleInterruption_Measure, IoOp_Measure, ExitOp_Measure,
         Tick_Measure
         DEF TimesNext, IoListener, Quiet

\* The inductive invariant of the bursts, from the start on.
THEOREM BurstInvCorrect == TimesSpec => []BurstInv
  <1>1. TimesInit => BurstInv
    <2> SUFFICES ASSUME TimesInit PROVE MeasureInv
      BY TimesTypeInitially, CpuInvInitially, ApartInitially DEF BurstInv
    <2>1. ASSUME NEW p \in Processes PROVE Executed(p) = 0 /\ ran[p] = 0 /\ ~Stamped(p)
      BY ProcessesAssumption, TimesAssumption DEF TimesInit, Executed, Stamped
    <2>2. Same(0, 0) /\ MaxRun \in Nat
      BY SameItself, TimesAssumption
    <2>. QED BY <2>1, <2>2, PresentProcesses DEF MeasureInv
  <1>2. BurstInv /\ [TimesNext]_timesVars => BurstInv'
    BY CpuTimesType, IoTimesType, AdmissionType, CpuInvStep, ApartStep, MeasureStep
       DEF BurstInv, TimesTypeOK
  <1>. QED BY <1>1, <1>2, PTL DEF TimesSpec

\* io_op takes for the length of a burst how long the process executed, however often it
\* was interrupted and wherever the clock wrapped, once to_exec has read the clock, for
\* every configuration in which an int of milliseconds holds every burst.
THEOREM BurstCorrect ==
  ASSUME MaxRun < Word \div 2
  PROVE  TimesSpec => []BurstMeasured
  <1>1. BurstInv => BurstMeasured
    BY RealIs DEF BurstMeasured, Half
  <1>. QED BY <1>1, BurstInvCorrect, PTL

-----------------------------------------------------------------------------
(* The length of a sleep. *)

\* An int holds every I/O and the maximum, and a uint32_t their microseconds.
ShortWaits == \A t \in Ios \cup {MaxBlockedTime} : t < Half /\ t * Micros < Word

\* A process that waits for io_listener: its pcb says since when and for how long.
Waits(p) ==
    /\ asked[p] \in Ios /\ pcb[p].pending_io_time = asked[p]
    /\ since[p] <= now /\ Same(pcb[p].blocked_time, since[p])
    /\ slept[p] = 0

\* A process that is suspended, or about to be: its pcb says what is left.
HasLeft(p) ==
    /\ asked[p] \in Ios /\ slept[p] \in Nat
    /\ slept[p] + pcb[p].pending_io_time = asked[p]

\* What io_listener sleeps for, and what has been slept.
Sleeps(p) ==
    LET finish == io.taken + asked[p]
        maximum == since[p] + MaxBlockedTime
    IN  /\ asked[p] \in Ios
        /\ io.at = "usleep" =>
             io.wake = finish /\ finish <= maximum /\ slept[p] = now - io.taken
        /\ io.at = "usleep_max" =>
             /\ io.wake = maximum /\ io.taken <= maximum /\ maximum < finish
             /\ io.sleep_ms = maximum - io.taken
             /\ pcb[p].pending_io_time = asked[p] /\ slept[p] = now - io.taken
        /\ io.at = "waiting_for_suspension" => HasLeft(p)
        /\ io.at = "usleep_suspended" =>
             /\ io.wake = io.taken + pcb[p].pending_io_time
             /\ slept[p] + pcb[p].pending_io_time = asked[p] + (now - io.taken)

BlockedWait == \A i \in DOMAIN blocked_q : Waits(blocked_q[i])

SuspendedWait ==
    \A i \in DOMAIN suspended_block_q :
        suspended_block_q[i] \notin late => HasLeft(suspended_block_q[i])

ListenerSleeps == Occupied /\ io.process \notin late => Sleeps(io.process)

WakeInv == BlockedWait /\ SuspendedWait /\ ListenerSleeps

\* The processes on their way to ready_q have slept their I/O out.
Admitting ==
    (Range(new_q) \cup Range(suspended_ready_q) \cup {to_ready}
       \cup {call[t].process : t \in Callers}) \ {NoProcess}

AdmittedSlept == \A p \in Admitting : p \notin late => slept[p] = asked[p]

\* What Apart says of io_listener and its queues.
LEMMA ApartFacts ==
  ASSUME TimesTypeOK, Apart
  PROVE  /\ Occupied => io.process \in Processes
         /\ \A i \in DOMAIN blocked_q :
              /\ blocked_q[i] \in Processes /\ blocked_q[i] # cpu
              /\ Occupied => blocked_q[i] # io.process
         /\ \A i \in DOMAIN suspended_block_q :
              /\ suspended_block_q[i] \in Processes /\ suspended_block_q[i] # cpu
              /\ Occupied => suspended_block_q[i] # io.process
         /\ Occupied => io.process # cpu
         /\ \A p \in Admitting : p \in Processes /\ p # cpu /\ (Occupied => p # io.process)
  <1>1. /\ Occupied => io.process \in Processes
        /\ Range(blocked_q) \subseteq Processes /\ Range(suspended_block_q) \subseteq Processes
        /\ \A i \in DOMAIN blocked_q : blocked_q[i] \in Range(blocked_q)
        /\ \A i \in DOMAIN suspended_block_q : suspended_block_q[i] \in Range(suspended_block_q)
    BY PlaceTypes DEF Range
  <1>2. Range(new_q) \subseteq Processes /\ Range(suspended_ready_q) \subseteq Processes
    BY PlaceTypes DEF Range
  <1>3. Admitting \subseteq Processes
    BY <1>2, PlaceTypes DEF Admitting, Callers, Calls
  <1>4. ASSUME NEW p \in Processes, NEW j \in Places, NEW k \in Places, j # k, p \in Place[j]
        PROVE  p \notin Place[k]
    BY <1>4 DEF Apart, Disjoint
  <1>5. /\ {"cpu", "io", "blocked_q", "suspended_block_q"} \subseteq Places
        /\ Place["blocked_q"] = Range(blocked_q)
        /\ Place["suspended_block_q"] = Range(suspended_block_q)
        /\ \A p \in Processes : p = cpu => p \in Place["cpu"]
        /\ Occupied => io.process \in Place["io"]
    BY ProcessesAssumption DEF Places, Place
  <1>6. \A p \in Admitting : \E k \in Places \ {"cpu", "io"} : p \in Place[k]
    BY ProcessesAssumption, <1>3 DEF Admitting, Place, Places, Callers
  <1>. QED BY <1>1, <1>3, <1>4, <1>5, <1>6

\* Whole milliseconds are rounded up to themselves.
LEMMA RoundedUp ==
  ASSUME NEW m \in Nat \ {0}, NEW k \in Nat
  PROVE  (k * m + m - 1) \div m = k
  <1> DEFINE n == k * m + m - 1
             q == n \div m
             r == n % m
  <1>1. n \in Int /\ k * m \in Int
    OBVIOUS
  <1> HIDE DEF n
  <1>2. q \in Int /\ r \in 0 .. m - 1 /\ r = n - m * q
    BY <1>1
  <1> HIDE DEF q, r
  <1>3. q * m \in Int /\ m * q = q * m /\ (k - q) * m = k * m - q * m /\ k - q \in Int
    BY <1>2
  <1>4. k * m - q * m = r - m + 1
    BY <1>1, <1>2, <1>3 DEF n
  <1>5. -m < (k - q) * m /\ (k - q) * m < m
    BY <1>2, <1>3, <1>4
  <1>6. k - q = 0
    BY <1>3, <1>5, SmallMultiple
  <1>7. q = k
    BY <1>2, <1>6
  <1>. QED BY <1>7 DEF q, n

\* usleep takes as long as it is told while the microseconds fit.
LEMMA UsleepIs ==
  ASSUME NEW ms \in Nat, ms * Micros < Word
  PROVE  Usleep(ms) = ms
  <1>1. Micros \in Nat \ {0} /\ ms * Micros \in Nat
    BY TimesAssumption
  <1>2. ms * Micros \in 0 .. Word - 1 /\ Same(ms * Micros, ms * Micros)
    BY <1>1, WordFacts, SameItself
  <1>3. Unsigned(ms * Micros) = ms * Micros
    BY <1>1, <1>2, UnsignedIs
  <1>. QED BY <1>1, <1>3, RoundedUp DEF Usleep

\* What is shorter than an I/O, or than the maximum, fits as well.
LEMMA ShorterFits ==
  ASSUME ShortWaits, NEW t \in Ios \cup {MaxBlockedTime}, NEW n \in 0 .. t
  PROVE  t \in Nat /\ n \in Nat /\ n < Half /\ n * Micros < Word /\ Usleep(n) = n
  <1>1. t \in Nat /\ Micros \in Nat /\ t < Half /\ t * Micros < Word /\ Word \in Nat
    BY SetsAssumption, TimesAssumption DEF ShortWaits
  <1>2. n \in Nat /\ n <= t
    BY <1>1
  <1>3. (t - n) * Micros >= 0 /\ (t - n) * Micros = t * Micros - n * Micros
    BY <1>1, <1>2
  <1>4. t * Micros \in Int /\ n * Micros \in Int
    BY <1>1, <1>2
  <1>5. n * Micros < Word
    BY <1>1, <1>3, <1>4
  <1>. QED BY <1>1, <1>2, <1>5, HalfFacts, UsleepIs

\* The lesser of two numbers.
LEMMA MinOfTwo ==
  ASSUME NEW a \in Int, NEW b \in Int
  PROVE  Min({a, b}) = IF a <= b THEN a ELSE b
  <1> DEFINE m == IF a <= b THEN a ELSE b
  <1>1. m \in {a, b} /\ \A y \in {a, b} : m <= y
    OBVIOUS
  <1>2. \A x \in {a, b} : (\A y \in {a, b} : x <= y) => x = m
    OBVIOUS
  <1>. QED BY <1>1, <1>2 DEF Min

\* A small number is what the code's arithmetic makes of it.
LEMMA SmallSigned ==
  ASSUME NEW a \in Int, NEW b \in Int, -Half <= b, b < Half, Same(a, b)
  PROVE  Signed(a) = b
  <1>1. b \in -Half .. Half - 1
    BY HalfFacts
  <1>. QED BY <1>1, SignedIs

\* What io_listener works out for a process that it gets to in time.
LEMMA TakenInTime ==
  ASSUME ShortWaits, TimesTypeOK, NEW p \in Processes, Waits(p),
         now - since[p] <= MaxBlockedTime
  PROVE  LET left == since[p] + MaxBlockedTime - now
         IN  /\ left \in 0 .. MaxBlockedTime
             /\ Signed(MaxBlockedTime - TimeBlocked(p)) = left
             /\ Signed(left - pcb[p].pending_io_time) = left - asked[p]
  <1> DEFINE blocked == now - since[p]
             left == since[p] + MaxBlockedTime - now
  <1>1. /\ now \in Nat /\ since[p] \in Nat /\ MaxBlockedTime \in Nat
        /\ pcb[p].blocked_time \in Nat /\ pcb[p].pending_io_time = asked[p]
        /\ asked[p] \in Ios /\ since[p] <= now /\ Same(pcb[p].blocked_time, since[p])
    BY TimesAssumption DEF TimesTypeOK, CpuTimesOK, IoTimesOK, PcbTimes, Waits
  <1>2. asked[p] \in Nat /\ asked[p] < Half /\ MaxBlockedTime < Half
    BY <1>1, SetsAssumption DEF ShortWaits
  <1>3. Clock \in Int /\ Same(Clock, now)
    BY <1>1, ClockType
  <1>4. Clock - pcb[p].blocked_time \in Int /\ Same(Clock - pcb[p].blocked_time, now - since[p])
    <2>1. now \in Int /\ since[p] \in Int /\ pcb[p].blocked_time \in Int
      BY <1>1
    <2>2. Same(Clock - pcb[p].blocked_time, now - since[p])
      BY <1>1, <1>3, <2>1, SameSums
    <2>. QED BY <1>3, <2>1, <2>2
  <1>5. now - since[p] \in Int /\ -Half <= now - since[p] /\ now - since[p] < Half
    BY <1>1, <1>2, HalfFacts
  <1>6. TimeBlocked(p) = now - since[p]
    BY <1>4, <1>5, SmallSigned DEF TimeBlocked
  <1>7. /\ MaxBlockedTime - TimeBlocked(p) = left /\ left \in 0 .. MaxBlockedTime
        /\ left \in Int /\ -Half <= left /\ left < Half
    BY <1>1, <1>2, <1>5, <1>6, HalfFacts
  <1>8. Signed(left) = left
    BY <1>7, SameItself, SmallSigned
  <1> HIDE DEF left
  <1>9. left - asked[p] \in Int /\ -Half <= left - asked[p] /\ left - asked[p] < Half
    BY <1>2, <1>7, HalfFacts
  <1>10. Signed(left - asked[p]) = left - asked[p]
    BY <1>9, SameItself, SmallSigned
  <1>. QED BY <1>1, <1>7, <1>8, <1>10 DEF left

\* io_listener sleeps until the I/O is over or the maximum is reached.
LEMMA Take_Sleeps ==
  ASSUME ShortWaits, TimesTypeOK, WakeInv, IoListener_Take, io'.process \notin late'
  PROVE  Sleeps(io.process)'
  <1> DEFINE p == Head(blocked_q)
             left == since[p] + MaxBlockedTime - now
  <1>1. /\ blocked_q \in Seq(Processes) /\ blocked_q # <<>>
        /\ UNCHANGED <<now, pcb, since, asked, slept>>
        /\ late' = IF now - since[p] > MaxBlockedTime THEN late \cup {p} ELSE late
    BY DEF IoListener_Take, TimesTypeOK, IoTimesOK
  <1>2. p \in Processes /\ 1 \in DOMAIN blocked_q /\ p = blocked_q[1]
    BY <1>1
  <1>3. Waits(p)
    BY <1>2 DEF WakeInv, BlockedWait
  <1>4. /\ now \in Nat /\ since[p] \in Nat /\ MaxBlockedTime \in Nat /\ asked[p] \in Ios
        /\ asked[p] \in Nat /\ pcb[p].pending_io_time = asked[p] /\ slept[p] = 0
    BY <1>2, <1>3, TimesAssumption, SetsAssumption
       DEF TimesTypeOK, CpuTimesOK, IoTimesOK, Waits
  <1>5. io'.process = p
    BY TakeSleeps, SleepType DEF CpuTimesOK, TimesTypeOK
  <1>6. now - since[p] <= MaxBlockedTime
    BY <1>1, <1>4, <1>5
  <1>7. /\ left \in 0 .. MaxBlockedTime
        /\ Signed(MaxBlockedTime - TimeBlocked(p)) = left
        /\ Signed(left - pcb[p].pending_io_time) = left - asked[p]
    BY <1>2, <1>3, <1>6, TakenInTime
  <1>8. IF left - asked[p] >= 0 THEN Sleep("usleep", p, asked[p])
                                ELSE Sleep("usleep_max", p, left)
    BY <1>4, <1>7 DEF IoListener_Take
  <1>9. Usleep(asked[p]) = asked[p] /\ Usleep(left) = left /\ left \in Int
    BY <1>4, <1>7, ShorterFits
  <1>10. CASE left - asked[p] >= 0
    <2>1. /\ io'.at = "usleep" /\ io'.taken = now /\ io'.wake = now + asked[p]
      BY <1>2, <1>4, <1>8, <1>9, <1>10, SleepType
    <2>2. now + asked[p] <= since[p] + MaxBlockedTime /\ slept[p] = now - now
      BY <1>4, <1>10
    <2>. QED BY <1>1, <1>4, <1>5, <2>1, <2>2 DEF Sleeps
  <1>11. CASE ~(left - asked[p] >= 0)
    <2>1. /\ io'.at = "usleep_max" /\ io'.taken = now /\ io'.wake = now + left
          /\ io'.sleep_ms = left
      BY <1>2, <1>4, <1>8, <1>9, <1>11, SleepType
    <2>2. /\ now + left = since[p] + MaxBlockedTime /\ now <= since[p] + MaxBlockedTime
          /\ since[p] + MaxBlockedTime < now + asked[p] /\ slept[p] = now - now
          /\ left = (since[p] + MaxBlockedTime) - now
      BY <1>4, <1>6, <1>11
    <2>. QED BY <1>1, <1>4, <1>5, <2>1, <2>2 DEF Sleeps
  <1>. QED BY <1>10, <1>11

\* io_listener sleeps for what is left after a suspension.
LEMMA TakeSuspended_Sleeps ==
  ASSUME ShortWaits, TimesTypeOK, WakeInv, IoListener_TakeSuspended, io'.process \notin late'
  PROVE  Sleeps(io.process)'
  <1> DEFINE p == Head(suspended_block_q)
  <1>1. /\ suspended_block_q \in Seq(Processes) /\ suspended_block_q # <<>>
        /\ UNCHANGED <<now, pcb, since, asked, slept, late>>
        /\ Sleep("usleep_suspended", p, pcb[p].pending_io_time)
    BY DEF IoListener_TakeSuspended, truth, TimesTypeOK, IoTimesOK
  <1>2. p \in Processes /\ 1 \in DOMAIN suspended_block_q /\ p = suspended_block_q[1]
    BY <1>1
  <1>3. pcb[p].pending_io_time \in Nat /\ now \in Nat
    BY <1>2 DEF TimesTypeOK, CpuTimesOK, PcbTimes
  <1>4. /\ io'.process = p /\ io'.at = "usleep_suspended" /\ io'.taken = now
        /\ io'.wake = now + Usleep(pcb[p].pending_io_time)
    BY <1>1, <1>2, <1>3, SleepType
  <1>5. HasLeft(p)
    BY <1>1, <1>2, <1>4 DEF WakeInv, SuspendedWait
  <1>6. /\ asked[p] \in Ios /\ asked[p] \in Nat /\ slept[p] \in Nat
        /\ slept[p] + pcb[p].pending_io_time = asked[p]
    BY <1>5, SetsAssumption DEF HasLeft
  <1>7. pcb[p].pending_io_time \in 0 .. asked[p]
    BY <1>3, <1>6
  <1>8. Usleep(pcb[p].pending_io_time) = pcb[p].pending_io_time
    BY <1>6, <1>7, ShorterFits
  <1>9. slept[p] + pcb[p].pending_io_time = asked[p] + (now - now)
    BY <1>3, <1>6
  <1>. QED BY <1>1, <1>4, <1>6, <1>8, <1>9 DEF Sleeps

\* What a step does not change of a process and of io_listener.
TimesOfKept(p) ==
    /\ pcb'[p].pending_io_time = pcb[p].pending_io_time
    /\ pcb'[p].blocked_time = pcb[p].blocked_time
    /\ asked'[p] = asked[p] /\ since'[p] = since[p] /\ slept'[p] = slept[p]

\* Steps that change nothing of what io_listener works with.
LEMMA WakeKept ==
  ASSUME WakeInv, UNCHANGED <<now, io, blocked_q, suspended_block_q, late>>,
         \A p \in Processes : TimesOfKept(p),
         blocked_q \in Seq(Processes), suspended_block_q \in Seq(Processes),
         Occupied => io.process \in Processes
  PROVE  WakeInv'
  <1>1. \A i \in DOMAIN blocked_q : Waits(blocked_q[i])'
    BY DEF WakeInv, BlockedWait, Waits, TimesOfKept
  <1>2. \A i \in DOMAIN suspended_block_q :
          suspended_block_q[i] \notin late => HasLeft(suspended_block_q[i])'
    BY DEF WakeInv, SuspendedWait, HasLeft, TimesOfKept
  <1>3. Occupied /\ io.process \notin late => Sleeps(io.process)'
    BY DEF WakeInv, ListenerSleeps, Sleeps, HasLeft, TimesOfKept
  <1>. QED BY <1>1, <1>2, <1>3
         DEF WakeInv, BlockedWait, SuspendedWait, ListenerSleeps, Occupied

\* io_op: the process begins to wait.
LEMMA IoOp_Wake ==
  ASSUME TimesTypeOK, Apart, WakeInv, IoOp
  PROVE  WakeInv'
  <1>1. /\ cpu \in Processes /\ blocked_q' = Append(blocked_q, cpu)
        /\ UNCHANGED <<now, io, suspended_block_q>> /\ late' = late \ {cpu}
        /\ now \in Nat
    BY DEF IoOp, TimesTypeOK, CpuTimesOK
  <1>2. /\ blocked_q \in Seq(Processes) /\ suspended_block_q \in Seq(Processes)
        /\ Occupied => io.process \in Processes
    BY DEF TimesTypeOK, IoTimesOK, Occupied
  <1>3. ASSUME NEW p \in Processes, p # cpu PROVE TimesOfKept(p)
    BY <1>1, <1>3 DEF IoOp, TimesOfKept, TimesTypeOK, CpuTimesOK, IoTimesOK
  <1>4. ASSUME NEW p \in Processes, p = cpu PROVE Waits(p)'
    <2>1. asked'[p] \in Ios /\ pcb'[p].pending_io_time = asked'[p]
      BY <1>4 DEF IoOp, TimesTypeOK, CpuTimesOK, IoTimesOK
    <2>2. /\ since'[p] = now /\ slept'[p] = 0
          /\ pcb'[p].blocked_time = Unsigned(Clock)
      BY <1>4 DEF IoOp, TimesTypeOK, CpuTimesOK, IoTimesOK
    <2>3. Clock \in Int /\ Same(Clock, now)
      BY <1>1, ClockType
    <2>4. Unsigned(Clock) \in Int /\ Same(Unsigned(Clock), Clock) /\ now \in Int
      BY <1>1, <2>3, UnsignedIs, WordFacts
    <2>5. Same(Unsigned(Clock), now)
      BY <2>3, <2>4, SameChain
    <2>. QED BY <1>1, <2>1, <2>2, <2>5 DEF Waits
  <1>5. BlockedWait'
    <2>1. /\ Len(blocked_q) \in Nat /\ DOMAIN blocked_q = 1 .. Len(blocked_q)
          /\ DOMAIN blocked_q' = 1 .. Len(blocked_q) + 1
          /\ blocked_q'[Len(blocked_q) + 1] = cpu
          /\ \A i \in 1 .. Len(blocked_q) : blocked_q'[i] = blocked_q[i]
      BY <1>1, <1>2
    <2>2. ASSUME NEW i \in 1 .. Len(blocked_q) + 1 PROVE Waits(blocked_q[i])'
      <3>1. CASE i = Len(blocked_q) + 1
        BY <1>1, <1>4, <2>1, <3>1
      <3>2. CASE i \in 1 .. Len(blocked_q)
        <4>1. PICK p \in Processes : p = blocked_q[i] /\ p = blocked_q'[i] /\ p # cpu
          BY <1>2, <2>1, <3>2, ApartFacts
        <4>2. Waits(p) /\ TimesOfKept(p)
          BY <1>3, <2>1, <3>2, <4>1 DEF WakeInv, BlockedWait
        <4>3. Waits(p)'
          BY <1>1, <4>2 DEF Waits, TimesOfKept
        <4>. QED BY <4>1, <4>3
      <3>. QED BY <2>1, <3>1, <3>2
    <2>. QED BY <2>1, <2>2 DEF BlockedWait
  <1>6. SuspendedWait'
    <2>1. ASSUME NEW i \in DOMAIN suspended_block_q, suspended_block_q[i] \notin late'
          PROVE  HasLeft(suspended_block_q[i])'
      <3>1. PICK p \in Processes : p = suspended_block_q[i] /\ p # cpu
        BY <1>2, <2>1, ApartFacts
      <3>2. HasLeft(p) /\ TimesOfKept(p)
        BY <1>1, <1>3, <2>1, <3>1 DEF WakeInv, SuspendedWait
      <3>3. HasLeft(p)'
        BY <3>2 DEF HasLeft, TimesOfKept
      <3>. QED BY <1>1, <3>1, <3>3
    <2>. QED BY <1>1, <2>1 DEF SuspendedWait
  <1>7. ListenerSleeps'
    <2> SUFFICES ASSUME Occupied, io.process \notin late' PROVE Sleeps(io.process)'
      BY <1>1 DEF ListenerSleeps, Occupied
    <2>1. PICK p \in Processes : p = io.process /\ p # cpu
      BY <1>2, ApartFacts
    <2>2. Sleeps(p) /\ TimesOfKept(p)
      BY <1>1, <1>3, <2>1 DEF WakeInv, ListenerSleeps
    <2>3. Sleeps(p)'
      BY <1>1, <2>2 DEF Sleeps, HasLeft, TimesOfKept
    <2>. QED BY <1>1, <2>1, <2>3
  <1>. QED BY <1>5, <1>6, <1>7 DEF WakeInv

\* io_listener takes a process from blocked_q, in time or late.
LEMMA Take_Wake ==
  ASSUME ShortWaits, TimesTypeOK, WakeInv, IoListener_Take
  PROVE  WakeInv'
  <1>1. /\ UNCHANGED <<now, pcb, since, asked, slept, suspended_block_q>>
        /\ blocked_q \in Seq(Processes) /\ blocked_q # <<>> /\ blocked_q' = Tail(blocked_q)
        /\ late \subseteq late'
    BY DEF IoListener_Take, TimesTypeOK, IoTimesOK
  <1>2. BlockedWait'
    <2>1. /\ Len(blocked_q) \in Nat /\ DOMAIN blocked_q = 1 .. Len(blocked_q)
          /\ DOMAIN blocked_q' = 1 .. Len(blocked_q) - 1
          /\ \A i \in 1 .. Len(blocked_q) - 1 : blocked_q'[i] = blocked_q[i + 1]
      BY <1>1
    <2>2. ASSUME NEW i \in 1 .. Len(blocked_q) - 1 PROVE Waits(blocked_q[i])'
      <3>1. PICK p : p = blocked_q[i + 1] /\ p = blocked_q'[i]
        BY <2>1
      <3>2. Waits(p)
        BY <2>1, <3>1 DEF WakeInv, BlockedWait
      <3>3. Waits(p)'
        BY <1>1, <3>2 DEF Waits
      <3>. QED BY <3>1, <3>3
    <2>. QED BY <2>1, <2>2 DEF BlockedWait
  <1>3. SuspendedWait'
    BY <1>1 DEF WakeInv, SuspendedWait, HasLeft
  <1>4. ListenerSleeps'
    BY Take_Sleeps DEF ListenerSleeps
  <1>. QED BY <1>2, <1>3, <1>4 DEF WakeInv

\* The maximum is reached: the pcb keeps what is left.
LEMMA Suspend_Wake ==
  ASSUME ShortWaits, TimesTypeOK, Apart, WakeInv, IoListener_Suspend
  PROVE  WakeInv'
  <1>1. PICK p \in Processes : p = io.process
    BY DEF IoListener_Suspend, TimesTypeOK, IoTimesOK
  <1>2. /\ io.at = "usleep_max" /\ Occupied /\ now = io.wake
        /\ pcb' = [pcb EXCEPT ![p].pending_io_time = Unsigned(@ - io.sleep_ms)]
        /\ io'.at = "waiting_for_suspension" /\ io'.process = p
        /\ UNCHANGED <<now, blocked_q, suspended_block_q, since, asked, slept, late>>
    BY <1>1 DEF IoListener_Suspend, Occupied, queueVars, truth, TimesTypeOK, IoTimesOK, IoTimes
  <1>3. /\ pcb \in [Processes -> PcbTimes] /\ now \in Nat /\ asked[p] \in Nat
        /\ since[p] \in Nat /\ io.taken \in Nat /\ MaxBlockedTime \in Nat
        /\ blocked_q \in Seq(Processes) /\ suspended_block_q \in Seq(Processes)
    BY <1>1, TimesAssumption DEF TimesTypeOK, CpuTimesOK, IoTimesOK, IoTimes
  <1>4. ASSUME NEW q \in Processes, q # p PROVE TimesOfKept(q)
    BY <1>2, <1>3, <1>4 DEF TimesOfKept, PcbTimes
  <1>5. BlockedWait'
    <2>1. ASSUME NEW i \in DOMAIN blocked_q PROVE Waits(blocked_q[i])'
      <3>1. PICK q \in Processes : q = blocked_q[i] /\ q # p
        BY <1>1, <1>2, <1>3, ApartFacts
      <3>2. Waits(q) /\ TimesOfKept(q)
        BY <1>4, <3>1 DEF WakeInv, BlockedWait
      <3>3. Waits(q)'
        BY <1>2, <3>2 DEF Waits, TimesOfKept
      <3>. QED BY <1>2, <3>1, <3>3
    <2>. QED BY <1>2, <2>1 DEF BlockedWait
  <1>6. SuspendedWait'
    <2>1. ASSUME NEW i \in DOMAIN suspended_block_q, suspended_block_q[i] \notin late
          PROVE  HasLeft(suspended_block_q[i])'
      <3>1. PICK q \in Processes : q = suspended_block_q[i] /\ q # p
        BY <1>1, <1>2, <1>3, ApartFacts
      <3>2. HasLeft(q) /\ TimesOfKept(q)
        BY <1>4, <2>1, <3>1 DEF WakeInv, SuspendedWait
      <3>3. HasLeft(q)'
        BY <3>2 DEF HasLeft, TimesOfKept
      <3>. QED BY <1>2, <3>1, <3>3
    <2>. QED BY <1>2, <2>1 DEF SuspendedWait
  <1>7. ListenerSleeps'
    <2> SUFFICES ASSUME p \notin late PROVE Sleeps(p)'
      BY <1>2 DEF ListenerSleeps
    <2> DEFINE maximum == since[p] + MaxBlockedTime
               left == asked[p] - (maximum - io.taken)
    <2>1. /\ asked[p] \in Ios /\ now = maximum /\ io.taken <= maximum
          /\ maximum < io.taken + asked[p] /\ io.sleep_ms = maximum - io.taken
          /\ pcb[p].pending_io_time = asked[p] /\ slept[p] = now - io.taken
      BY <1>1, <1>2 DEF WakeInv, ListenerSleeps, Sleeps
    <2>2. left \in 0 .. Word - 1 /\ left \in Int /\ maximum - io.taken \in Nat
      <3>1. asked[p] < Half
        BY <2>1 DEF ShortWaits
      <3>2. \A a, t, m \in Nat :
              t <= m /\ m < t + a /\ a < Half
                => a - (m - t) \in 0 .. Word - 1 /\ a - (m - t) \in Int /\ m - t \in Nat
        BY HalfFacts
      <3>3. maximum \in Nat
        BY <1>3
      <3> HIDE DEF maximum
      <3>. QED BY <1>3, <2>1, <3>1, <3>2, <3>3
    <2>3. Unsigned(left) = left
      BY <2>2, SameItself, UnsignedIs
    <2>4. pcb'[p].pending_io_time = left
      BY <1>2, <1>3, <2>1, <2>3 DEF PcbTimes
    <2>5. slept[p] \in Nat /\ slept[p] + left = asked[p]
      <3>1. slept[p] = maximum - io.taken /\ maximum \in Nat
        BY <1>3, <2>1
      <3> HIDE DEF maximum
      <3>. QED BY <1>3, <2>2, <3>1
    <2>. QED BY <1>2, <2>1, <2>4, <2>5 DEF Sleeps, HasLeft
  <1>. QED BY <1>5, <1>6, <1>7 DEF WakeInv

\* The suspended process waits for io_listener to be idle.
LEMMA Wait_Wake ==
  ASSUME TimesTypeOK, WakeInv, IoListener_Wait
  PROVE  WakeInv'
  <1>1. PICK p \in Processes : p = io.process
    BY DEF IoListener_Wait, TimesTypeOK, IoTimesOK
  <1>2. /\ UNCHANGED <<now, pcb, since, asked, slept, late, blocked_q>>
        /\ suspended_block_q' = Append(suspended_block_q, p) /\ ~Occupied' /\ Occupied
        /\ io.at = "waiting_for_suspension" /\ suspended_block_q \in Seq(Processes)
    BY <1>1 DEF IoListener_Wait, truth, Occupied, Idle, TimesTypeOK, IoTimesOK
  <1>3. BlockedWait' /\ ListenerSleeps'
    BY <1>2 DEF WakeInv, BlockedWait, ListenerSleeps, Waits
  <1>4. SuspendedWait'
    <2>1. /\ Len(suspended_block_q) \in Nat
          /\ DOMAIN suspended_block_q = 1 .. Len(suspended_block_q)
          /\ DOMAIN suspended_block_q' = 1 .. Len(suspended_block_q) + 1
          /\ suspended_block_q'[Len(suspended_block_q) + 1] = p
          /\ \A i \in 1 .. Len(suspended_block_q) : suspended_block_q'[i] = suspended_block_q[i]
      BY <1>2
    <2>2. p \notin late => HasLeft(p)
      BY <1>1, <1>2 DEF WakeInv, ListenerSleeps, Sleeps
    <2>3. ASSUME NEW i \in 1 .. Len(suspended_block_q) + 1, suspended_block_q'[i] \notin late'
          PROVE  HasLeft(suspended_block_q[i])'
      <3>1. PICK q : q = suspended_block_q'[i]
        OBVIOUS
      <3>2. HasLeft(q)
        <4>1. CASE i = Len(suspended_block_q) + 1
          BY <1>2, <2>1, <2>2, <2>3, <3>1, <4>1
        <4>2. CASE i \in 1 .. Len(suspended_block_q)
          BY <1>2, <2>1, <2>3, <3>1, <4>2 DEF WakeInv, SuspendedWait
        <4>. QED BY <2>1, <4>1, <4>2
      <3>3. HasLeft(q)'
        BY <1>2, <3>2 DEF HasLeft
      <3>. QED BY <3>1, <3>3
    <2>. QED BY <2>1, <2>3 DEF SuspendedWait
  <1>. QED BY <1>3, <1>4 DEF WakeInv

\* io_listener takes a suspended process.
LEMMA TakeSuspended_Wake ==
  ASSUME ShortWaits, TimesTypeOK, WakeInv, IoListener_TakeSuspended
  PROVE  WakeInv'
  <1>1. /\ UNCHANGED <<now, pcb, since, asked, slept, late, blocked_q>>
        /\ suspended_block_q \in Seq(Processes) /\ suspended_block_q # <<>>
        /\ suspended_block_q' = Tail(suspended_block_q)
    BY DEF IoListener_TakeSuspended, truth, TimesTypeOK, IoTimesOK
  <1>2. BlockedWait'
    BY <1>1 DEF WakeInv, BlockedWait, Waits
  <1>3. SuspendedWait'
    <2>1. /\ Len(suspended_block_q) \in Nat
          /\ DOMAIN suspended_block_q = 1 .. Len(suspended_block_q)
          /\ DOMAIN suspended_block_q' = 1 .. Len(suspended_block_q) - 1
          /\ \A i \in 1 .. Len(suspended_block_q) - 1 :
               suspended_block_q'[i] = suspended_block_q[i + 1]
      BY <1>1
    <2>2. ASSUME NEW i \in 1 .. Len(suspended_block_q) - 1, suspended_block_q'[i] \notin late'
          PROVE  HasLeft(suspended_block_q[i])'
      <3>1. PICK p : p = suspended_block_q[i + 1] /\ p = suspended_block_q'[i]
        BY <2>1
      <3>2. HasLeft(p)
        BY <1>1, <2>1, <2>2, <3>1 DEF WakeInv, SuspendedWait
      <3>3. HasLeft(p)'
        BY <1>1, <3>2 DEF HasLeft
      <3>. QED BY <3>1, <3>3
    <2>. QED BY <2>1, <2>2 DEF SuspendedWait
  <1>4. ListenerSleeps'
    BY TakeSuspended_Sleeps DEF ListenerSleeps
  <1>. QED BY <1>2, <1>3, <1>4 DEF WakeInv

\* Time passes for the process that sleeps, and for no other.
LEMMA Tick_Wake ==
  ASSUME TimesTypeOK, Apart, WakeInv, Tick
  PROVE  WakeInv'
  <1>1. /\ UNCHANGED <<pcb, since, asked, late, io, blocked_q, suspended_block_q>>
        /\ now' = now + 1 /\ now \in Nat
        /\ blocked_q \in Seq(Processes) /\ suspended_block_q \in Seq(Processes)
        /\ slept \in [Processes -> Int] /\ since \in [Processes -> Nat]
        /\ Occupied => io.process \in Processes
        /\ Sleeping => Occupied
    BY DEF Tick, queueVars, TimesTypeOK, CpuTimesOK, IoTimesOK, Sleeping, Occupied
  <1>2. \A p \in Processes :
          slept'[p] = IF Sleeping /\ p = io.process THEN slept[p] + 1 ELSE slept[p]
    BY DEF Tick
  <1>3. BlockedWait'
    <2>1. ASSUME NEW i \in DOMAIN blocked_q PROVE Waits(blocked_q[i])'
      <3>1. PICK q \in Processes : q = blocked_q[i] /\ (Occupied => q # io.process)
        BY <1>1, ApartFacts
      <3>2. Waits(q)
        BY <3>1 DEF WakeInv, BlockedWait
      <3>3. slept'[q] = slept[q] /\ since[q] \in Nat
        BY <1>1, <1>2, <3>1
      <3>4. since[q] <= now + 1
        BY <1>1, <3>2, <3>3 DEF Waits
      <3>5. Waits(q)'
        BY <1>1, <3>2, <3>3, <3>4 DEF Waits
      <3>. QED BY <1>1, <3>1, <3>5
    <2>. QED BY <1>1, <2>1 DEF BlockedWait
  <1>4. SuspendedWait'
    <2>1. ASSUME NEW i \in DOMAIN suspended_block_q, suspended_block_q[i] \notin late
          PROVE  HasLeft(suspended_block_q[i])'
      <3>1. PICK q \in Processes : q = suspended_block_q[i] /\ (Occupied => q # io.process)
        BY <1>1, ApartFacts
      <3>2. HasLeft(q)
        BY <2>1, <3>1 DEF WakeInv, SuspendedWait
      <3>3. slept'[q] = slept[q]
        BY <1>1, <1>2, <3>1
      <3>4. HasLeft(q)'
        BY <1>1, <3>2, <3>3 DEF HasLeft
      <3>. QED BY <1>1, <3>1, <3>4
    <2>. QED BY <1>1, <2>1 DEF SuspendedWait
  <1>5. ListenerSleeps'
    <2> SUFFICES ASSUME Occupied, io.process \notin late PROVE Sleeps(io.process)'
      BY <1>1 DEF ListenerSleeps, Occupied
    <2>1. PICK p \in Processes : p = io.process
      BY <1>1
    <2>2. Sleeps(p) /\ slept[p] \in Int
      BY <1>1, <2>1 DEF WakeInv, ListenerSleeps
    <2>3. /\ io.taken \in Nat /\ pcb[p].pending_io_time \in Nat /\ asked[p] \in Nat
      BY DEF TimesTypeOK, CpuTimesOK, IoTimesOK, IoTimes, PcbTimes
    <2>4. CASE Sleeping
      <3>1. slept'[p] = slept[p] + 1 /\ io.at # "waiting_for_suspension"
        BY <1>2, <2>1, <2>4 DEF Sleeping
      <3>2. /\ slept[p] = now - io.taken => slept'[p] = now' - io.taken
            /\ slept[p] + pcb[p].pending_io_time = asked[p] + (now - io.taken)
                 => slept'[p] + pcb[p].pending_io_time = asked[p] + (now' - io.taken)
        <4>1. \A s, n, t, k, a \in Int :
                /\ s = n - t => s + 1 = (n + 1) - t
                /\ s + k = a + (n - t) => (s + 1) + k = a + ((n + 1) - t)
          OBVIOUS
        <4>2. now' = now + 1 /\ now \in Int
          BY <1>1
        <4>. QED BY <2>2, <2>3, <3>1, <4>1, <4>2
      <3>3. Sleeps(p)'
        BY <1>1, <2>2, <3>1, <3>2 DEF Sleeps
      <3>. QED BY <1>1, <2>1, <3>3
    <2>5. CASE ~Sleeping
      <3>1. slept'[p] = slept[p]
        BY <1>2, <2>1, <2>5
      <3>2. io.at \notin {"usleep", "usleep_max", "usleep_suspended"}
        BY <2>5 DEF Sleeping
      <3>3. Sleeps(p)'
        BY <1>1, <2>2, <3>1, <3>2 DEF Sleeps, HasLeft
      <3>. QED BY <1>1, <2>1, <3>3
    <2>. QED BY <2>4, <2>5
  <1>. QED BY <1>3, <1>4, <1>5 DEF WakeInv

\* Whatever happens, what io_listener works with stays right.
LEMMA WakeStep ==
  ASSUME ShortWaits, TimesTypeOK, Apart, WakeInv, [TimesNext]_timesVars
  PROVE  WakeInv'
  <1>0. /\ blocked_q \in Seq(Processes) /\ suspended_block_q \in Seq(Processes)
        /\ Occupied => io.process \in Processes
    BY DEF TimesTypeOK, IoTimesOK, Occupied
  <1>1. ASSUME UNCHANGED <<now, io, blocked_q, suspended_block_q, late, pcb, asked, since, slept>>
        PROVE  WakeInv'
    <2>1. \A p \in Processes : TimesOfKept(p)
      BY <1>1 DEF TimesOfKept
    <2>. QED BY <1>0, <1>1, <2>1, WakeKept
  <1>2. CASE UNCHANGED timesVars \/ ExitProcess \/ MemoryAnswers \/ ExitOp
    BY <1>1, <1>2 DEF timesVars, queueVars, truth, ExitProcess, MemoryAnswers, ExitOp
  <1>3. CASE \E t \in Callers : PutToReady(t) \/ PutToReady_Interrupt(t) \/ PutToReady_Resume(t)
    BY <1>1, <1>3 DEF PutToReady, PutToReady_Interrupt, PutToReady_Resume, queueVars, truth
  <1>4. CASE ToReady \/ NewToReady
    BY <1>1, <1>4 DEF ToReady, NewToReady, queueVars, truth
  <1>5. CASE ToExec_Wait \/ ToExec_Stamp \/ \E p \in Processes : ToExec_Send(p)
    BY <1>1, <1>5 DEF ToExec_Wait, ToExec_Stamp, ToExec_Send, queueVars, truth
  <1>6. CASE HandleInterruption
    <2>1. /\ UNCHANGED <<now, io, blocked_q, suspended_block_q, late, asked, since, slept>>
          /\ cpu \in Processes /\ pcb \in [Processes -> PcbTimes]
      BY <1>6 DEF HandleInterruption, queueVars, truth, TimesTypeOK, CpuTimesOK
    <2>2. PICK n : pcb' = [pcb EXCEPT ![cpu].left_burst_estimation = n]
      BY <1>6 DEF HandleInterruption
    <2>3. \A p \in Processes : TimesOfKept(p)
      BY <2>1, <2>2 DEF TimesOfKept, PcbTimes
    <2>. QED BY <1>0, <2>1, <2>3, WakeKept
  <1>7. CASE IoListener_Finish \/ IoListener_FinishSuspended
    <2>1. /\ UNCHANGED <<now, blocked_q, suspended_block_q, late, pcb, asked, since, slept>>
          /\ ~Occupied'
      BY <1>7 DEF IoListener_Finish, IoListener_FinishSuspended, queueVars, truth, Occupied, Idle
    <2>. QED BY <2>1 DEF WakeInv, BlockedWait, SuspendedWait, ListenerSleeps, Waits, HasLeft
  <1>. QED BY <1>2, <1>3, <1>4, <1>5, <1>6, <1>7, IoOp_Wake, Take_Wake, Suspend_Wake, Wait_Wake,
         TakeSuspended_Wake, Tick_Wake
         DEF TimesNext, IoListener, Quiet

\* An I/O that is over has taken what was asked.
LEMMA FinishedSlept ==
  ASSUME TimesTypeOK, WakeInv, IoListener_Finish \/ IoListener_FinishSuspended,
         io.process \notin late
  PROVE  slept[io.process] = asked[io.process]
  <1>1. PICK p \in Processes : p = io.process
    BY DEF IoListener_Finish, IoListener_FinishSuspended, TimesTypeOK, IoTimesOK
  <1>2. Sleeps(p) /\ now = io.wake
    BY <1>1 DEF IoListener_Finish, IoListener_FinishSuspended, WakeInv, ListenerSleeps, Occupied
  <1>3. /\ io.taken \in Nat /\ asked[p] \in Nat /\ pcb[p].pending_io_time \in Nat
        /\ slept[p] \in Int /\ now \in Nat
    BY DEF TimesTypeOK, CpuTimesOK, IoTimesOK, IoTimes, PcbTimes
  <1>4. CASE IoListener_Finish
    <2>1. now = io.taken + asked[p] /\ slept[p] = now - io.taken
      BY <1>2, <1>4 DEF Sleeps, IoListener_Finish
    <2>. QED BY <1>1, <1>3, <2>1
  <1>5. CASE IoListener_FinishSuspended
    <2>1. /\ now = io.taken + pcb[p].pending_io_time
          /\ slept[p] + pcb[p].pending_io_time = asked[p] + (now - io.taken)
      BY <1>2, <1>5 DEF Sleeps, IoListener_FinishSuspended
    <2>. QED BY <1>1, <1>3, <2>1
  <1>. QED BY <1>4, <1>5

\* What a step does not change of those that are on their way to ready_q.
LEMMA AdmittedKept ==
  ASSUME AdmittedSlept, Admitting' \subseteq Admitting, late \subseteq late',
         UNCHANGED <<asked, slept>>
  PROVE  AdmittedSlept'
  BY DEF AdmittedSlept

\* Whoever goes on the way to ready_q has slept its I/O out.
LEMMA AdmittedStep ==
  ASSUME TimesTypeOK, Apart, WakeInv, AdmittedSlept, [TimesNext]_timesVars
  PROVE  AdmittedSlept'
  <1>1. ASSUME UNCHANGED <<new_q, suspended_ready_q, to_ready, call, asked, slept>>,
               late \subseteq late'
        PROVE  AdmittedSlept'
    BY <1>1, AdmittedKept DEF Admitting
  <1>2. CASE UNCHANGED timesVars \/ ExitProcess \/ MemoryAnswers \/ ExitOp \/ HandleInterruption
    BY <1>1, <1>2 DEF timesVars, queueVars, truth, ExitProcess, MemoryAnswers, ExitOp,
       HandleInterruption
  <1>3. CASE ToExec_Wait \/ ToExec_Stamp \/ \E p \in Processes : ToExec_Send(p)
    BY <1>1, <1>3 DEF ToExec_Wait, ToExec_Stamp, ToExec_Send, queueVars, truth
  <1>4. CASE IoListener_Take \/ IoListener_Suspend \/ IoListener_Wait \/ IoListener_TakeSuspended
    BY <1>1, <1>4 DEF IoListener_Take, IoListener_Suspend, IoListener_Wait,
       IoListener_TakeSuspended, queueVars, truth
  <1>5. ASSUME NEW t \in Callers,
               PutToReady(t) \/ PutToReady_Interrupt(t) \/ PutToReady_Resume(t)
        PROVE  AdmittedSlept'
    <2>1. /\ UNCHANGED <<new_q, suspended_ready_q, to_ready, asked, slept, late>>
          /\ \A u \in Callers : call'[u] = call[u] \/ call'[u].process = NoProcess
      BY <1>5, PlaceTypes DEF PutToReady, PutToReady_Interrupt, PutToReady_Resume, queueVars,
         truth, NotCalled
    <2>2. Admitting' \subseteq Admitting
      BY <2>1 DEF Admitting
    <2>. QED BY <2>1, <2>2, AdmittedKept
  <1>6. CASE ToReady
    <2>1. UNCHANGED <<asked, slept, late>> /\ to_ready = NoProcess
      BY <1>6 DEF ToReady, truth
    <2>2. CASE /\ suspended_ready_q # <<>>
               /\ PutToReady_Call("to_ready", Head(suspended_ready_q))
               /\ suspended_ready_q' = Tail(suspended_ready_q)
               /\ UNCHANGED <<new_q, to_ready, memory>>
      <3>1. /\ Head(suspended_ready_q) \in Range(suspended_ready_q)
            /\ Range(Tail(suspended_ready_q)) \subseteq Range(suspended_ready_q)
        BY <2>2, PlaceTypes, TailOnce DEF Apart
      <3>2. \A u \in Callers : call'[u] = call[u] \/ call'[u].process = Head(suspended_ready_q)
        BY <2>2, PlaceTypes DEF PutToReady_Call
      <3>3. Admitting' \subseteq Admitting
        BY <2>2, <3>1, <3>2 DEF Admitting
      <3>. QED BY <2>1, <3>3, AdmittedKept
    <2>3. CASE /\ new_q # <<>> /\ to_ready' = Head(new_q) /\ new_q' = Tail(new_q)
               /\ UNCHANGED <<suspended_ready_q, call>>
      <3>1. Head(new_q) \in Range(new_q) /\ Range(Tail(new_q)) \subseteq Range(new_q)
        BY <2>3, PlaceTypes, TailOnce DEF Apart
      <3>2. Admitting' \subseteq Admitting
        BY <2>3, <3>1 DEF Admitting
      <3>. QED BY <2>1, <3>2, AdmittedKept
    <2>. QED BY <1>6, <2>2, <2>3 DEF ToReady
  <1>7. CASE NewToReady
    <2>1. /\ UNCHANGED <<new_q, suspended_ready_q, asked, slept, late>> /\ to_ready' = NoProcess
          /\ \A u \in Callers : call'[u] = call[u] \/ call'[u].process = to_ready
      BY <1>7, PlaceTypes DEF NewToReady, PutToReady_Call, queueVars, truth
    <2>2. Admitting' \subseteq Admitting
      BY <2>1 DEF Admitting
    <2>. QED BY <2>1, <2>2, AdmittedKept
  <1>8. CASE IoListener_Finish \/ IoListener_FinishSuspended
    <2>1. UNCHANGED <<asked, slept, late>>
      BY <1>8 DEF IoListener_Finish, IoListener_FinishSuspended, truth
    <2>2. Admitting' \subseteq Admitting \cup {io.process}
      <3>1. CASE IoListener_Finish
        <4>1. /\ UNCHANGED <<new_q, suspended_ready_q, to_ready>>
              /\ \A u \in Callers : call'[u] = call[u] \/ call'[u].process = io.process
          BY <3>1, PlaceTypes DEF IoListener_Finish, PutToReady_Call, queueVars
        <4>. QED BY <4>1 DEF Admitting
      <3>2. CASE IoListener_FinishSuspended
        <4>1. /\ UNCHANGED <<new_q, to_ready, call>> /\ io.process \in Processes
              /\ suspended_ready_q' = Append(suspended_ready_q, io.process)
          BY <3>2 DEF IoListener_FinishSuspended, TimesTypeOK, IoTimesOK
        <4>2. Range(suspended_ready_q') = Range(suspended_ready_q) \cup {io.process}
          BY <4>1, PlaceTypes, AppendOnce
        <4>. QED BY <4>1, <4>2 DEF Admitting
      <3>. QED BY <1>8, <3>1, <3>2
    <2>3. io.process \notin late => slept[io.process] = asked[io.process]
      BY <1>8, FinishedSlept
    <2>. QED BY <2>1, <2>2, <2>3 DEF AdmittedSlept
  <1>9. CASE IoOp
    <2>1. /\ UNCHANGED <<new_q, suspended_ready_q, to_ready, call>> /\ late' = late \ {cpu}
          /\ \A p \in Processes : p # cpu => asked'[p] = asked[p] /\ slept'[p] = slept[p]
      BY <1>9 DEF IoOp, TimesTypeOK, IoTimesOK
    <2>2. Admitting' = Admitting /\ \A p \in Admitting : p \in Processes /\ p # cpu
      BY <2>1, ApartFacts DEF Admitting
    <2>. QED BY <2>1, <2>2 DEF AdmittedSlept
  <1>10. CASE Tick
    <2>1. /\ UNCHANGED <<new_q, suspended_ready_q, to_ready, call, asked, late>>
          /\ \A p \in Processes : ~(Sleeping /\ p = io.process) => slept'[p] = slept[p]
          /\ Sleeping => Occupied
      BY <1>10 DEF Tick, queueVars, Sleeping, Occupied
    <2>2. /\ Admitting' = Admitting
          /\ \A p \in Admitting : p \in Processes /\ (Occupied => p # io.process)
      BY <2>1, ApartFacts DEF Admitting
    <2>. QED BY <2>1, <2>2 DEF AdmittedSlept
  <1>. QED BY <1>2, <1>3, <1>4, <1>5, <1>6, <1>7, <1>8, <1>9, <1>10
         DEF TimesNext, IoListener, Quiet

ListenerInv == TimesTypeOK /\ CpuInv /\ Apart /\ WakeInv /\ AdmittedSlept

\* The inductive invariant of io_listener, from the start on.
THEOREM ListenerCorrect ==
  ASSUME ShortWaits
  PROVE  TimesSpec => []ListenerInv
  <1>1. TimesInit => ListenerInv
    <2> SUFFICES ASSUME TimesInit PROVE WakeInv /\ AdmittedSlept
      BY TimesTypeInitially, CpuInvInitially, ApartInitially DEF ListenerInv
    <2>1. blocked_q = <<>> /\ suspended_block_q = <<>> /\ ~Occupied
      BY DEF TimesInit, Idle, Occupied
    <2>2. WakeInv
      BY <2>1 DEF WakeInv, BlockedWait, SuspendedWait, ListenerSleeps
    <2>3. \A p \in Admitting : p \in Processes
      BY TimesTypeInitially, ApartInitially, ApartFacts
    <2>4. AdmittedSlept
      BY <2>3 DEF TimesInit, AdmittedSlept
    <2>. QED BY <2>2, <2>4
  <1>2. ListenerInv /\ [TimesNext]_timesVars => ListenerInv'
    BY CpuTimesType, IoTimesType, AdmissionType, CpuInvStep, ApartStep, WakeStep, AdmittedStep
       DEF ListenerInv, TimesTypeOK
  <1>. QED BY <1>1, <1>2, PTL DEF TimesSpec

\* io_listener wakes a process that it got to in time when its I/O is over or its
\* maximum is reached, whichever is first, and suspends it exactly in the second case,
\* for every configuration whose times fit in an int and, as microseconds, in a uint32_t.
THEOREM WakesCorrect ==
  ASSUME ShortWaits
  PROVE  TimesSpec => []WakesInTime
  <1>1. ListenerInv => WakesInTime
    <2> SUFFICES ASSUME TimesTypeOK, WakeInv, io.at \in {"usleep", "usleep_max"},
                        io.process \notin late
                 PROVE  LET finish == io.taken + asked[io.process]
                            maximum == since[io.process] + MaxBlockedTime
                        IN  /\ io.wake = Min({finish, maximum})
                            /\ io.at = "usleep_max" <=> maximum < finish
      BY DEF WakesInTime, ListenerInv
    <2> DEFINE finish == io.taken + asked[io.process]
               maximum == since[io.process] + MaxBlockedTime
    <2>1. Sleeps(io.process)
      BY DEF WakeInv, ListenerSleeps, Occupied
    <2>2. finish \in Int /\ maximum \in Int
      <3>1. io.process \in Processes /\ io.taken \in Nat /\ MaxBlockedTime \in Nat
        BY TimesAssumption DEF TimesTypeOK, IoTimesOK, IoTimes
      <3>. QED BY <3>1 DEF TimesTypeOK, IoTimesOK
    <2>3. /\ io.at = "usleep" => io.wake = finish /\ finish <= maximum
          /\ io.at = "usleep_max" => io.wake = maximum /\ maximum < finish
      BY <2>1 DEF Sleeps
    <2> HIDE DEF finish, maximum
    <2>4. Min({finish, maximum}) = IF finish <= maximum THEN finish ELSE maximum
      BY <2>2, MinOfTwo
    <2>5. io.wake = Min({finish, maximum}) /\ (io.at = "usleep_max" <=> maximum < finish)
      BY <2>2, <2>3, <2>4
    <2>. QED BY <2>5 DEF finish, maximum
  <1>. QED BY <1>1, ListenerCorrect, PTL

\* A process that io_listener got to in time has slept for what it asked when put_to_ready
\* makes it ready again, with a suspension in between or without.
THEOREM IoCorrect ==
  ASSUME ShortWaits
  PROVE  TimesSpec => IoTakesWhatWasAsked
  <1>1. ListenerInv /\ [TimesNext]_timesVars
          => [\A p \in (ready' \ ready) \ (late \cup {cpu}) : slept[p] = asked[p]]_timesVars
    <2> SUFFICES ASSUME TimesTypeOK, AdmittedSlept, TimesNext,
                        NEW p \in (ready' \ ready) \ (late \cup {cpu})
                 PROVE  slept[p] = asked[p]
      BY DEF ListenerInv
    <2>1. \/ ready' \subseteq ready \cup {cpu}
          \/ \E t \in Callers : /\ ready' = ready \cup {call[t].process}
                                /\ call[t].at = "execution_mutex"
      BY DEF TimesNext, PutToReady, PutToReady_Interrupt, PutToReady_Resume, ToReady, NewToReady,
         ToExec_Wait, ToExec_Send, ToExec_Stamp, HandleInterruption, IoOp, ExitOp, ExitProcess,
         MemoryAnswers, IoListener, IoListener_Take, IoListener_Finish, IoListener_Suspend,
         IoListener_Wait, IoListener_TakeSuspended, IoListener_FinishSuspended, Tick, Quiet,
         timesVars
    <2>2. PICK t \in Callers : p = call[t].process /\ call[t].at = "execution_mutex"
      BY <2>1
    <2>3. p \in Processes
      BY <2>2 DEF TimesTypeOK, AdmissionOK
    <2>4. p \in Admitting
      BY <2>2, <2>3, ProcessesAssumption DEF Admitting
    <2>. QED BY <2>4 DEF AdmittedSlept
  <1>. QED BY <1>1, ListenerCorrect, PTL DEF TimesSpec, IoTakesWhatWasAsked

=============================================================================
