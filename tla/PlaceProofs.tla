---------------------------- MODULE PlaceProofs ----------------------------
(***************************************************************************)
(* Processes and the places they can be in: none is lost or duplicated,    *)
(* and the multiprogramming level bounds those in memory.                  *)
(*                                                                         *)
(* Neither property is inductive.  exit_process_success finds the process  *)
(* that ended by its pid, in a queue that its sender fills after sending,  *)
(* so the invariant must also say that the pids of the processes differ,   *)
(* that the requests and answers about an exit are as many as the          *)
(* processes that wait for one, and that no answer comes before the put:   *)
(* the last two are what OverlapConsoles = FALSE and SlowMemory = TRUE     *)
(* are for.  Once an eviction has returned a process that had left, the    *)
(* cycle thread waits at cpu_bussy for good and that process is twice in   *)
(* the kernel; until then the properties hold under SRT too.               *)
(***************************************************************************)
EXTENDS SystemProofs

-----------------------------------------------------------------------------
(* The inductive invariant. *)

\* The processes of S on their way from ready to exec, blocked and exit; those the
\* I/O thread holds; those that are leaving; those outside memory.
InReady(S) == Count(Held("to_ready"), S) + Count(queue["ready_q"], S)

InExec(S) == Count(dispatch, S) + Count(InCpu, S) + Count(Returning, S)

Queued(S) == Count(queue["blocked_q"], S) + Count(queue["exit_q"], S)

Inside(S) == InReady(S) + InExec(S) + Queued(S)

InIo(S) == Count(Held("io_listener"), S)

Leaving(S) == Count(Held("exit_process"), S) + Count(memory_exit_q, S)

Outside(S) ==
    Count(queue["new_q"], S) + Count(queue["suspended_block_q"], S)
      + Count(queue["suspended_ready_q"], S)

Total(S) == Inside(S) + InIo(S) + Leaving(S) + Outside(S)

\* Those of the I/O thread that use a permit of sem_multiprogram.
InIoAdmitted(S) == IF at["io_listener"] = "suspended_ready_q" THEN 0 ELSE InIo(S)

\* The processes with number n.
WithPid(n) == {p \in Pcb : p.pid = n}

\* The processes that no connection has numbered as they say.
Misnumbered ==
    {p \in Pcb : ~(/\ receiving[p.client_socket] = "received"
                   /\ p.pid = next_pid[p.client_socket])}

\* One connection at a time numbers its process, so that their numbers differ.
Numbered(c) == receiving[c] \in {"put", "received"}

Numbering ==
    /\ \A c \in Consoles :
         /\ receiving[c] = "pid++" => next_pid[c] = pid + 1
         /\ receiving[c] = "put" => next_pid[c] = pid
         /\ Numbered(c) => next_pid[c] <= pid
    /\ \A c, d \in Consoles :
         c # d =>
           /\ receiving[c] \in {"unsent", "received"} \/ receiving[d] \in {"unsent", "received"}
           /\ Numbered(c) /\ Numbered(d) => next_pid[c] # next_pid[d]

\* A thread holds no pcb at the points where it is about to take one.
HoldingPoints == {"PROCESS_NEW", "memory_init_q", "pcb_table_ready", "put_to_ready",
                  "PROCESS_SUSPEND", "waiting_for_suspension", "suspended_ready_q"}

HandsEmpty ==
    /\ \A t \in Planners : at[t] \notin HoldingPoints => hand[t] = NoPcb
    /\ at["exit_process"] # "memory_exit_q" => hand["exit_process"] = NoPcb

\* Packets about the exit of process n.
ExitRequests(n) == {m \in MemoryRequests : m.header = "PROCESS_EXIT" /\ m.pid = n}
ExitAnswers(n) == {m \in MemoryAnswers : m.header = "PROCESS_EXIT_READY" /\ m.pid = n}

ExitsMatch ==
    \A n \in Nat : Count(memory_requests, ExitRequests(n)) + Count(memory_answers, ExitAnswers(n))
                     = Leaving(WithPid(n))

\* The exit of a process is not answered before exit_process has put it.
PutBeforeAnswer ==
    at["exit_process"] = "memory_exit_q" =>
        Count(memory_answers, ExitAnswers(hand["exit_process"].pid)) = 0

\* The processes that use a permit of sem_multiprogram.
Used == Inside(Pcb) + InIoAdmitted(Pcb) + Leaving(Pcb)

Bounded == sem["sem_multiprogram"] + Used = MultiprogrammingLevel

Placed ==
    \A c \in Consoles : Total(ProcessOf(c)) + answers[c] = One(receiving[c] = "received")

Numbers == Total(Misnumbered) = 0

Settled == Bounded /\ Placed /\ Numbers /\ ExitsMatch /\ PutBeforeAnswer

PlaceInv == Numbering /\ HandsEmpty /\ (cycle # "cpu_bussy" => Settled)

-----------------------------------------------------------------------------
(* More about counting. *)

\* Two queues one after the other.
LEMMA CountConcat ==
  ASSUME NEW T, NEW s \in Seq(T), NEW u \in Seq(T), NEW S
  PROVE  s \o u \in Seq(T) /\ Count(s \o u, S) = Count(s, S) + Count(u, S)
  <1> DEFINE left == {i \in DOMAIN s : s[i] \in S}
             right == {i \in DOMAIN u : u[i] \in S}
             moved == {i \in DOMAIN (s \o u) : i > Len(s) /\ (s \o u)[i] \in S}
             all == {i \in DOMAIN (s \o u) : (s \o u)[i] \in S}
             shift == [i \in right |-> i + Len(s)]
  <1>1. /\ s \o u \in Seq(T) /\ Len(s \o u) = Len(s) + Len(u)
        /\ Len(s) \in Nat /\ Len(u) \in Nat
        /\ \A i \in 1 .. Len(s) : (s \o u)[i] = s[i]
        /\ \A i \in 1 .. Len(u) : (s \o u)[i + Len(s)] = u[i]
    OBVIOUS
  <1>2. DOMAIN s = 1 .. Len(s) /\ DOMAIN u = 1 .. Len(u) /\ DOMAIN (s \o u) = 1 .. Len(s) + Len(u)
    BY <1>1
  <1>3. all = left \cup moved /\ left \cap moved = {}
    BY <1>1, <1>2
  <1>4. shift \in Bijection(right, moved)
    <2>1. shift \in [right -> moved]
      BY <1>1, <1>2
    <2>2. \A a, b \in right : shift[a] = shift[b] => a = b
      BY <1>1
    <2>3. \A j \in moved : \E i \in right : shift[i] = j
      <3> SUFFICES ASSUME NEW j \in moved PROVE \E i \in right : shift[i] = j
        OBVIOUS
      <3>0. j \in 1 .. Len(s) + Len(u) /\ j > Len(s) /\ (s \o u)[j] \in S
        BY <1>2
      <3>1. j - Len(s) \in 1 .. Len(u) /\ j = (j - Len(s)) + Len(s)
        BY <1>1, <3>0
      <3>2. (s \o u)[(j - Len(s)) + Len(s)] = u[j - Len(s)]
        BY <1>1, <3>1
      <3>3. j - Len(s) \in right
        BY <1>2, <3>0, <3>1, <3>2
      <3>. QED BY <3>1, <3>3
    <2>. QED BY <2>1, <2>2, <2>3 DEF Bijection, Injection, Surjection, IsInjective
  <1>5. IsFiniteSet(left) /\ IsFiniteSet(right)
    BY CountType
  <1>6. IsFiniteSet(moved) /\ Cardinality(moved) = Cardinality(right)
    <2> HIDE DEF right, moved, shift
    <2>. QED BY <1>4, <1>5, FS_Bijection DEF ExistsBijection
  <1>7. Cardinality(all) = Cardinality(left) + Cardinality(moved)
    <2> HIDE DEF all, left, moved
    <2>1. Cardinality(left \cup moved)
            = Cardinality(left) + Cardinality(moved) - Cardinality(left \cap moved)
      BY <1>5, <1>6, FS_Union
    <2>2. Cardinality(left) \in Nat /\ Cardinality(moved) \in Nat
      BY <1>5, <1>6, FS_CardinalityType
    <2>3. Cardinality(left \cap moved) = 0
      BY <1>3, FS_EmptySet
    <2>. QED BY <1>3, <2>1, <2>2, <2>3
  <1>8. /\ Count(s \o u, S) = Cardinality(all) /\ Count(s, S) = Cardinality(left)
        /\ Count(u, S) = Cardinality(right)
    BY DEF Count
  <1>. QED BY <1>1, <1>6, <1>7, <1>8

\* pQueue_sort neither loses nor adds anything.
LEMMA CountSorted ==
  ASSUME NEW T, NEW s \in Seq(T), NEW r \in SortsOf(s), NEW S
  PROVE  Count(r, S) = Count(s, S)
  <1> DEFINE D == DOMAIN s
             new == {i \in D : r[i] \in S}
             old == {i \in D : s[i] \in S}
  <1>1. PICK f \in Permutation(D) : r = [i \in D |-> s[f[i]]]
    BY DEF SortsOf
  <1>2. f \in Surjection(D, D)
    BY DEF Permutation, Surjection
  <1>3. IsFiniteSet(D)
    <2>1. D = 1 .. Len(s) /\ Len(s) \in Nat
      OBVIOUS
    <2>. QED BY <2>1, FS_Interval
  <1>4. f \in Injection(D, D)
    BY <1>2, <1>3, FS_SurjSameCardinalityImpliesInj
  <1>5. f \in [D -> D] /\ \A a, b \in D : f[a] = f[b] => a = b
    BY <1>4 DEF Injection, IsInjective
  <1> DEFINE g == [i \in new |-> f[i]]
  <1>6. g \in Bijection(new, old)
    <2>1. g \in [new -> old]
      BY <1>1, <1>5
    <2>2. \A a, b \in new : g[a] = g[b] => a = b
      BY <1>5
    <2>3. \A j \in old : \E i \in new : g[i] = j
      <3> SUFFICES ASSUME NEW j \in old PROVE \E i \in new : g[i] = j
        OBVIOUS
      <3>1. PICK i \in D : f[i] = j
        BY DEF Permutation
      <3>2. i \in new
        BY <1>1, <3>1
      <3>. QED BY <3>1, <3>2
    <2>. QED BY <2>1, <2>2, <2>3 DEF Bijection, Injection, Surjection, IsInjective
  <1>7. IsFiniteSet(new)
    BY <1>3, FS_Subset
  <1>8. Cardinality(old) = Cardinality(new)
    <2> HIDE DEF old, new, g
    <2>. QED BY <1>6, <1>7, FS_Bijection DEF ExistsBijection
  <1>9. DOMAIN r = D
    BY <1>1
  <1>10. Count(r, S) = Cardinality(new) /\ Count(s, S) = Cardinality(old)
    BY <1>9 DEF Count
  <1>. QED BY <1>8, <1>10

\* A larger set counts for more.
LEMMA CountMonotonic ==
  ASSUME NEW T, NEW s \in Seq(T), NEW S, NEW R, S \subseteq R
  PROVE  Count(s, S) <= Count(s, R)
  <1>1. IsFiniteSet({i \in DOMAIN s : s[i] \in R})
    BY CountType
  <1>2. {i \in DOMAIN s : s[i] \in S} \in SUBSET {i \in DOMAIN s : s[i] \in R}
    OBVIOUS
  <1>. QED BY <1>1, <1>2, FS_Subset DEF Count

\* One element, or none.
LEMMA CountSingle ==
  ASSUME NEW e, NEW S
  PROVE  Count(<<e>>, S) = One(e \in S)
  <1>1. CASE e \in S
    <2>1. {i \in DOMAIN <<e>> : <<e>>[i] \in S} = {1}
      BY <1>1
    <2>. QED BY <1>1, <2>1, FS_Singleton DEF Count, One
  <1>2. CASE e \notin S
    <2>1. {i \in DOMAIN <<e>> : <<e>>[i] \in S} = {}
      BY <1>2
    <2>. QED BY <1>2, <2>1, FS_EmptySet DEF Count, One
  <1>. QED BY <1>1, <1>2

\* What a count says of the elements: none in S when it is 0, one place when it is 1.
LEMMA CountMeans ==
  ASSUME NEW T, NEW s \in Seq(T), NEW S
  PROVE  /\ Count(s, S) = 0 <=> \A i \in DOMAIN s : s[i] \notin S
         /\ Count(s, S) <= 1 =>
              \A i, j \in DOMAIN s : s[i] \in S /\ s[j] \in S => i = j
  <1> DEFINE I == {i \in DOMAIN s : s[i] \in S}
  <1>1. IsFiniteSet(I) /\ Count(s, S) = Cardinality(I) /\ Cardinality(I) \in Nat
    BY CountType, FS_CardinalityType DEF Count
  <1>2. Cardinality(I) = 0 <=> I = {}
    BY <1>1, FS_EmptySet
  <1>3. Cardinality(I) = 1 => \E x : I = {x}
    BY <1>1, FS_Singleton
  <1>4. Count(s, S) <= 1 => Cardinality(I) = 0 \/ Cardinality(I) = 1
    <2> HIDE DEF I
    <2>. QED BY <1>1
  <1>5. Count(s, S) = 0 <=> I = {}
    BY <1>1, <1>2
  <1>6. Count(s, S) <= 1 => \A i, j \in I : i = j
    BY <1>2, <1>3, <1>4
  <1>. QED BY <1>5, <1>6

\* Freeing the pcb at position k.
LEMMA CountFreed ==
  ASSUME NEW T, NEW s \in Seq(T), NEW k \in DOMAIN s, NEW e, NEW S, e \notin S,
         NEW r, r = [i \in DOMAIN s |-> IF i = k THEN e ELSE s[i]]
  PROVE  Count(s, S) = Count(r, S) + One(s[k] \in S)
  <1> DEFINE old == {i \in DOMAIN s : s[i] \in S}
             new == {i \in DOMAIN r : r[i] \in S}
  <1>1. IsFiniteSet(old) /\ Cardinality(old) \in Nat
    BY CountType, FS_CardinalityType
  <1>2. new = old \ {k}
    OBVIOUS
  <1>3. Cardinality(new) = IF k \in old THEN Cardinality(old) - 1 ELSE Cardinality(old)
    <2> HIDE DEF old, new
    <2>. QED BY <1>1, <1>2, FS_RemoveElement
  <1>4. k \in old <=> s[k] \in S
    OBVIOUS
  <1>5. Count(s, S) = Cardinality(old) /\ Count(r, S) = Cardinality(new)
    BY DEF Count
  <1> HIDE DEF old, new
  <1>. QED BY <1>1, <1>3, <1>4, <1>5 DEF One

-----------------------------------------------------------------------------
(* The places, and sets of processes told apart by console and pid only. *)

\* Membership in S does not depend on what the programs change in a pcb.
Kept(S) ==
    /\ S \subseteq Pcb
    /\ \A p, r \in Pcb :
         p.client_socket = r.client_socket /\ p.pid = r.pid => (p \in S <=> r \in S)

\* The sets that the invariant counts.
LEMMA KeptSets ==
  /\ Kept(Pcb) /\ Kept(Misnumbered)
  /\ \A c : Kept(ProcessOf(c))
  /\ \A n : Kept(WithPid(n))
  BY DEF Kept, Misnumbered, ProcessOf, WithPid

\* Nor on what they change once its memory was made.
Carried(S) ==
    /\ S \subseteq Pcb
    /\ \A p, r \in Pcb :
         /\ p.client_socket = r.client_socket /\ p.pid = r.pid
         /\ p.process_frames_index = r.process_frames_index
         => (p \in S <=> r \in S)

\* What no change shows in, a change of some fields does not.
LEMMA KeptCarried ==
  ASSUME NEW S, Kept(S)
  PROVE  Carried(S)
  BY DEF Kept, Carried

\* A new estimate or a new program counter leaves a process in its set.
LEMMA CarriedFields ==
  ASSUME NEW S, Carried(S), NEW p \in Pcb
  PROVE  /\ \A e \in Estimates : /\ [p EXCEPT !.left_burst_estimation = e] \in Pcb
                                 /\ [p EXCEPT !.left_burst_estimation = e] \in S <=> p \in S
         /\ [p EXCEPT !.program_counter = @ + 1] \in Pcb
         /\ [p EXCEPT !.program_counter = @ + 1] \in S <=> p \in S
  <1>1. ASSUME NEW e \in Estimates
        PROVE  /\ [p EXCEPT !.left_burst_estimation = e] \in Pcb
               /\ [p EXCEPT !.left_burst_estimation = e] \in S <=> p \in S
    <2> DEFINE r == [p EXCEPT !.left_burst_estimation = e]
    <2>1. /\ r \in Pcb /\ r.client_socket = p.client_socket /\ r.pid = p.pid
          /\ r.process_frames_index = p.process_frames_index
      BY DEF Pcb
    <2> HIDE DEF r
    <2>2. r \in Pcb /\ (r \in S <=> p \in S)
      BY <2>1 DEF Carried
    <2>. QED BY <2>2 DEF r
  <1>2. /\ [p EXCEPT !.program_counter = @ + 1] \in Pcb
        /\ [p EXCEPT !.program_counter = @ + 1] \in S <=> p \in S
    <2> DEFINE r == [p EXCEPT !.program_counter = @ + 1]
    <2>1. /\ r \in Pcb /\ r.client_socket = p.client_socket /\ r.pid = p.pid
          /\ r.process_frames_index = p.process_frames_index
      BY DEF Pcb
    <2> HIDE DEF r
    <2>2. r \in Pcb /\ (r \in S <=> p \in S)
      BY <2>1 DEF Carried
    <2>. QED BY <2>2 DEF r
  <1>. QED BY <1>1, <1>2

\* New tables leave it in its set as well, if that does not depend on them.
LEMMA KeptTables ==
  ASSUME NEW S, Kept(S), NEW p \in Pcb, NEW i \in Nat, NEW j \in Nat
  PROVE  LET r == [p EXCEPT !.page_table = i, !.process_frames_index = j] IN
         r \in Pcb /\ (r \in S <=> p \in S)
  <1> DEFINE r == [p EXCEPT !.page_table = i, !.process_frames_index = j]
  <1>1. r \in Pcb /\ r.client_socket = p.client_socket /\ r.pid = p.pid
    BY DEF Pcb
  <1> HIDE DEF r
  <1>2. r \in Pcb /\ (r \in S <=> p \in S)
    BY <1>1 DEF Kept
  <1>. QED BY <1>2 DEF r

\* A thread's hand and the CPU are places for one process.
LEMMA SinglePlaces ==
  ASSUME SystemInv, NEW S, Carried(S)
  PROVE  /\ \A t \in Holders : Count(Held(t), S) = One(hand[t] \in S)
         /\ Count(InCpu, S) = One(pcb_loaded + cpu_bussy > 0 /\ cpu_pcb \in S)
  <1>1. ASSUME NEW t \in Holders PROVE Count(Held(t), S) = One(hand[t] \in S)
    <2>1. CASE hand[t] = NoPcb
      BY <2>1, CountEmpty, NoPcbAssumption DEF Held, One, Carried
    <2>2. CASE hand[t] # NoPcb
      BY <2>2, CountSingle DEF Held
    <2>. QED BY <2>1, <2>2
  <1>2. Count(InCpu, S) = One(pcb_loaded + cpu_bussy > 0 /\ cpu_pcb \in S)
    <2>1. CASE pcb_loaded + cpu_bussy > 0
      BY <2>1, CountSingle DEF InCpu, One
    <2>2. CASE ~(pcb_loaded + cpu_bussy > 0)
      BY <2>2, CountEmpty DEF InCpu, One
    <2>. QED BY <2>1, <2>2
  <1>. QED BY <1>1, <1>2

\* Every place is a queue of pcbs.
LEMMA PlaceTypes ==
  ASSUME SystemInv
  PROVE  /\ sem \in [Semaphores -> Nat] /\ at \in [Threads -> Locations]
         /\ queue \in [Queues -> Seq(Pcb)]
         /\ hand \in [Holders -> Pcb \cup {NoPcb}]
         /\ HandsFull /\ OneAdmission /\ SemaphoresMatchQueues
         /\ dispatch \in Seq(Pcb) /\ returns \in Seq(Returns) /\ Returning \in Seq(Pcb)
         /\ InCpu \in Seq(Pcb)
         /\ \A t \in Holders : Held(t) \in Seq(Pcb)
         /\ memory_exit_q \in Seq(Pcb \cup {Freed})
         /\ memory_requests \in Seq(MemoryRequests) /\ memory_answers \in Seq(MemoryAnswers)
         /\ answers \in [Consoles -> Nat] /\ pid \in Nat /\ next_pid \in [Consoles -> Nat]
         /\ receiving \in [Consoles -> {"unsent", "pid++", "put", "received"}]
         /\ pcb_loaded \in Nat /\ cpu_bussy \in Nat
  <1>1. /\ sem \in [Semaphores -> Nat] /\ at \in [Threads -> Locations]
        /\ queue \in [Queues -> Seq(Pcb)] /\ hand \in [Holders -> Pcb \cup {NoPcb}]
        /\ HandsFull /\ OneAdmission /\ SemaphoresMatchQueues
        /\ memory_exit_q \in Seq(Pcb \cup {Freed})
        /\ answers \in [Consoles -> Nat] /\ pid \in Nat /\ next_pid \in [Consoles -> Nat]
        /\ receiving \in [Consoles -> {"unsent", "pid++", "put", "received"}]
    BY DEF SystemInv, KernelInv, KernelTypeOK, SemaphoresOK, LocationsOK, QueuesOK, HandsOK,
       DeparturesOK, ArrivalsOK
  <1>2. /\ dispatch \in Seq(Pcb) /\ returns \in Seq(Returns)
        /\ memory_requests \in Seq(MemoryRequests) /\ memory_answers \in Seq(MemoryAnswers)
    BY DEF SystemInv, KernelInv, SocketsTypeOK
  <1>3. Returning \in Seq(Pcb)
    <2>1. \A i \in 1 .. Len(returns) : returns[i] \in Returns
      BY <1>2
    <2>2. \A i \in 1 .. Len(returns) : returns[i].pcb \in Pcb
      BY <2>1 DEF Returns
    <2>3. DOMAIN returns = 1 .. Len(returns) /\ Len(returns) \in Nat
      BY <1>2
    <2>. QED BY <2>2, <2>3 DEF Returning
  <1>4. /\ InCpu \in Seq(Pcb) /\ pcb_loaded \in Nat /\ cpu_bussy \in Nat
    BY DEF SystemInv, CpuInv, CpuLoaded, CpuTypeOK, InCpu
  <1>5. \A t \in Holders : Held(t) \in Seq(Pcb)
    BY <1>1 DEF Held
  <1>. QED BY <1>1, <1>2, <1>3, <1>4, <1>5

\* Every count is a number.
LEMMA PlaceCounts ==
  ASSUME SystemInv, NEW S
  PROVE  /\ Count(Held("to_ready"), S) \in Nat /\ Count(queue["ready_q"], S) \in Nat
         /\ Count(dispatch, S) \in Nat /\ Count(InCpu, S) \in Nat
         /\ Count(Returning, S) \in Nat /\ Count(queue["blocked_q"], S) \in Nat
         /\ Count(queue["exit_q"], S) \in Nat /\ Count(Held("io_listener"), S) \in Nat
         /\ Count(Held("exit_process"), S) \in Nat /\ Count(memory_exit_q, S) \in Nat
         /\ Count(queue["new_q"], S) \in Nat /\ Count(queue["suspended_block_q"], S) \in Nat
         /\ Count(queue["suspended_ready_q"], S) \in Nat
  <1>1. \A q \in Queues : queue[q] \in Seq(Pcb)
    BY PlaceTypes
  <1>2. \A q \in Queues : Count(queue[q], S) \in Nat
    BY <1>1, CountType
  <1>3. \A t \in Holders : Count(Held(t), S) \in Nat
    BY PlaceTypes, CountType
  <1>4. /\ Count(dispatch, S) \in Nat /\ Count(InCpu, S) \in Nat /\ Count(Returning, S) \in Nat
        /\ Count(memory_exit_q, S) \in Nat
    BY PlaceTypes, CountType
  <1>. QED BY <1>2, <1>3, <1>4 DEF Queues, Holders, Planners

\* And so are their sums.
LEMMA GroupCounts ==
  ASSUME SystemInv, NEW S
  PROVE  /\ InReady(S) \in Nat /\ InExec(S) \in Nat /\ Queued(S) \in Nat
         /\ Inside(S) \in Nat /\ InIo(S) \in Nat /\ Leaving(S) \in Nat /\ Outside(S) \in Nat
         /\ InIoAdmitted(S) \in Nat
  <1>1. InReady(S) \in Nat /\ InExec(S) \in Nat /\ Queued(S) \in Nat
    BY PlaceCounts DEF InReady, InExec, Queued
  <1>2. InIo(S) \in Nat /\ Leaving(S) \in Nat /\ Outside(S) \in Nat
    BY PlaceCounts DEF InIo, Leaving, Outside
  <1>. QED BY <1>1, <1>2 DEF Inside, InIoAdmitted

\* A packet that returns a process adds it to the places.
LEMMA ReturningPut ==
  ASSUME SystemInv, NEW S, NEW p \in Pcb, NEW h \in {"IO_CALL", "EXIT_CALL", "INTERRUPT_DISPATCH"},
         returns' = Append(returns, [header |-> h, pcb |-> p])
  PROVE  Count(Returning, S)' = Count(Returning, S) + One(p \in S)
  <1>1. Returning \in Seq(Pcb) /\ returns \in Seq(Returns)
    BY PlaceTypes
  <1>2. [header |-> h, pcb |-> p] \in Returns /\ [header |-> h, pcb |-> p].pcb = p
    BY DEF Returns
  <1>3. Returning' = Append(Returning, p)
    <2> DEFINE n == Len(returns)
    <2>1. DOMAIN returns = 1 .. n /\ DOMAIN returns' = 1 .. n + 1 /\ n \in Nat
      BY <1>1, <1>2
    <2>2. \A i \in 1 .. n : returns'[i] = returns[i]
      BY <1>1, <1>2
    <2>3. returns'[n + 1].pcb = p
      BY <1>1, <1>2
    <2>4. Returning' = [i \in 1 .. n + 1 |-> returns'[i].pcb]
      BY <2>1 DEF Returning
    <2>5. Append(Returning, p) = [i \in 1 .. n + 1 |-> IF i = n + 1 THEN p ELSE Returning[i]]
      BY <1>1, <2>1 DEF Returning
    <2>6. \A i \in 1 .. n : Returning[i] = returns[i].pcb
      BY <2>1 DEF Returning
    <2>. QED BY <2>1, <2>2, <2>3, <2>4, <2>5, <2>6
  <1>4. Count(Returning', S) = Count(Returning, S) + One(p \in S)
    BY <1>1, <1>3, CountAppend
  <1>. QED BY <1>4

\* Handling a packet removes its process.
LEMMA ReturningTake ==
  ASSUME SystemInv, NEW S, returns # <<>>, returns' = Tail(returns)
  PROVE  Count(Returning, S) = Count(Returning, S)' + One(Head(returns).pcb \in S)
  <1>1. Returning \in Seq(Pcb) /\ returns \in Seq(Returns)
    BY PlaceTypes
  <1> DEFINE n == Len(returns)
  <1>2. DOMAIN returns = 1 .. n /\ DOMAIN returns' = 1 .. n - 1 /\ n \in Nat /\ n > 0
    BY <1>1
  <1>3. \A i \in 1 .. n - 1 : returns'[i] = returns[i + 1]
    BY <1>1
  <1>4. Returning' = Tail(Returning)
    <2>1. Len(Returning) = n
      BY <1>1, <1>2 DEF Returning
    <2>2. Tail(Returning) = [i \in 1 .. n - 1 |-> Returning[i + 1]]
      <3> DEFINE s == Returning
      <3>1. s \in Seq(Pcb) /\ Len(s) = n /\ s # <<>>
        BY <1>1, <1>2, <2>1
      <3> HIDE DEF s
      <3>2. Tail(s) \in Seq(Pcb) /\ Len(Tail(s)) = n - 1
        BY <3>1
      <3>3. Tail(s) = [i \in 1 .. n - 1 |-> Tail(s)[i]]
        <4>1. DOMAIN Tail(s) = 1 .. n - 1
          BY <3>2
        <4>2. \A u \in Seq(Pcb) : \E k \in Nat : u \in [1 .. k -> Pcb]
          OBVIOUS
        <4> DEFINE u == Tail(s)
        <4>3. PICK k \in Nat : u \in [1 .. k -> Pcb]
          BY <3>2, <4>2
        <4> HIDE DEF u
        <4>4. u = [i \in DOMAIN u |-> u[i]]
          BY <4>3
        <4>. QED BY <4>1, <4>4 DEF u
      <3>4. \A i \in 1 .. n - 1 : Tail(s)[i] = s[i + 1]
        BY <3>1
      <3>5. Tail(s) = [i \in 1 .. n - 1 |-> s[i + 1]]
        BY <3>3, <3>4
      <3>. QED BY <3>5 DEF s
    <2>3. Returning' = [i \in 1 .. n - 1 |-> returns'[i].pcb]
      BY <1>2 DEF Returning
    <2>4. \A i \in 1 .. n - 1 : Returning[i + 1] = returns[i + 1].pcb
      BY <1>2 DEF Returning
    <2>. QED BY <1>3, <2>2, <2>3, <2>4
  <1>5. Returning # <<>> /\ Head(Returning) = Head(returns).pcb
    BY <1>1, <1>2 DEF Returning
  <1>6. Count(Returning, S) = Count(Returning', S) + One(Head(Returning) \in S)
    BY <1>1, <1>4, <1>5, CountTail
  <1>. QED BY <1>5, <1>6

-----------------------------------------------------------------------------
(* Where each step moves a process. *)

\* So many processes of S more (or, below zero, less) in each part.
Moved(S, inside, io, leaving, outside) ==
    /\ Inside(S)' = Inside(S) + inside
    /\ InIo(S)' = InIo(S) + io
    /\ Leaving(S)' = Leaving(S) + leaving
    /\ Outside(S)' = Outside(S) + outside

\* A hand that does not change, and one that becomes empty or full.
LEMMA Hands ==
  ASSUME SystemInv, SystemInv', NEW S, Carried(S), NEW t \in Holders
  PROVE  /\ hand'[t] = hand[t] => Count(Held(t), S)' = Count(Held(t), S)
         /\ Count(Held(t), S)' = One(hand'[t] \in S)
         /\ Count(Held(t), S) = One(hand[t] \in S)
         /\ hand'[t] = NoPcb => Count(Held(t), S)' = 0
         /\ hand[t] = NoPcb => Count(Held(t), S) = 0
  <1>1. Count(Held(t), S)' = One(hand'[t] \in S) /\ Count(Held(t), S) = One(hand[t] \in S)
    <2>1. CASE hand'[t] = NoPcb
      BY <2>1, SinglePlaces, CountEmpty, NoPcbAssumption DEF Held, One, Carried
    <2>2. CASE hand'[t] # NoPcb
      BY <2>2, SinglePlaces, CountSingle DEF Held
    <2>. QED BY <2>1, <2>2
  <1>2. NoPcb \notin S
    BY NoPcbAssumption DEF Carried
  <1>. QED BY <1>1, <1>2 DEF One

\* Nothing moves.
LEMMA Resting ==
  ASSUME SystemInv, NEW S,
         UNCHANGED <<hand, dispatch, returns, cpu_pcb, pcb_loaded, cpu_bussy, memory_exit_q>>,
         \A q \in Queues \ {"memory_init_q"} : queue'[q] = queue[q]
  PROVE  Moved(S, 0, 0, 0, 0)
  <1>1. UNCHANGED <<Held("to_ready"), Held("io_listener"), Held("exit_process"), InCpu, Returning>>
    BY DEF Held, InCpu, Returning
  <1>2. /\ UNCHANGED <<queue["new_q"], queue["ready_q"], queue["blocked_q"], queue["exit_q"],
                       queue["suspended_block_q"], queue["suspended_ready_q"]>>
    BY DEF Queues
  <1>3. UNCHANGED <<Inside(S), InIo(S), Leaving(S), Outside(S)>>
    BY <1>1, <1>2 DEF Inside, InReady, InExec, Queued, InIo, Leaving, Outside
  <1>. QED BY <1>3, GroupCounts DEF Moved

\* put_to_ready moves a process from the planner's hand to ready_q.
LEMMA PutToReady_Moves ==
  ASSUME SystemInv, SystemInv', UNCHANGED cpuVars, NEW t \in Planners, PutToReady(t),
         NEW S, Carried(S)
  PROVE  LET d == One(hand[t] \in S) IN
         /\ t = "to_ready" => Moved(S, 0, 0, 0, 0)
         /\ t = "io_listener" => Moved(S, d, -d, 0, 0)
  <1>0. /\ queue \in [Queues -> Seq(Pcb)] /\ hand \in [Holders -> Pcb \cup {NoPcb}]
        /\ queue["ready_q"] \in Seq(Pcb) /\ HandsFull
    BY PlaceTypes DEF Queues
  <1>1. /\ UNCHANGED <<dispatch, returns, cpu_pcb, pcb_loaded, cpu_bussy, memory_exit_q>>
        /\ hand' = [hand EXCEPT ![t] = NoPcb]
        /\ at[t] = "put_to_ready"
    BY DEF PutToReady, PutToReady_Fifo, PutToReady_Replan, PutToReady_Interrupt, departures,
       cpuVars
  <1>2. hand[t] \in Pcb
    BY <1>0, <1>1 DEF HandsFull, Planners
  <1>3. PICK r \in Seq(Pcb) : /\ queue' = [queue EXCEPT !["ready_q"] = r]
                              /\ Count(r, S) = Count(queue["ready_q"], S) + One(hand[t] \in S)
    <2> DEFINE s == Append(queue["ready_q"], hand[t])
    <2>1. s \in Seq(Pcb) /\ Count(s, S) = Count(queue["ready_q"], S) + One(hand[t] \in S)
      BY <1>0, <1>2, CountAppend
    <2>2. \A r \in SortsOf(s) : r \in Seq(Pcb) /\ Count(r, S) = Count(s, S)
      BY <2>1, SortLemma, CountSorted
    <2>3. \/ queue' = [queue EXCEPT !["ready_q"] = s]
          \/ \E r \in SortsOf(s) : queue' = [queue EXCEPT !["ready_q"] = r]
      BY DEF PutToReady, PutToReady_Fifo, PutToReady_Replan, PutToReady_Interrupt
    <2> HIDE DEF s
    <2>. QED BY <2>1, <2>2, <2>3
  <1>4. /\ queue'["ready_q"] = r
        /\ UNCHANGED <<queue["new_q"], queue["blocked_q"], queue["exit_q"],
                       queue["suspended_block_q"], queue["suspended_ready_q"]>>
    BY <1>0, <1>3 DEF Queues
  <1>5. UNCHANGED <<InCpu, Returning>>
    BY <1>1 DEF InCpu, Returning
  <1>6. Count(Held(t), S) = One(hand[t] \in S) /\ Count(Held(t), S)' = 0
    BY <1>0, <1>1, Hands DEF Holders
  <1>7. \A h \in Holders \ {t} : Count(Held(h), S)' = Count(Held(h), S)
    BY <1>0, <1>1, Hands
  <1> DEFINE d == One(hand[t] \in S)
  <1>8. d \in Nat
    BY DEF One
  <1>9. /\ Count(queue["ready_q"], S)' = Count(queue["ready_q"], S) + d
        /\ UNCHANGED <<Count(dispatch, S), Count(InCpu, S), Count(Returning, S),
                       Count(queue["blocked_q"], S), Count(queue["exit_q"], S),
                       Count(memory_exit_q, S), Count(queue["new_q"], S),
                       Count(queue["suspended_block_q"], S),
                       Count(queue["suspended_ready_q"], S),
                       Count(Held("exit_process"), S)>>
    BY <1>1, <1>3, <1>4, <1>5, <1>7 DEF Holders, Planners
  <1>10. InExec(S)' = InExec(S) /\ Queued(S)' = Queued(S)
    BY <1>9 DEF InExec, Queued
  <1>11. Outside(S)' = Outside(S) /\ Leaving(S)' = Leaving(S)
    BY <1>9 DEF Outside, Leaving
  <1>12. CASE t = "to_ready"
    <2>1. /\ Count(Held("to_ready"), S) = d /\ Count(Held("to_ready"), S)' = 0
          /\ Count(Held("io_listener"), S)' = Count(Held("io_listener"), S)
      BY <1>6, <1>7, <1>12 DEF Holders, Planners
    <2> HIDE DEF d
    <2>2. InReady(S)' = InReady(S) /\ InIo(S)' = InIo(S)
      BY <1>8, <1>9, <2>1, PlaceCounts DEF InReady, InIo
    <2>. QED BY <1>10, <1>11, <1>12, <2>2, GroupCounts DEF Moved, Inside
  <1>13. CASE t = "io_listener"
    <2>1. /\ Count(Held("io_listener"), S) = d /\ Count(Held("io_listener"), S)' = 0
          /\ Count(Held("to_ready"), S)' = Count(Held("to_ready"), S)
      BY <1>6, <1>7, <1>13 DEF Holders, Planners
    <2>2. Moved(S, d, -d, 0, 0)
      <3> HIDE DEF d
      <3>1. InReady(S)' = InReady(S) + d
        BY <1>8, <1>9, <2>1, PlaceCounts DEF InReady
      <3>2. InIo(S)' = InIo(S) - d
        BY <1>8, <2>1 DEF InIo
      <3>. QED BY <1>8, <1>10, <1>11, <3>1, <3>2, GroupCounts DEF Moved, Inside
    <2>. QED BY <1>13, <2>2
  <1>. QED BY <1>12, <1>13 DEF Planners

\* The parts that a step leaves alone.
LEMMA GroupsSame ==
  ASSUME NEW S
  PROVE  /\ hand'["to_ready"] = hand["to_ready"] /\ queue'["ready_q"] = queue["ready_q"]
              => InReady(S)' = InReady(S)
         /\ UNCHANGED <<dispatch, returns, cpu_pcb, pcb_loaded, cpu_bussy>>
              => InExec(S)' = InExec(S)
         /\ queue'["blocked_q"] = queue["blocked_q"] /\ queue'["exit_q"] = queue["exit_q"]
              => Queued(S)' = Queued(S)
         /\ hand'["io_listener"] = hand["io_listener"] => InIo(S)' = InIo(S)
         /\ hand'["exit_process"] = hand["exit_process"] /\ memory_exit_q' = memory_exit_q
              => Leaving(S)' = Leaving(S)
         /\ UNCHANGED <<queue["new_q"], queue["suspended_block_q"],
                        queue["suspended_ready_q"]>> => Outside(S)' = Outside(S)
  <1>1. \A t : hand'[t] = hand[t] => Held(t)' = Held(t)
    BY DEF Held
  <1>2. ASSUME UNCHANGED <<dispatch, returns, cpu_pcb, pcb_loaded, cpu_bussy>>
        PROVE  InExec(S)' = InExec(S)
    <2>1. InCpu' = InCpu /\ Returning' = Returning
      BY <1>2 DEF InCpu, Returning
    <2>. QED BY <1>2, <2>1 DEF InExec
  <1>3. hand'["to_ready"] = hand["to_ready"] /\ queue'["ready_q"] = queue["ready_q"]
          => InReady(S)' = InReady(S)
    BY <1>1 DEF InReady
  <1>4. hand'["io_listener"] = hand["io_listener"] => InIo(S)' = InIo(S)
    BY <1>1 DEF InIo
  <1>5. hand'["exit_process"] = hand["exit_process"] /\ memory_exit_q' = memory_exit_q
          => Leaving(S)' = Leaving(S)
    BY <1>1 DEF Leaving
  <1>6. queue'["blocked_q"] = queue["blocked_q"] /\ queue'["exit_q"] = queue["exit_q"]
          => Queued(S)' = Queued(S)
    BY DEF Queued
  <1>7. UNCHANGED <<queue["new_q"], queue["suspended_block_q"], queue["suspended_ready_q"]>>
          => Outside(S)' = Outside(S)
    BY DEF Outside
  <1>. QED BY <1>2, <1>3, <1>4, <1>5, <1>6, <1>7

\* put_to_ready goes on after its interrupt: ready_q is sorted.
LEMMA PutToReady_Resume_Moves ==
  ASSUME SystemInv, UNCHANGED cpuVars, NEW t \in Planners, PutToReady_Resume(t), NEW S
  PROVE  Moved(S, 0, 0, 0, 0)
  <1>0. queue \in [Queues -> Seq(Pcb)] /\ queue["ready_q"] \in Seq(Pcb)
    BY PlaceTypes DEF Queues
  <1>1. PICK r \in SortsOf(queue["ready_q"]) : queue' = [queue EXCEPT !["ready_q"] = r]
    BY DEF PutToReady_Resume
  <1>2. /\ queue'["ready_q"] = r
        /\ UNCHANGED <<queue["new_q"], queue["blocked_q"], queue["exit_q"],
                       queue["suspended_block_q"], queue["suspended_ready_q"]>>
    BY <1>0, <1>1 DEF Queues
  <1>3. UNCHANGED <<hand, dispatch, returns, cpu_pcb, pcb_loaded, cpu_bussy, memory_exit_q>>
    BY DEF PutToReady_Resume, socketVars, departures, cpuVars
  <1>4. Count(r, S) = Count(queue["ready_q"], S)
    BY <1>0, CountSorted
  <1>5. Held("to_ready")' = Held("to_ready")
    BY <1>3 DEF Held
  <1>6. InReady(S)' = InReady(S)
    BY <1>2, <1>4, <1>5 DEF InReady
  <1>7. UNCHANGED <<InExec(S), Queued(S), InIo(S), Leaving(S), Outside(S)>>
    BY <1>2, <1>3, GroupsSame
  <1>. QED BY <1>6, <1>7, GroupCounts DEF Moved, Inside

\* to_exec moves a process from ready_q to the dispatch connection.
LEMMA ToExec_Dispatch_Moves ==
  ASSUME SystemInv, UNCHANGED cpuVars, ToExec_Dispatch, NEW S
  PROVE  Moved(S, 0, 0, 0, 0)
  <1> DEFINE s == queue["ready_q"]
             d == One(Head(s) \in S)
  <1>0. queue \in [Queues -> Seq(Pcb)] /\ s \in Seq(Pcb) /\ dispatch \in Seq(Pcb)
    BY PlaceTypes DEF Queues
  <1>1. /\ s # <<>> /\ dispatch' = Append(dispatch, Head(s))
        /\ queue' = [queue EXCEPT !["ready_q"] = Tail(s)]
        /\ UNCHANGED <<hand, returns, cpu_pcb, pcb_loaded, cpu_bussy, memory_exit_q>>
    BY DEF ToExec_Dispatch, departures, cpuVars
  <1>2. /\ queue'["ready_q"] = Tail(s)
        /\ UNCHANGED <<queue["new_q"], queue["blocked_q"], queue["exit_q"],
                       queue["suspended_block_q"], queue["suspended_ready_q"]>>
    BY <1>0, <1>1 DEF Queues
  <1>3. Count(s, S) = Count(queue'["ready_q"], S) + d
    BY <1>0, <1>1, <1>2, CountTail
  <1>4. Count(dispatch', S) = Count(dispatch, S) + d
    <2>1. Head(s) \in Pcb
      BY <1>0, <1>1
    <2>. QED BY <1>0, <1>1, <2>1, CountAppend
  <1>5. d \in Nat
    BY DEF One
  <1>6. UNCHANGED <<Held("to_ready"), InCpu, Returning>>
    BY <1>1 DEF Held, InCpu, Returning
  <1>7. Count(queue'["ready_q"], S) \in Nat
    <2>1. Tail(s) \in Seq(Pcb)
      BY <1>0, <1>1
    <2>. QED BY <1>2, <2>1, CountType
  <1>8. InReady(S)' = InReady(S) - d
    <2> HIDE DEF d
    <2>. QED BY <1>3, <1>5, <1>6, <1>7, PlaceCounts DEF InReady
  <1>9. InExec(S)' = InExec(S) + d
    <2> HIDE DEF d
    <2>. QED BY <1>4, <1>5, <1>6, PlaceCounts DEF InExec
  <1>10. UNCHANGED <<Queued(S), InIo(S), Leaving(S), Outside(S)>>
    BY <1>1, <1>2, GroupsSame
  <1> HIDE DEF d
  <1>. QED BY <1>5, <1>8, <1>9, <1>10, GroupCounts DEF Moved, Inside

\* to_ready takes a process in: any_for_ready says there is one, and its hand is empty.
LEMMA ToReady_Admit_Moves ==
  ASSUME SystemInv, SystemInv', HandsEmpty, UNCHANGED cpuVars, ToReady_Admit, NEW S, Carried(S)
  PROVE  LET d == One(hand'["to_ready"] \in S) IN
         hand'["to_ready"] \in Pcb /\ Moved(S, d, 0, 0, -d)
  <1>0. /\ queue \in [Queues -> Seq(Pcb)] /\ hand \in [Holders -> Pcb \cup {NoPcb}]
        /\ sem \in [Semaphores -> Nat] /\ SemaphoresMatchQueues
        /\ "to_ready" \in Holders
    BY PlaceTypes DEF Holders, Planners
  <1>1. /\ at["to_ready"] = "sem_multiprogram"
        /\ UNCHANGED <<dispatch, returns, cpu_pcb, pcb_loaded, cpu_bussy, memory_exit_q>>
    BY DEF ToReady_Admit, departures, cpuVars, socketVars
  <1>2. PICK q \in {"new_q", "suspended_ready_q"} :
          /\ queue[q] # <<>>
          /\ hand' = [hand EXCEPT !["to_ready"] = Head(queue[q])]
          /\ queue' = [queue EXCEPT ![q] = Tail(@)]
    <2>1. queue["suspended_ready_q"] # <<>> \/ queue["new_q"] # <<>>
      <3> DEFINE a == sem["any_for_ready"]
                 b == Len(queue["new_q"])
                 c == Len(queue["suspended_ready_q"])
      <3>1. a + 1 = b + c /\ a \in Nat /\ b \in Nat /\ c \in Nat
        <4>1. a \in Nat
          BY <1>0 DEF Semaphores
        <4>2. b \in Nat /\ c \in Nat
          <5>1. queue["new_q"] \in Seq(Pcb) /\ queue["suspended_ready_q"] \in Seq(Pcb)
            BY <1>0 DEF Queues
          <5>. QED BY <5>1
        <4>3. a + One(at["to_ready"] = "sem_multiprogram") = b + c
          BY <1>0 DEF SemaphoresMatchQueues, AnyForReadyCounts
        <4>4. One(at["to_ready"] = "sem_multiprogram") = 1
          BY <1>1 DEF One
        <4> HIDE DEF a, b, c
        <4>. QED BY <4>1, <4>2, <4>3, <4>4
      <3>2. b > 0 \/ c > 0
        <4> HIDE DEF a, b, c
        <4>. QED BY <3>1
      <3>. QED BY <3>2
    <2>. QED BY <2>1 DEF ToReady_Admit, Admit
  <1> DEFINE s == queue[q]
             d == One(hand'["to_ready"] \in S)
  <1>3. s \in Seq(Pcb) /\ Head(s) \in Pcb /\ Tail(s) \in Seq(Pcb)
    BY <1>0, <1>2 DEF Queues
  <1>4. /\ hand'["to_ready"] = Head(s)
        /\ hand'["io_listener"] = hand["io_listener"]
        /\ hand'["exit_process"] = hand["exit_process"]
    BY <1>0, <1>2 DEF Holders, Planners
  <1>5. /\ queue'[q] = Tail(s)
        /\ UNCHANGED <<queue["ready_q"], queue["blocked_q"], queue["exit_q"],
                       queue["suspended_block_q"]>>
        /\ q = "new_q" => queue'["suspended_ready_q"] = queue["suspended_ready_q"]
        /\ q = "suspended_ready_q" => queue'["new_q"] = queue["new_q"]
    BY <1>0, <1>2 DEF Queues
  <1>6. Count(s, S) = Count(queue'[q], S) + d /\ Count(queue'[q], S) \in Nat
    BY <1>2, <1>3, <1>4, <1>5, CountTail, CountType
  <1>7. Count(Held("to_ready"), S) = 0 /\ Count(Held("to_ready"), S)' = d
    <2>1. hand["to_ready"] = NoPcb
      BY <1>0, <1>1 DEF HandsEmpty, HoldingPoints, Planners
    <2>. QED BY <1>0, <2>1, Hands
  <1>8. d \in Nat
    BY DEF One
  <1>9. InReady(S)' = InReady(S) + d
    <2> HIDE DEF d
    <2>. QED BY <1>5, <1>7, <1>8, PlaceCounts DEF InReady
  <1>10. Outside(S)' = Outside(S) - d
    <2> HIDE DEF d
    <2>1. CASE q = "new_q"
      BY <1>5, <1>6, <1>8, <2>1, PlaceCounts DEF Outside
    <2>2. CASE q = "suspended_ready_q"
      BY <1>5, <1>6, <1>8, <2>2, PlaceCounts DEF Outside
    <2>. QED BY <2>1, <2>2
  <1>11. UNCHANGED <<InExec(S), Queued(S), InIo(S), Leaving(S)>>
    BY <1>1, <1>4, <1>5, GroupsSame
  <1>12. Moved(S, d, 0, 0, -d)
    <2> HIDE DEF d
    <2>. QED BY <1>8, <1>9, <1>10, <1>11, GroupCounts DEF Moved, Inside
  <1>. QED BY <1>3, <1>4, <1>12

\* table_index_success writes the tables of the process that to_ready holds.
LEMMA TableIndexSuccess_Moves ==
  ASSUME SystemInv, SystemInv', UNCHANGED cpuVars, TableIndexSuccess, NEW S, Kept(S)
  PROVE  Moved(S, 0, 0, 0, 0)
  <1>0. /\ queue \in [Queues -> Seq(Pcb)] /\ hand \in [Holders -> Pcb \cup {NoPcb}]
        /\ sem \in [Semaphores -> Nat] /\ HandsFull /\ OneAdmission
        /\ memory_answers \in Seq(MemoryAnswers) /\ "to_ready" \in Holders
    BY PlaceTypes DEF Holders, Planners
  <1> DEFINE m == Head(memory_answers)
             p == hand["to_ready"]
             r == [p EXCEPT !.page_table = m.page_table,
                            !.process_frames_index = m.process_frames_index]
  <1>1. /\ UNCHANGED <<dispatch, returns, cpu_pcb, pcb_loaded, cpu_bussy, memory_exit_q>>
        /\ memory_answers # <<>> /\ m.header = "PROCESS_MEMORY_READY"
    BY DEF TableIndexSuccess, Answered, departures, cpuVars
  <1>2. CASE UNCHANGED <<hand, queue, sem>>
    BY <1>1, <1>2, Resting
  <1>3. CASE /\ \E i \in DOMAIN queue["memory_init_q"] : queue["memory_init_q"][i].pid = m.pid
             /\ hand' = [hand EXCEPT !["to_ready"] = r]
             /\ queue' = [queue EXCEPT !["memory_init_q"] = Tail(@)]
    <2>1. at["to_ready"] = "pcb_table_ready"
      <3>1. queue["memory_init_q"] # <<>> /\ queue["memory_init_q"] \in Seq(Pcb)
        BY <1>0, <1>3 DEF Queues
      <3>2. Len(queue["memory_init_q"]) > 0 /\ Len(queue["memory_init_q"]) \in Nat
        BY <3>1
      <3>3. sem["pcb_table_ready"] \in Nat
        BY <1>0 DEF Semaphores
      <3>. QED BY <1>0, <3>2, <3>3 DEF OneAdmission
    <2>2. p \in Pcb
      BY <1>0, <2>1 DEF HandsFull
    <2>3. m.page_table \in Nat /\ m.process_frames_index \in Nat
      <3>1. m \in MemoryAnswers
        BY <1>0, <1>1
      <3>2. m.header = "PROCESS_MEMORY_READY"
        BY <1>1
      <3> HIDE DEF m
      <3>. QED BY <3>1, <3>2 DEF MemoryAnswers
    <2>4. r \in S <=> p \in S
      <3> HIDE DEF m, p
      <3>. QED BY <2>2, <2>3, KeptTables
    <2>5. /\ hand'["to_ready"] = r /\ hand'["io_listener"] = hand["io_listener"]
          /\ hand'["exit_process"] = hand["exit_process"]
      BY <1>0, <1>3 DEF Holders, Planners
    <2>6. UNCHANGED <<queue["ready_q"], queue["blocked_q"], queue["exit_q"], queue["new_q"],
                      queue["suspended_block_q"], queue["suspended_ready_q"]>>
      BY <1>0, <1>3 DEF Queues
    <2>7. Count(Held("to_ready"), S)' = Count(Held("to_ready"), S)
      <3>1. /\ Count(Held("to_ready"), S)' = One(hand'["to_ready"] \in S)
            /\ Count(Held("to_ready"), S) = One(hand["to_ready"] \in S)
        BY <1>0, KeptCarried, Hands
      <3>2. hand'["to_ready"] \in S <=> hand["to_ready"] \in S
        BY <2>4, <2>5
      <3>. QED BY <3>1, <3>2 DEF One
    <2>8. InReady(S)' = InReady(S)
      BY <2>6, <2>7 DEF InReady
    <2>9. UNCHANGED <<InExec(S), Queued(S), InIo(S), Leaving(S), Outside(S)>>
      BY <1>1, <2>5, <2>6, GroupsSame
    <2>. QED BY <2>8, <2>9, GroupCounts DEF Moved, Inside
  <1>. QED BY <1>2, <1>3 DEF TableIndexSuccess

\* io_listener takes a process from one of the two queues of processes in I/O.
LEMMA IoListener_Take_Moves ==
  ASSUME SystemInv, SystemInv', HandsEmpty, UNCHANGED cpuVars, NEW S, Carried(S),
         NEW q \in {"blocked_q", "suspended_block_q"}, NEW l, IoListener_Take(q, l)
  PROVE  LET d == One(hand'["io_listener"] \in S) IN
         /\ hand'["io_listener"] \in Pcb
         /\ q = "blocked_q" => Moved(S, -d, d, 0, 0)
         /\ q = "suspended_block_q" => Moved(S, 0, d, 0, -d)
  <1> DEFINE s == queue[q]
             d == One(hand'["io_listener"] \in S)
  <1>0. /\ queue \in [Queues -> Seq(Pcb)] /\ hand \in [Holders -> Pcb \cup {NoPcb}]
        /\ "io_listener" \in Holders
    BY PlaceTypes DEF Holders, Planners
  <1>1. /\ at["io_listener"] = "process_for_IO" /\ s # <<>>
        /\ hand' = [hand EXCEPT !["io_listener"] = Head(s)]
        /\ queue' = [queue EXCEPT ![q] = Tail(s)]
        /\ UNCHANGED <<dispatch, returns, cpu_pcb, pcb_loaded, cpu_bussy, memory_exit_q>>
    BY DEF IoListener_Take, departures, cpuVars, socketVars
  <1>2. s \in Seq(Pcb) /\ Head(s) \in Pcb /\ Tail(s) \in Seq(Pcb)
    BY <1>0, <1>1 DEF Queues
  <1>3. /\ hand'["io_listener"] = Head(s) /\ hand'["to_ready"] = hand["to_ready"]
        /\ hand'["exit_process"] = hand["exit_process"]
    BY <1>0, <1>1 DEF Holders, Planners
  <1>4. /\ queue'[q] = Tail(s)
        /\ UNCHANGED <<queue["ready_q"], queue["exit_q"], queue["new_q"],
                       queue["suspended_ready_q"]>>
        /\ q = "blocked_q" => queue'["suspended_block_q"] = queue["suspended_block_q"]
        /\ q = "suspended_block_q" => queue'["blocked_q"] = queue["blocked_q"]
    BY <1>0, <1>1 DEF Queues
  <1>5. Count(s, S) = Count(queue'[q], S) + d /\ Count(queue'[q], S) \in Nat
    BY <1>1, <1>2, <1>3, <1>4, CountTail, CountType
  <1>6. InIo(S) = 0 /\ InIo(S)' = d
    <2>1. hand["io_listener"] = NoPcb
      BY <1>0, <1>1 DEF HandsEmpty, HoldingPoints, Planners
    <2>. QED BY <1>0, <2>1, Hands DEF InIo
  <1>7. d \in Nat
    BY DEF One
  <1>8. UNCHANGED <<InReady(S), InExec(S), Leaving(S)>>
    BY <1>1, <1>3, <1>4, GroupsSame
  <1>9. CASE q = "blocked_q"
    <2>1. Outside(S)' = Outside(S)
      BY <1>4, <1>9, GroupsSame
    <2>2. Moved(S, -d, d, 0, 0)
      <3> HIDE DEF d
      <3>1. Queued(S)' = Queued(S) - d
        BY <1>4, <1>5, <1>7, <1>9, PlaceCounts DEF Queued
      <3>. QED BY <1>6, <1>7, <1>8, <2>1, <3>1, GroupCounts DEF Moved, Inside
    <2>. QED BY <1>2, <1>3, <1>9, <2>2
  <1>10. CASE q = "suspended_block_q"
    <2>1. Queued(S)' = Queued(S)
      BY <1>4, <1>10, GroupsSame
    <2>2. Moved(S, 0, d, 0, -d)
      <3> HIDE DEF d
      <3>1. Outside(S)' = Outside(S) - d
        BY <1>4, <1>5, <1>7, <1>10, PlaceCounts DEF Outside
      <3>. QED BY <1>6, <1>7, <1>8, <2>1, <3>1, GroupCounts DEF Moved, Inside
    <2>. QED BY <1>2, <1>3, <1>10, <2>2
  <1>. QED BY <1>9, <1>10

\* io_listener queues the process it holds among those outside memory.
LEMMA IoListener_Put_Moves ==
  ASSUME SystemInv, SystemInv', UNCHANGED cpuVars, IoListener_Wait \/ IoListener_Finish,
         NEW S, Carried(S)
  PROVE  LET d == One(hand["io_listener"] \in S) IN
         hand["io_listener"] \in Pcb /\ Moved(S, 0, -d, 0, d)
  <1> DEFINE p == hand["io_listener"]
             d == One(p \in S)
  <1>0. /\ queue \in [Queues -> Seq(Pcb)] /\ hand \in [Holders -> Pcb \cup {NoPcb}]
        /\ HandsFull /\ "io_listener" \in Holders
    BY PlaceTypes DEF Holders, Planners
  <1>1. /\ at["io_listener"] \in {"waiting_for_suspension", "suspended_ready_q"}
        /\ hand' = [hand EXCEPT !["io_listener"] = NoPcb]
        /\ UNCHANGED <<dispatch, returns, cpu_pcb, pcb_loaded, cpu_bussy, memory_exit_q>>
    BY DEF IoListener_Wait, IoListener_Finish, departures, cpuVars, socketVars
  <1>2. PICK q \in {"suspended_block_q", "suspended_ready_q"} :
          queue' = [queue EXCEPT ![q] = Append(@, p)]
    BY DEF IoListener_Wait, IoListener_Finish
  <1>3. p \in Pcb
    BY <1>0, <1>1 DEF HandsFull
  <1>4. /\ hand'["io_listener"] = NoPcb /\ hand'["to_ready"] = hand["to_ready"]
        /\ hand'["exit_process"] = hand["exit_process"]
    BY <1>0, <1>1 DEF Holders, Planners
  <1>5. /\ queue'[q] = Append(queue[q], p)
        /\ UNCHANGED <<queue["ready_q"], queue["blocked_q"], queue["exit_q"], queue["new_q"]>>
        /\ q = "suspended_block_q" => queue'["suspended_ready_q"] = queue["suspended_ready_q"]
        /\ q = "suspended_ready_q" => queue'["suspended_block_q"] = queue["suspended_block_q"]
    BY <1>0, <1>2 DEF Queues
  <1>6. Count(queue'[q], S) = Count(queue[q], S) + d
    <2>1. queue[q] \in Seq(Pcb)
      BY <1>0 DEF Queues
    <2>. QED BY <1>3, <1>5, <2>1, CountAppend
  <1>7. InIo(S) = d /\ InIo(S)' = 0 /\ d \in Nat
    BY <1>0, <1>4, Hands DEF InIo, One
  <1>8. UNCHANGED <<InReady(S), InExec(S), Queued(S), Leaving(S)>>
    BY <1>1, <1>4, <1>5, GroupsSame
  <1>9. Outside(S)' = Outside(S) + d
    <2> HIDE DEF d
    <2>1. CASE q = "suspended_block_q"
      <3>1. /\ Count(queue'["suspended_block_q"], S) = Count(queue["suspended_block_q"], S) + d
            /\ UNCHANGED <<Count(queue["new_q"], S), Count(queue["suspended_ready_q"], S)>>
        BY <1>5, <1>6, <2>1
      <3>. QED BY <1>7, <3>1, PlaceCounts DEF Outside
    <2>2. CASE q = "suspended_ready_q"
      <3>1. /\ Count(queue'["suspended_ready_q"], S) = Count(queue["suspended_ready_q"], S) + d
            /\ UNCHANGED <<Count(queue["new_q"], S), Count(queue["suspended_block_q"], S)>>
        BY <1>5, <1>6, <2>2
      <3>. QED BY <1>7, <3>1, PlaceCounts DEF Outside
    <2>. QED BY <2>1, <2>2
  <1>10. Moved(S, 0, -d, 0, d)
    <2> HIDE DEF d
    <2>. QED BY <1>7, <1>8, <1>9, GroupCounts DEF Moved, Inside
  <1>. QED BY <1>3, <1>10

\* exit_process takes a process that ended.
LEMMA ExitProcess_Send_Moves ==
  ASSUME SystemInv, SystemInv', HandsEmpty, UNCHANGED cpuVars, ExitProcess_Send, NEW S, Carried(S)
  PROVE  LET d == One(hand'["exit_process"] \in S) IN
         /\ hand'["exit_process"] = Head(queue["exit_q"]) /\ hand'["exit_process"] \in Pcb
         /\ Moved(S, -d, 0, d, 0)
  <1> DEFINE s == queue["exit_q"]
             d == One(hand'["exit_process"] \in S)
  <1>0. /\ queue \in [Queues -> Seq(Pcb)] /\ hand \in [Holders -> Pcb \cup {NoPcb}]
        /\ "exit_process" \in Holders
    BY PlaceTypes DEF Holders, Planners
  <1>1. /\ at["exit_process"] = "to_exit" /\ s # <<>>
        /\ hand' = [hand EXCEPT !["exit_process"] = Head(s)]
        /\ queue' = [queue EXCEPT !["exit_q"] = Tail(s)]
        /\ UNCHANGED <<dispatch, returns, cpu_pcb, pcb_loaded, cpu_bussy, memory_exit_q>>
    BY DEF ExitProcess_Send, departures, cpuVars
  <1>2. s \in Seq(Pcb) /\ Head(s) \in Pcb /\ Tail(s) \in Seq(Pcb)
    BY <1>0, <1>1 DEF Queues
  <1>3. /\ hand'["exit_process"] = Head(s) /\ hand'["to_ready"] = hand["to_ready"]
        /\ hand'["io_listener"] = hand["io_listener"]
    BY <1>0, <1>1 DEF Holders, Planners
  <1>4. /\ queue'["exit_q"] = Tail(s)
        /\ UNCHANGED <<queue["ready_q"], queue["blocked_q"], queue["new_q"],
                       queue["suspended_block_q"], queue["suspended_ready_q"]>>
    BY <1>0, <1>1 DEF Queues
  <1>5. Count(s, S) = Count(queue'["exit_q"], S) + d /\ Count(queue'["exit_q"], S) \in Nat
    BY <1>1, <1>2, <1>3, <1>4, CountTail, CountType
  <1>6. Count(Held("exit_process"), S) = 0 /\ Count(Held("exit_process"), S)' = d /\ d \in Nat
    <2>1. hand["exit_process"] = NoPcb
      BY <1>0, <1>1 DEF HandsEmpty, HoldingPoints
    <2>. QED BY <1>0, <2>1, Hands DEF One
  <1>7. UNCHANGED <<InReady(S), InExec(S), InIo(S), Outside(S)>>
    BY <1>1, <1>3, <1>4, GroupsSame
  <1>8. Moved(S, -d, 0, d, 0)
    <2> HIDE DEF d
    <2>1. Queued(S)' = Queued(S) - d
      BY <1>4, <1>5, <1>6, PlaceCounts DEF Queued
    <2>2. Leaving(S)' = Leaving(S) + d
      BY <1>1, <1>6, PlaceCounts DEF Leaving
    <2>. QED BY <1>6, <1>7, <2>1, <2>2, GroupCounts DEF Moved, Inside
  <1>. QED BY <1>2, <1>3, <1>8

\* exit_process puts it where the answer will be looked for.
LEMMA ExitProcess_Put_Moves ==
  ASSUME SystemInv, SystemInv', UNCHANGED cpuVars, ExitProcess_Put, NEW S, Carried(S)
  PROVE  Moved(S, 0, 0, 0, 0)
  <1> DEFINE p == hand["exit_process"]
             d == One(p \in S)
  <1>0. /\ hand \in [Holders -> Pcb \cup {NoPcb}] /\ memory_exit_q \in Seq(Pcb \cup {Freed})
        /\ HandsFull /\ "exit_process" \in Holders
    BY PlaceTypes DEF Holders, Planners
  <1>1. /\ at["exit_process"] = "memory_exit_q"
        /\ memory_exit_q' = Append(memory_exit_q, p)
        /\ hand' = [hand EXCEPT !["exit_process"] = NoPcb]
        /\ UNCHANGED <<queue, dispatch, returns, cpu_pcb, pcb_loaded, cpu_bussy>>
    BY DEF ExitProcess_Put, cpuVars, socketVars
  <1>2. p \in Pcb
    BY <1>0, <1>1 DEF HandsFull
  <1>3. /\ hand'["exit_process"] = NoPcb /\ hand'["to_ready"] = hand["to_ready"]
        /\ hand'["io_listener"] = hand["io_listener"]
    BY <1>0, <1>1 DEF Holders, Planners
  <1>4. Count(memory_exit_q', S) = Count(memory_exit_q, S) + d
    BY <1>0, <1>1, <1>2, CountAppend
  <1>5. Count(Held("exit_process"), S) = d /\ Count(Held("exit_process"), S)' = 0 /\ d \in Nat
    BY <1>0, <1>3, Hands DEF One
  <1>6. UNCHANGED <<InReady(S), InExec(S), Queued(S), InIo(S), Outside(S)>>
    BY <1>1, <1>3, GroupsSame
  <1>7. Leaving(S)' = Leaving(S)
    <2> HIDE DEF d
    <2>. QED BY <1>4, <1>5, PlaceCounts DEF Leaving
  <1>. QED BY <1>6, <1>7, GroupCounts DEF Moved, Inside

\* A process returned by the CPU goes to blocked_q, exit_q or ready_q.
LEMMA CpuDispatchListener_Moves ==
  ASSUME SystemInv, UNCHANGED cpuVars, CpuDispatchListener, NEW S, Carried(S)
  PROVE  Moved(S, 0, 0, 0, 0)
  <1> DEFINE p == Head(returns).pcb
             d == One(p \in S)
  <1>0. /\ queue \in [Queues -> Seq(Pcb)] /\ returns \in Seq(Returns)
    BY PlaceTypes
  <1>1. /\ returns # <<>> /\ returns' = Tail(returns)
        /\ UNCHANGED <<hand, dispatch, cpu_pcb, pcb_loaded, cpu_bussy, memory_exit_q>>
    BY DEF CpuDispatchListener, IoOp, ExitOp, HandleInterruption, Returned, departures, cpuVars
  <1>2. p \in Pcb
    <2>1. Head(returns) \in Returns
      BY <1>0, <1>1
    <2>. QED BY <2>1 DEF Returns
  <1>3. PICK q \in {"blocked_q", "exit_q", "ready_q"}, r \in Pcb :
          /\ queue' = [queue EXCEPT ![q] = Append(@, r)]
          /\ r \in S <=> p \in S
    <2>1. CASE IoOp
      <3>1. PICK e \in Estimates : queue' = [queue EXCEPT !["blocked_q"] =
              Append(@, [p EXCEPT !.left_burst_estimation = e])]
        BY <2>1 DEF IoOp
      <3> HIDE DEF p
      <3>. QED BY <1>2, <3>1, CarriedFields
    <2>2. CASE ExitOp
      BY <1>2, <2>2 DEF ExitOp
    <2>3. CASE HandleInterruption
      <3>1. PICK e \in Estimates : queue' = [queue EXCEPT !["ready_q"] =
              Append(@, [p EXCEPT !.left_burst_estimation = e])]
        BY <2>3 DEF HandleInterruption
      <3> HIDE DEF p
      <3>. QED BY <1>2, <3>1, CarriedFields
    <2>. QED BY <2>1, <2>2, <2>3 DEF CpuDispatchListener
  <1>4. /\ queue'[q] = Append(queue[q], r) /\ queue[q] \in Seq(Pcb)
        /\ UNCHANGED <<queue["new_q"], queue["suspended_block_q"], queue["suspended_ready_q"]>>
        /\ q # "blocked_q" => queue'["blocked_q"] = queue["blocked_q"]
        /\ q # "exit_q" => queue'["exit_q"] = queue["exit_q"]
        /\ q # "ready_q" => queue'["ready_q"] = queue["ready_q"]
    BY <1>0, <1>3 DEF Queues
  <1>5. Count(queue'[q], S) = Count(queue[q], S) + d /\ d \in Nat
    <2>1. One(r \in S) = d /\ d \in Nat
      BY <1>3 DEF One
    <2>2. Count(Append(queue[q], r), S) = Count(queue[q], S) + One(r \in S)
      BY <1>4, CountAppend
    <2>. QED BY <1>4, <2>1, <2>2
  <1>6. InExec(S)' = InExec(S) - d
    <2>1. Count(Returning, S) = Count(Returning, S)' + d
      BY <1>1, ReturningTake
    <2>2. UNCHANGED <<dispatch, InCpu>>
      BY <1>1 DEF InCpu
    <2>3. Count(Returning, S)' \in Nat
      <3>1. returns' \in Seq(Returns)
        BY <1>0, <1>1
      <3>2. DOMAIN returns' = 1 .. Len(returns') /\ Len(returns') \in Nat
            /\ \A i \in 1 .. Len(returns') : returns'[i] \in Returns
        BY <3>1
      <3>3. [i \in DOMAIN returns' |-> returns'[i].pcb] \in Seq(Pcb)
        BY <3>2 DEF Returns
      <3>. QED BY <3>3, CountType DEF Returning
    <2> HIDE DEF d
    <2>. QED BY <1>5, <2>1, <2>2, <2>3, PlaceCounts DEF InExec
  <1>7. InReady(S)' + Queued(S)' = InReady(S) + Queued(S) + d
    <2>1. Held("to_ready")' = Held("to_ready")
      BY <1>1 DEF Held
    <2> DEFINE a == Count(Held("to_ready"), S)
               x == Count(queue["ready_q"], S)
               b == Count(queue["blocked_q"], S)
               e == Count(queue["exit_q"], S)
    <2>2. a' = a /\ a \in Nat /\ x \in Nat /\ b \in Nat /\ e \in Nat
      BY <2>1, PlaceCounts
    <2>3. \/ x' = x + d /\ b' = b /\ e' = e
          \/ x' = x /\ b' = b + d /\ e' = e
          \/ x' = x /\ b' = b /\ e' = e + d
      <3> HIDE DEF d
      <3>. QED BY <1>3, <1>4, <1>5
    <2>4. InReady(S) = a + x /\ Queued(S) = b + e /\ InReady(S)' = a' + x' /\ Queued(S)' = b' + e'
      BY DEF InReady, Queued
    <2> HIDE DEF a, x, b, e, d
    <2>. QED BY <1>5, <2>2, <2>3, <2>4
  <1>8. UNCHANGED <<InIo(S), Leaving(S), Outside(S)>>
    BY <1>1, <1>4, GroupsSame
  <1>9. Inside(S)' = Inside(S)
    <2>1. InReady(S)' \in Nat /\ Queued(S)' \in Nat
      <3>1. /\ Held("to_ready")' = Held("to_ready")
            /\ Count(queue'["ready_q"], S) \in Nat /\ Count(queue'["blocked_q"], S) \in Nat
            /\ Count(queue'["exit_q"], S) \in Nat
        <4>1. Held("to_ready")' = Held("to_ready")
          BY <1>1 DEF Held
        <4>2. Count(queue[q], S) + d \in Nat
          <5>1. Count(queue[q], S) \in Nat
            BY <1>4, CountType
          <5> HIDE DEF d
          <5>. QED BY <1>5, <5>1
        <4> HIDE DEF d
        <4>. QED BY <1>3, <1>4, <1>5, <4>1, <4>2, PlaceCounts
      <3>. QED BY <3>1, PlaceCounts DEF InReady, Queued
    <2> HIDE DEF d
    <2>. QED BY <1>5, <1>6, <1>7, <2>1, GroupCounts DEF Inside
  <1>. QED BY <1>8, <1>9, GroupCounts DEF Moved

\* The CPU after a step holds the pcb it was given and has not returned.
LEMMA CpuPlace ==
  ASSUME NEW S
  PROVE  /\ Count(InCpu, S) = One(pcb_loaded + cpu_bussy > 0 /\ cpu_pcb \in S)
         /\ Count(InCpu, S)' = One(pcb_loaded' + cpu_bussy' > 0 /\ cpu_pcb' \in S)
  <1>1. Count(InCpu, S) = One(pcb_loaded + cpu_bussy > 0 /\ cpu_pcb \in S)
    <2>1. CASE pcb_loaded + cpu_bussy > 0
      BY <2>1, CountSingle DEF InCpu, One
    <2>2. CASE ~(pcb_loaded + cpu_bussy > 0)
      BY <2>2, CountEmpty DEF InCpu, One
    <2>. QED BY <2>1, <2>2
  <1>2. Count(InCpu, S)' = One(pcb_loaded' + cpu_bussy' > 0 /\ cpu_pcb' \in S)
    <2>1. CASE pcb_loaded' + cpu_bussy' > 0
      BY <2>1, CountSingle DEF InCpu, One
    <2>2. CASE ~(pcb_loaded' + cpu_bussy' > 0)
      BY <2>2, CountEmpty DEF InCpu, One
    <2>. QED BY <2>1, <2>2
  <1>. QED BY <1>1, <1>2

\* While the CPU's permit goes round there is one process on its way to, in or from
\* the CPU.
LEMMA OneInCpu ==
  ASSUME SystemInv, ExecutionInv, cycle # "cpu_bussy"
  PROVE  /\ pcb_loaded \in Nat /\ cpu_bussy \in Nat
         /\ pcb_loaded + cpu_bussy <= 1
         /\ dispatch # <<>> => pcb_loaded + cpu_bussy = 0
  <1>1. CpuTotal = 1
    BY DEF ExecutionInv, CpuConserved
  <1>2. /\ Permit \in Nat /\ Dispatching \in Nat /\ Sent \in Nat
        /\ pcb_loaded \in Nat /\ cpu_bussy \in Nat /\ Back \in Nat
        /\ dispatch # <<>> => Sent > 0
    BY ExecutionTypes DEF Permit, Dispatching, Sent, Back, One
  <1>. QED BY <1>1, <1>2 DEF CpuTotal

\* The CPU receives, runs and returns processes; none appears or disappears unless
\* an eviction returns one that had left.
LEMMA Cpu_Moves ==
  ASSUME SystemInv, ExecutionInv, UNCHANGED kernelVars,
         ReceivePcb \/ ReceiveInterruption \/ CpuCycle,
         cycle # "cpu_bussy", cycle' # "cpu_bussy", NEW S, Carried(S)
  PROVE  Moved(S, 0, 0, 0, 0)
  <1>1. UNCHANGED <<hand, queue, memory_exit_q>>
    BY DEF kernelVars, departures
  <1>2. UNCHANGED <<InReady(S), Queued(S), InIo(S), Leaving(S), Outside(S)>>
    BY <1>1, GroupsSame
  <1> DEFINE a == Count(dispatch, S)
             b == Count(InCpu, S)
             k == Count(Returning, S)
             n == pcb_loaded + cpu_bussy
  <1>3. /\ a \in Nat /\ b \in Nat /\ k \in Nat
        /\ b = One(n > 0 /\ cpu_pcb \in S) /\ b' = One(n' > 0 /\ cpu_pcb' \in S)
    BY PlaceCounts, CpuPlace
  <1>4. n \in Nat /\ n <= 1 /\ pcb_loaded \in Nat /\ cpu_bussy \in Nat
    BY OneInCpu
  <1>5. CASE ReceivePcb
    <2>1. /\ dispatch # <<>> /\ cpu_pcb' = Head(dispatch) /\ dispatch' = Tail(dispatch)
          /\ pcb_loaded' = pcb_loaded + 1 /\ UNCHANGED <<cpu_bussy, returns>>
      BY <1>5 DEF ReceivePcb
    <2>2. dispatch \in Seq(Pcb) /\ Tail(dispatch) \in Seq(Pcb)
      <3>1. dispatch \in Seq(Pcb)
        BY PlaceTypes
      <3>. QED BY <2>1, <3>1
    <2>3. a = a' + One(Head(dispatch) \in S) /\ a' \in Nat
      BY <2>1, <2>2, CountTail, CountType
    <2>4. b = 0 /\ b' = One(Head(dispatch) \in S)
      <3>1. n = 0 /\ n' = 1
        BY <1>4, <2>1, OneInCpu
      <3> HIDE DEF n, b
      <3>. QED BY <1>3, <2>1, <3>1 DEF One
    <2>5. k' = k
      BY <2>1 DEF Returning
    <2>6. InExec(S) = a + b + k /\ InExec(S)' = a' + b' + k'
      BY DEF InExec
    <2>7. InExec(S)' = InExec(S)
      <3>1. One(Head(dispatch) \in S) \in Nat
        BY DEF One
      <3> HIDE DEF a, b, k
      <3>. QED BY <1>3, <2>3, <2>4, <2>5, <2>6, <3>1
    <2>. QED BY <1>2, <2>7, GroupCounts DEF Moved, Inside
  <1>6. CASE UNCHANGED <<dispatch, returns, cpu_pcb>> /\ n' = n
    <2>1. b' = b
      <3> HIDE DEF n, b
      <3>. QED BY <1>3, <1>6 DEF One
    <2>2. a' = a /\ k' = k
      BY <1>6 DEF Returning
    <2>3. InExec(S)' = InExec(S)
      BY <2>1, <2>2 DEF InExec
    <2>. QED BY <1>2, <2>3, GroupCounts DEF Moved, Inside
  <1>7. CASE ReceiveInterruption \/ CycleStart \/ CycleEnd \/ NoInterruption
    <2>1. UNCHANGED <<dispatch, returns, cpu_pcb>> /\ n' = n
      BY <1>4, <1>7 DEF ReceiveInterruption, CycleStart, CycleEnd, NoInterruption, socketVars
    <2>. QED BY <1>6, <2>1
  <1>8. CASE ExecuteNoOp \/ ExecuteMemoryOp
    <2>1. UNCHANGED <<dispatch, returns, pcb_loaded, cpu_bussy>>
      BY <1>8 DEF ExecuteNoOp, ExecuteMemoryOp, Mmu, socketVars
    <2>2. cpu_bussy > 0 /\ cpu_pcb' = Advanced
      BY <1>8, AdvancedLemma DEF ExecuteNoOp, ExecuteMemoryOp, SystemInv
    <2>3. cpu_pcb \in Pcb
      BY <1>4, <2>2 DEF SystemInv, CpuInv, CpuLoaded
    <2>4. cpu_pcb' \in S <=> cpu_pcb \in S
      BY <2>2, <2>3, CarriedFields DEF Advanced
    <2>5. b' = b
      <3> HIDE DEF b
      <3>. QED BY <1>3, <2>1, <2>4 DEF One
    <2>6. a' = a /\ k' = k
      BY <2>1 DEF Returning
    <2>7. InExec(S)' = InExec(S)
      BY <2>5, <2>6 DEF InExec
    <2>. QED BY <1>2, <2>7, GroupCounts DEF Moved, Inside
  <1>9. ASSUME NEW p \in Pcb, NEW h \in {"IO_CALL", "EXIT_CALL", "INTERRUPT_DISPATCH"},
               p \in S <=> cpu_pcb \in S, cpu_bussy > 0,
               returns' = Append(returns, [header |-> h, pcb |-> p]),
               cpu_bussy' = cpu_bussy - 1, UNCHANGED <<dispatch, pcb_loaded>>
        PROVE  Moved(S, 0, 0, 0, 0)
    <2>1. n = 1 /\ n' = 0
      BY <1>4, <1>9
    <2>2. b = One(p \in S) /\ b' = 0
      <3> HIDE DEF n, b
      <3>. QED BY <1>3, <1>9, <2>1 DEF One
    <2>3. k' = k + One(p \in S) /\ a' = a
      BY <1>9, ReturningPut
    <2>4. InExec(S) = a + b + k /\ InExec(S)' = a' + b' + k'
      BY DEF InExec
    <2>5. InExec(S)' = InExec(S)
      <3> HIDE DEF a, b, k, n
      <3>. QED BY <1>3, <2>2, <2>3, <2>4
    <2>. QED BY <1>2, <2>5, GroupCounts DEF Moved, Inside
  <1>10. CASE ExecuteIo \/ ExecuteExit
    <2>1. Advanced \in Pcb /\ cpu_bussy > 0
      BY <1>10, AdvancedLemma DEF ExecuteIo, ExecuteExit, SystemInv
    <2>2. cpu_pcb \in Pcb
      BY <1>4, <2>1 DEF SystemInv, CpuInv, CpuLoaded
    <2>3. Advanced \in S <=> cpu_pcb \in S
      BY <2>2, CarriedFields DEF Advanced
    <2>4. PICK h \in {"IO_CALL", "EXIT_CALL"} :
            returns' = Append(returns, [header |-> h, pcb |-> Advanced])
      BY <1>10 DEF ExecuteIo, ExecuteExit, PcbToKernel
    <2>5. cpu_bussy' = cpu_bussy - 1 /\ UNCHANGED <<dispatch, pcb_loaded>>
      BY <1>10 DEF ExecuteIo, ExecuteExit, PcbToKernel
    <2>. QED BY <1>9, <2>1, <2>3, <2>4, <2>5
  <1>11. CASE Evict
    <2>1. cpu_bussy > 0 /\ cpu_bussy' = cpu_bussy - 1 /\ UNCHANGED <<dispatch, pcb_loaded>>
          /\ returns' = Append(returns, [header |-> "INTERRUPT_DISPATCH", pcb |-> cpu_pcb])
      BY <1>11 DEF Evict, PcbToKernel
    <2>2. cpu_pcb \in Pcb
      BY <1>4, <2>1 DEF SystemInv, CpuInv, CpuLoaded
    <2>. QED BY <1>9, <2>1, <2>2
  <1>12. CASE EvictGone
    BY <1>12 DEF EvictGone
  <1>. QED BY <1>5, <1>7, <1>8, <1>10, <1>11, <1>12 DEF CpuCycle

-----------------------------------------------------------------------------
(* What keeps the invariant. *)

\* The packets about an exit stay where they are.
ExitPacketsKept ==
    \A n \in Nat :
        UNCHANGED <<Count(memory_requests, ExitRequests(n)), Count(memory_answers, ExitAnswers(n))>>

\* Requests and answers about something else do not count.
LEMMA OtherPackets ==
  ASSUME SystemInv,
         \/ memory_requests' = memory_requests
         \/ \E m \in MemoryRequests : /\ m.header # "PROCESS_EXIT"
                                      /\ memory_requests' = Append(memory_requests, m)
         \/ /\ memory_requests # <<>> /\ Head(memory_requests).header # "PROCESS_EXIT"
            /\ memory_requests' = Tail(memory_requests),
         \/ memory_answers' = memory_answers
         \/ \E m \in MemoryAnswers : /\ m.header # "PROCESS_EXIT_READY"
                                     /\ memory_answers' = Append(memory_answers, m)
         \/ /\ memory_answers # <<>> /\ Head(memory_answers).header # "PROCESS_EXIT_READY"
            /\ memory_answers' = Tail(memory_answers)
  PROVE  ExitPacketsKept
  <1>0. memory_requests \in Seq(MemoryRequests) /\ memory_answers \in Seq(MemoryAnswers)
    BY PlaceTypes
  <1>1. ASSUME NEW T, NEW s \in Seq(T), NEW u, NEW S,
               \/ u = s
               \/ \E m \in T : m \notin S /\ u = Append(s, m)
               \/ s # <<>> /\ Head(s) \notin S /\ u = Tail(s)
        PROVE  Count(u, S) = Count(s, S)
    <2>1. Count(s, S) \in Nat
      BY CountType
    <2>2. ASSUME NEW m \in T, m \notin S, u = Append(s, m) PROVE Count(u, S) = Count(s, S)
      <3>1. Count(u, S) = Count(s, S) + One(m \in S)
        BY <2>2, CountAppend
      <3>. QED BY <2>1, <2>2, <3>1 DEF One
    <2>3. CASE s # <<>> /\ Head(s) \notin S /\ u = Tail(s)
      <3>1. Count(s, S) = Count(u, S) + One(Head(s) \in S)
        BY <2>3, CountTail
      <3>2. Tail(s) \in Seq(T)
        BY <2>3
      <3>3. Count(u, S) \in Nat
        BY <2>3, <3>2, CountType
      <3>. QED BY <2>3, <3>1, <3>3 DEF One
    <2>. QED BY <1>1, <2>2, <2>3
  <1>2. ASSUME NEW n \in Nat
        PROVE  Count(memory_requests', ExitRequests(n)) = Count(memory_requests, ExitRequests(n))
    <2>1. \A m : m.header # "PROCESS_EXIT" => m \notin ExitRequests(n)
      BY DEF ExitRequests
    <2>. QED BY <1>0, <1>1, <2>1
  <1>3. ASSUME NEW n \in Nat
        PROVE  Count(memory_answers', ExitAnswers(n)) = Count(memory_answers, ExitAnswers(n))
    <2>1. \A m : m.header # "PROCESS_EXIT_READY" => m \notin ExitAnswers(n)
      BY DEF ExitAnswers
    <2>. QED BY <1>0, <1>1, <2>1
  <1>4. \A n : ExitRequests(n)' = ExitRequests(n) /\ ExitAnswers(n)' = ExitAnswers(n)
    BY DEF ExitRequests, ExitAnswers
  <1>. QED BY <1>2, <1>3, <1>4 DEF ExitPacketsKept

\* The processes of a set, by the four parts.
LEMMA MovedTotal ==
  ASSUME SystemInv, NEW S, NEW a \in Int, NEW b \in Int, NEW l \in Int, NEW o \in Int,
         Moved(S, a, b, l, o)
  PROVE  Total(S)' = Total(S) + (a + b + l + o) /\ Total(S) \in Nat
  BY GroupCounts DEF Moved, Total

\* No process arrives, and none is numbered.
ArrivalsKept ==
    /\ Misnumbered' = Misnumbered
    /\ \A c \in Consoles : receiving'[c] = "received" <=> receiving[c] = "received"

\* Steps that receive nobody and number nobody.
LEMMA NoArrival ==
  ASSUME UNCHANGED arrivals
  PROVE  ArrivalsKept
  BY DEF arrivals, ArrivalsKept, Misnumbered

\* A step that leaves every total alone.
LEMMA TotalsKept ==
  ASSUME Settled, \A S : Kept(S) => Total(S)' = Total(S), ArrivalsKept, UNCHANGED answers
  PROVE  Placed' /\ Numbers'
  <1>1. Placed'
    <2>1. \A c : ProcessOf(c)' = ProcessOf(c)
      BY DEF ProcessOf
    <2>2. ASSUME NEW c \in Consoles
          PROVE  Total(ProcessOf(c))' + answers'[c] = One(receiving'[c] = "received")
      <3>1. Total(ProcessOf(c))' = Total(ProcessOf(c))
        <4>1. PICK S : S = ProcessOf(c)
          OBVIOUS
        <4>2. Total(S)' = Total(S)
          BY <4>1, KeptSets
        <4>3. Total(ProcessOf(c))' = Total(S)' /\ Total(ProcessOf(c)) = Total(S)
          BY <2>1, <4>1 DEF Total, Inside, InReady, InExec, Queued, InIo, Leaving, Outside
        <4>. QED BY <4>2, <4>3
      <3>2. One(receiving'[c] = "received") = One(receiving[c] = "received")
        BY DEF ArrivalsKept, One
      <3>. QED BY <3>1, <3>2 DEF Settled, Placed
    <2>. QED BY <2>2 DEF Placed
  <1>2. Numbers'
    <2>1. Misnumbered' = Misnumbered
      BY DEF ArrivalsKept
    <2>2. PICK S : S = Misnumbered
      OBVIOUS
    <2>3. Total(S)' = Total(S)
      BY <2>2, KeptSets
    <2>4. Total(Misnumbered)' = Total(S)' /\ Total(Misnumbered) = Total(S)
      BY <2>1, <2>2 DEF Total, Inside, InReady, InExec, Queued, InIo, Leaving, Outside
    <2>. QED BY <2>3, <2>4 DEF Settled, Numbers
  <1>. QED BY <1>1, <1>2

\* A step that leaves alone what is leaving and the packets about it.
LEMMA ExitsKept ==
  ASSUME Settled, \A S : Kept(S) => Leaving(S)' = Leaving(S), ExitPacketsKept
  PROVE  ExitsMatch'
  <1>1. \A n \in Nat : Leaving(WithPid(n))' = Leaving(WithPid(n))
    <2> SUFFICES ASSUME NEW n \in Nat PROVE Leaving(WithPid(n))' = Leaving(WithPid(n))
      OBVIOUS
    <2>1. PICK S : S = WithPid(n)
      OBVIOUS
    <2>2. Leaving(S)' = Leaving(S)
      BY <2>1, KeptSets
    <2>3. WithPid(n)' = WithPid(n)
      BY DEF WithPid
    <2>4. Leaving(WithPid(n))' = Leaving(S)' /\ Leaving(WithPid(n)) = Leaving(S)
      BY <2>1, <2>3 DEF Leaving
    <2>. QED BY <2>2, <2>4
  <1>. QED BY <1>1 DEF Settled, ExitsMatch, ExitPacketsKept

\* A step that leaves every total alone, and everything about exits and arrivals.
LEMMA SettledKept ==
  ASSUME SystemInv, SystemInv', Settled,
         \A S : Kept(S) => Total(S)' = Total(S) /\ Leaving(S)' = Leaving(S),
         sem'["sem_multiprogram"] + Used' = sem["sem_multiprogram"] + Used,
         ArrivalsKept, UNCHANGED answers, ExitPacketsKept,
         at'["exit_process"] = at["exit_process"], hand'["exit_process"] = hand["exit_process"]
  PROVE  Settled'
  <1>1. Bounded'
    BY DEF Settled, Bounded
  <1>2. Placed' /\ Numbers'
    BY TotalsKept
  <1>3. ExitsMatch'
    BY ExitsKept
  <1>4. PutBeforeAnswer'
    <2> SUFFICES ASSUME at'["exit_process"] = "memory_exit_q"
                 PROVE  Count(memory_answers', ExitAnswers(hand'["exit_process"].pid)) = 0
      <3>1. \A n : ExitAnswers(n)' = ExitAnswers(n)
        BY DEF ExitAnswers
      <3>. QED BY <3>1 DEF PutBeforeAnswer, ExitAnswers
    <2>1. PICK n \in Nat : n = hand["exit_process"].pid
      <3>1. hand["exit_process"] \in Pcb
        BY PlaceTypes DEF HandsFull
      <3>. QED BY <3>1 DEF Pcb
    <2>2. Count(memory_answers', ExitAnswers(n)) = Count(memory_answers, ExitAnswers(n))
      BY DEF ExitPacketsKept, ExitAnswers
    <2>. QED BY <2>1, <2>2 DEF Settled, PutBeforeAnswer
  <1>. QED BY <1>1, <1>2, <1>3, <1>4 DEF Settled

\* A step that moves nothing between the parts.
LEMMA Quiet ==
  ASSUME SystemInv, SystemInv', Settled, \A S : Kept(S) => Moved(S, 0, 0, 0, 0),
         sem'["sem_multiprogram"] = sem["sem_multiprogram"],
         at'["io_listener"] = "suspended_ready_q" <=> at["io_listener"] = "suspended_ready_q",
         ArrivalsKept, UNCHANGED answers, ExitPacketsKept,
         at'["exit_process"] = at["exit_process"], hand'["exit_process"] = hand["exit_process"]
  PROVE  Settled'
  <1>1. ASSUME NEW S, Kept(S) PROVE Total(S)' = Total(S) /\ Leaving(S)' = Leaving(S)
    <2>1. Moved(S, 0, 0, 0, 0)
      BY <1>1
    <2>2. Total(S)' = Total(S) + (0 + 0 + 0 + 0) /\ Total(S) \in Nat
      BY <2>1, MovedTotal
    <2>. QED BY <2>1, <2>2, GroupCounts DEF Moved
  <1>2. UNCHANGED <<Inside(Pcb), InIo(Pcb), Leaving(Pcb)>>
    <2>1. Moved(Pcb, 0, 0, 0, 0)
      BY KeptSets
    <2>. QED BY <2>1, GroupCounts DEF Moved
  <1>3. Used' = Used
    BY <1>2 DEF Used, InIoAdmitted
  <1>. QED BY <1>1, <1>3, SettledKept

\* The kernel's steps that move nothing, or only within a part.
LEMMA Kernel_Quiet ==
  ASSUME SystemInv, SystemInv', Settled, UNCHANGED cpuVars,
         \/ ToReady_Any \/ NewToReady_Send \/ NewToReady_Put \/ NewToReady_Ready
         \/ PutToReady("to_ready") \/ \E t \in Planners : PutToReady_Resume(t)
         \/ ToExec \/ IoListener_Suspend
         \/ CpuDispatchListener \/ TableIndexSuccess \/ SuspensionSuccess
  PROVE  Settled'
  <1>0. /\ queue \in [Queues -> Seq(Pcb)] /\ hand \in [Holders -> Pcb \cup {NoPcb}]
        /\ at \in [Threads -> Locations] /\ sem \in [Semaphores -> Nat] /\ HandsFull
    BY PlaceTypes
  <1>1. UNCHANGED <<arrivals, answers>>
    BY DEF ToReady_Any, NewToReady_Send, NewToReady_Put, NewToReady_Ready, PutToReady,
       PutToReady_Resume, ToExec, ToExec_Ready, ToExec_Cpu, ToExec_Dispatch,
       IoListener_Suspend, CpuDispatchListener, IoOp, ExitOp, HandleInterruption,
       TableIndexSuccess, SuspensionSuccess, departures
  <1>2. /\ at'["exit_process"] = at["exit_process"] /\ hand'["exit_process"] = hand["exit_process"]
    BY <1>0 DEF ToReady_Any, NewToReady_Send, NewToReady_Put, NewToReady_Ready, PutToReady,
       PutToReady_Fifo, PutToReady_Replan, PutToReady_Interrupt, PutToReady_Resume, Planners,
       ToExec, ToExec_Ready, ToExec_Cpu, ToExec_Dispatch, IoListener_Suspend,
       CpuDispatchListener, IoOp, ExitOp, HandleInterruption, TableIndexSuccess,
       SuspensionSuccess, Holders, Threads
  <1>3. at'["io_listener"] = "suspended_ready_q" <=> at["io_listener"] = "suspended_ready_q"
    <2>1. CASE \E t \in Planners : PutToReady_Resume(t)
      BY <1>0, <2>1 DEF PutToReady_Resume, Planners, LoopStart, Threads
    <2>2. CASE PutToReady("to_ready")
      <3>1. at'["io_listener"] = at["io_listener"]
        BY <1>0, <2>2 DEF PutToReady, PutToReady_Fifo, PutToReady_Replan, PutToReady_Interrupt,
           Threads, Holders, Planners
      <3>. QED BY <3>1
    <2>3. CASE IoListener_Suspend
      BY <1>0, <2>3 DEF IoListener_Suspend, Threads, Holders, Planners
    <2>4. CASE \/ ToReady_Any \/ NewToReady_Send \/ NewToReady_Put \/ NewToReady_Ready \/ ToExec
               \/ CpuDispatchListener \/ TableIndexSuccess \/ SuspensionSuccess
      <3>1. at'["io_listener"] = at["io_listener"]
        BY <1>0, <2>4 DEF ToReady_Any, NewToReady_Send, NewToReady_Put, NewToReady_Ready,
           ToExec, ToExec_Ready, ToExec_Cpu, ToExec_Dispatch, CpuDispatchListener, IoOp, ExitOp,
           HandleInterruption, TableIndexSuccess, SuspensionSuccess, Threads, Holders, Planners
      <3>. QED BY <3>1
    <2>. QED BY <2>1, <2>2, <2>3, <2>4
  <1>4. sem'["sem_multiprogram"] = sem["sem_multiprogram"]
    BY <1>0 DEF ToReady_Any, NewToReady_Send, NewToReady_Put, NewToReady_Ready, PutToReady,
       PutToReady_Fifo, PutToReady_Replan, PutToReady_Interrupt, PutToReady_Resume, Planners,
       ToExec, ToExec_Ready, ToExec_Cpu, ToExec_Dispatch, IoListener_Suspend,
       CpuDispatchListener, IoOp, ExitOp, HandleInterruption, TableIndexSuccess,
       SuspensionSuccess, Semaphores
  <1>5. ExitPacketsKept
    <2>1. CASE NewToReady_Send \/ IoListener_Suspend
      <3>1. memory_answers' = memory_answers
        BY <2>1 DEF NewToReady_Send, IoListener_Suspend
      <3>2. \E m \in MemoryRequests : /\ m.header # "PROCESS_EXIT"
                                      /\ memory_requests' = Append(memory_requests, m)
        <4>1. CASE NewToReady_Send
          <5>1. hand["to_ready"] \in Pcb
            BY <1>0, <4>1 DEF NewToReady_Send, HandsFull
          <5>. QED BY <4>1, <5>1, NewPacket DEF NewToReady_Send
        <4>2. CASE IoListener_Suspend
          <5>1. hand["io_listener"] \in Pcb
            BY <1>0, <4>2 DEF IoListener_Suspend, HandsFull
          <5>. QED BY <4>2, <5>1, SuspendPacket DEF IoListener_Suspend
        <4>. QED BY <2>1, <4>1, <4>2
      <3>. QED BY <3>1, <3>2, OtherPackets
    <2>2. CASE TableIndexSuccess \/ SuspensionSuccess
      <3>1. /\ memory_requests' = memory_requests /\ memory_answers # <<>>
            /\ Head(memory_answers).header # "PROCESS_EXIT_READY"
            /\ memory_answers' = Tail(memory_answers)
        BY <2>2 DEF TableIndexSuccess, SuspensionSuccess, Answered
      <3>. QED BY <3>1, OtherPackets
    <2>3. CASE ~(NewToReady_Send \/ IoListener_Suspend \/ TableIndexSuccess \/ SuspensionSuccess)
      <3>1. UNCHANGED <<memory_requests, memory_answers>>
        BY <2>3 DEF ToReady_Any, NewToReady_Put, NewToReady_Ready, PutToReady,
           PutToReady_Resume, ToExec, ToExec_Ready, ToExec_Cpu, ToExec_Dispatch,
           CpuDispatchListener, IoOp, ExitOp, HandleInterruption, socketVars
      <3>. QED BY <3>1, OtherPackets
    <2>. QED BY <2>1, <2>2, <2>3
  <1>6. \A S : Kept(S) => Moved(S, 0, 0, 0, 0)
    <2> SUFFICES ASSUME NEW S, Kept(S) PROVE Moved(S, 0, 0, 0, 0)
      OBVIOUS
    <2>1. CASE \/ ToReady_Any \/ NewToReady_Send \/ NewToReady_Put \/ NewToReady_Ready
               \/ ToExec_Ready \/ ToExec_Cpu \/ IoListener_Suspend \/ SuspensionSuccess
      <3>1. UNCHANGED <<hand, dispatch, returns, cpu_pcb, pcb_loaded, cpu_bussy, memory_exit_q>>
        BY <2>1 DEF ToReady_Any, NewToReady_Send, NewToReady_Put, NewToReady_Ready,
           ToExec_Ready, ToExec_Cpu, IoListener_Suspend, SuspensionSuccess, socketVars,
           departures, cpuVars
      <3>2. \A q \in Queues \ {"memory_init_q"} : queue'[q] = queue[q]
        BY <1>0, <2>1 DEF ToReady_Any, NewToReady_Send, NewToReady_Put, NewToReady_Ready,
           ToExec_Ready, ToExec_Cpu, IoListener_Suspend, SuspensionSuccess
      <3>. QED BY <3>1, <3>2, Resting
    <2>2. CASE PutToReady("to_ready")
      BY <2>2, KeptCarried, PutToReady_Moves DEF Planners
    <2>3. CASE \E t \in Planners : PutToReady_Resume(t)
      BY <2>3, PutToReady_Resume_Moves
    <2>4. CASE ToExec_Dispatch
      BY <2>4, ToExec_Dispatch_Moves
    <2>5. CASE CpuDispatchListener
      BY <2>5, KeptCarried, CpuDispatchListener_Moves
    <2>6. CASE TableIndexSuccess
      BY <2>6, TableIndexSuccess_Moves
    <2>. QED BY <2>1, <2>2, <2>3, <2>4, <2>5, <2>6 DEF ToExec
  <1>. QED BY <1>1, <1>2, <1>3, <1>4, <1>5, <1>6, NoArrival, Quiet

\* The CPU's steps.
LEMMA Cpu_Quiet ==
  ASSUME SystemInv, SystemInv', ExecutionInv, Settled, UNCHANGED kernelVars,
         ReceivePcb \/ ReceiveInterruption \/ CpuCycle,
         cycle # "cpu_bussy", cycle' # "cpu_bussy"
  PROVE  Settled'
  <1>1. UNCHANGED <<sem, at, hand, arrivals, answers>>
    BY DEF kernelVars, departures
  <1>2. UNCHANGED <<memory_requests, memory_answers>>
    BY DEF ReceivePcb, ReceiveInterruption, CpuCycle, CycleStart, CycleEnd, ExecuteNoOp,
       ExecuteIo, ExecuteExit, ExecuteMemoryOp, Mmu, NoInterruption, Evict, EvictGone,
       socketVars
  <1>3. ExitPacketsKept
    BY <1>2, OtherPackets
  <1>4. \A S : Kept(S) => Moved(S, 0, 0, 0, 0)
    BY KeptCarried, Cpu_Moves
  <1>. QED BY <1>1, <1>3, <1>4, NoArrival, Quiet

\* A step that moves processes between parts, but none that is leaving.
LEMMA Shifted ==
  ASSUME SystemInv, SystemInv', Settled,
         \A S : Kept(S) => \E a, b, o \in Int : a + b + o = 0 /\ Moved(S, a, b, 0, o),
         sem'["sem_multiprogram"] + Used' = sem["sem_multiprogram"] + Used,
         UNCHANGED <<arrivals, answers, memory_requests, memory_answers>>,
         at'["exit_process"] = at["exit_process"], hand'["exit_process"] = hand["exit_process"]
  PROVE  Settled'
  <1>1. ASSUME NEW S, Kept(S) PROVE Total(S)' = Total(S) /\ Leaving(S)' = Leaving(S)
    <2>1. PICK a \in Int, b \in Int, o \in Int : a + b + o = 0 /\ Moved(S, a, b, 0, o)
      BY <1>1
    <2>2. Total(S)' = Total(S) + (a + b + 0 + o) /\ Total(S) \in Nat
      BY <2>1, MovedTotal
    <2>3. Leaving(S)' = Leaving(S)
      BY <2>1, GroupCounts DEF Moved
    <2>. QED BY <2>1, <2>2, <2>3
  <1>2. ExitPacketsKept
    BY OtherPackets
  <1>. QED BY <1>1, <1>2, NoArrival, SettledKept

\* to_ready admits a process with the permit it took.
LEMMA ToReady_Admit_Settled ==
  ASSUME SystemInv, SystemInv', HandsEmpty, Settled, UNCHANGED cpuVars, ToReady_Admit
  PROVE  Settled'
  <1>0. /\ hand \in [Holders -> Pcb \cup {NoPcb}] /\ at \in [Threads -> Locations]
        /\ sem \in [Semaphores -> Nat]
    BY PlaceTypes
  <1>1. /\ UNCHANGED <<arrivals, answers, memory_requests, memory_answers>>
        /\ sem'["sem_multiprogram"] = sem["sem_multiprogram"] - 1
        /\ sem["sem_multiprogram"] \in Nat
    BY <1>0 DEF ToReady_Admit, departures, socketVars, Semaphores
  <1>2. /\ at'["exit_process"] = at["exit_process"] /\ hand'["exit_process"] = hand["exit_process"]
        /\ at'["io_listener"] = at["io_listener"]
    BY <1>0 DEF ToReady_Admit, Admit, Threads, Holders, Planners
  <1>3. ASSUME NEW S, Kept(S)
        PROVE  \E a, b, o \in Int : a + b + o = 0 /\ Moved(S, a, b, 0, o)
    <2> DEFINE d == One(hand'["to_ready"] \in S)
    <2>1. Moved(S, d, 0, 0, -d)
      BY <1>3, KeptCarried, ToReady_Admit_Moves
    <2>2. d \in Int
      BY DEF One
    <2> HIDE DEF d
    <2>3. d + 0 + (-d) = 0 /\ -d \in Int /\ 0 \in Int
      BY <2>2
    <2>. QED BY <2>1, <2>2, <2>3
  <1>4. Used' = Used + 1
    <2>1. Kept(Pcb)
      BY KeptSets
    <2>2. Moved(Pcb, 1, 0, 0, -1)
      <3>1. LET d == One(hand'["to_ready"] \in Pcb) IN
            hand'["to_ready"] \in Pcb /\ Moved(Pcb, d, 0, 0, -d)
        BY <2>1, KeptCarried, ToReady_Admit_Moves
      <3>. QED BY <3>1 DEF One
    <2>3. InIoAdmitted(Pcb)' = InIoAdmitted(Pcb)
      BY <1>2, <2>2, GroupCounts DEF Moved, InIoAdmitted
    <2>. QED BY <2>2, <2>3, GroupCounts DEF Moved, Used
  <1>5. sem'["sem_multiprogram"] + Used' = sem["sem_multiprogram"] + Used
    BY <1>1, <1>4, GroupCounts DEF Used
  <1>. QED BY <1>1, <1>2, <1>3, <1>5, Shifted

\* io_listener takes a process for its I/O; a suspended one uses no permit.
LEMMA IoListener_Take_Settled ==
  ASSUME SystemInv, SystemInv', HandsEmpty, Settled, UNCHANGED cpuVars,
         IoListener_Fits \/ IoListener_Exceeds \/ IoListener_Suspended
  PROVE  Settled'
  <1>0. /\ hand \in [Holders -> Pcb \cup {NoPcb}] /\ at \in [Threads -> Locations]
        /\ sem \in [Semaphores -> Nat]
    BY PlaceTypes
  <1>1. PICK q \in {"blocked_q", "suspended_block_q"},
             l \in {"put_to_ready", "PROCESS_SUSPEND", "suspended_ready_q"} :
          /\ IoListener_Take(q, l)
          /\ q = "suspended_block_q" <=> l = "suspended_ready_q"
    BY DEF IoListener_Fits, IoListener_Exceeds, IoListener_Suspended
  <1>2. /\ UNCHANGED <<arrivals, answers, memory_requests, memory_answers>>
        /\ sem'["sem_multiprogram"] = sem["sem_multiprogram"]
        /\ sem["sem_multiprogram"] \in Nat
        /\ at["io_listener"] = "process_for_IO" /\ at'["io_listener"] = l
        /\ at'["exit_process"] = at["exit_process"] /\ hand'["exit_process"] = hand["exit_process"]
    BY <1>0, <1>1 DEF IoListener_Take, departures, socketVars, Semaphores, Threads, Holders,
       Planners
  <1>3. ASSUME NEW S, Kept(S)
        PROVE  \E a, b, o \in Int : a + b + o = 0 /\ Moved(S, a, b, 0, o)
    <2> DEFINE d == One(hand'["io_listener"] \in S)
    <2>1. \/ Moved(S, -d, d, 0, 0)
          \/ Moved(S, 0, d, 0, -d)
      BY <1>1, <1>3, KeptCarried, IoListener_Take_Moves
    <2>2. d \in Int
      BY DEF One
    <2> HIDE DEF d
    <2>3. -d + d + 0 = 0 /\ 0 + d + (-d) = 0 /\ -d \in Int /\ 0 \in Int
      BY <2>2
    <2>. QED BY <2>1, <2>2, <2>3
  <1>4. Used' = Used
    <2>1. Kept(Pcb)
      BY KeptSets
    <2>2. /\ q = "blocked_q" => Moved(Pcb, -1, 1, 0, 0)
          /\ q = "suspended_block_q" => Moved(Pcb, 0, 1, 0, -1)
      <3>1. LET d == One(hand'["io_listener"] \in Pcb) IN
            /\ hand'["io_listener"] \in Pcb
            /\ q = "blocked_q" => Moved(Pcb, -d, d, 0, 0)
            /\ q = "suspended_block_q" => Moved(Pcb, 0, d, 0, -d)
        BY <1>1, <2>1, KeptCarried, IoListener_Take_Moves
      <3>. QED BY <3>1 DEF One
    <2>3. InIo(Pcb) = 0
      <3>1. "io_listener" \in Holders /\ hand["io_listener"] = NoPcb
        BY <1>0, <1>2 DEF HandsEmpty, HoldingPoints, Holders, Planners
      <3>. QED BY <2>1, <3>1, KeptCarried, Hands DEF InIo
    <2>4. InIoAdmitted(Pcb) = 0
      BY <1>2, <2>3 DEF InIoAdmitted
    <2>5. CASE q = "blocked_q"
      <3>1. InIoAdmitted(Pcb)' = InIo(Pcb)'
        BY <1>1, <1>2, <2>5 DEF InIoAdmitted
      <3>. QED BY <2>2, <2>3, <2>4, <2>5, <3>1, GroupCounts DEF Moved, Used
    <2>6. CASE q = "suspended_block_q"
      <3>1. InIoAdmitted(Pcb)' = 0
        BY <1>1, <1>2, <2>6 DEF InIoAdmitted
      <3>. QED BY <2>2, <2>4, <2>6, <3>1, GroupCounts DEF Moved, Used
    <2>. QED BY <2>5, <2>6
  <1>5. sem'["sem_multiprogram"] + Used' = sem["sem_multiprogram"] + Used
    BY <1>2, <1>4
  <1>. QED BY <1>2, <1>3, <1>5, Shifted

\* io_listener lets a process go: to ready_q, or outside memory, giving its permit back.
LEMMA IoListener_Put_Settled ==
  ASSUME SystemInv, SystemInv', Settled, UNCHANGED cpuVars,
         IoListener_Wait \/ IoListener_Finish \/ PutToReady("io_listener")
  PROVE  Settled'
  <1>0. /\ hand \in [Holders -> Pcb \cup {NoPcb}] /\ at \in [Threads -> Locations]
        /\ sem \in [Semaphores -> Nat] /\ HandsFull
    BY PlaceTypes
  <1>1. /\ UNCHANGED <<arrivals, answers, memory_requests, memory_answers>>
        /\ sem["sem_multiprogram"] \in Nat
        /\ at'["exit_process"] = at["exit_process"] /\ hand'["exit_process"] = hand["exit_process"]
        /\ at'["io_listener"] # "suspended_ready_q"
    BY <1>0 DEF IoListener_Wait, IoListener_Finish, PutToReady, PutToReady_Fifo,
       PutToReady_Replan, PutToReady_Interrupt, departures, socketVars, Semaphores, Threads,
       Holders, Planners, LoopStart
  <1>2. hand["io_listener"] \in Pcb
    BY <1>0 DEF IoListener_Wait, IoListener_Finish, PutToReady, HandsFull
  <1>3. ASSUME NEW S, Kept(S)
        PROVE  LET d == One(hand["io_listener"] \in S) IN
               /\ IoListener_Wait \/ IoListener_Finish => Moved(S, 0, -d, 0, d)
               /\ PutToReady("io_listener") => Moved(S, d, -d, 0, 0)
    BY <1>3, KeptCarried, IoListener_Put_Moves, PutToReady_Moves DEF Planners
  <1>4. ASSUME NEW S, Kept(S)
        PROVE  \E a, b, o \in Int : a + b + o = 0 /\ Moved(S, a, b, 0, o)
    <2> DEFINE d == One(hand["io_listener"] \in S)
    <2>1. \/ Moved(S, 0, -d, 0, d)
          \/ Moved(S, d, -d, 0, 0)
      BY <1>3, <1>4
    <2>2. d \in Int
      BY DEF One
    <2> HIDE DEF d
    <2>3. 0 + (-d) + d = 0 /\ d + (-d) + 0 = 0 /\ -d \in Int /\ 0 \in Int
      BY <2>2
    <2>. QED BY <2>1, <2>2, <2>3
  <1>5. /\ IoListener_Wait \/ IoListener_Finish => Moved(Pcb, 0, -1, 0, 1)
        /\ PutToReady("io_listener") => Moved(Pcb, 1, -1, 0, 0)
    <2>1. LET d == One(hand["io_listener"] \in Pcb) IN
               /\ IoListener_Wait \/ IoListener_Finish => Moved(Pcb, 0, -d, 0, d)
               /\ PutToReady("io_listener") => Moved(Pcb, d, -d, 0, 0)
      BY <1>3, KeptSets
    <2>. QED BY <1>2, <2>1 DEF One
  <1>6. InIoAdmitted(Pcb)' = InIo(Pcb)'
    BY <1>1 DEF InIoAdmitted
  <1>7. InIo(Pcb) = 1
    <2>1. Kept(Pcb) /\ "io_listener" \in Holders
      BY KeptSets DEF Holders, Planners
    <2>. QED BY <1>2, <2>1, KeptCarried, Hands DEF InIo, One
  <1>8. sem'["sem_multiprogram"] + Used' = sem["sem_multiprogram"] + Used
    <2>1. CASE IoListener_Wait
      <3>1. /\ sem'["sem_multiprogram"] = sem["sem_multiprogram"] + 1
            /\ at["io_listener"] = "waiting_for_suspension"
        BY <1>0, <2>1 DEF IoListener_Wait, Semaphores
      <3>2. InIoAdmitted(Pcb) = 1
        BY <1>7, <3>1 DEF InIoAdmitted
      <3>3. Used' = Used - 1
        BY <1>5, <1>6, <1>7, <2>1, <3>2, GroupCounts DEF Moved, Used
      <3>. QED BY <1>1, <3>1, <3>3, GroupCounts DEF Used
    <2>2. CASE IoListener_Finish
      <3>1. /\ sem'["sem_multiprogram"] = sem["sem_multiprogram"]
            /\ at["io_listener"] = "suspended_ready_q"
        BY <1>0, <2>2 DEF IoListener_Finish, Semaphores
      <3>2. InIoAdmitted(Pcb) = 0
        BY <3>1 DEF InIoAdmitted
      <3>3. Used' = Used
        BY <1>5, <1>6, <1>7, <2>2, <3>2, GroupCounts DEF Moved, Used
      <3>. QED BY <3>1, <3>3
    <2>3. CASE PutToReady("io_listener")
      <3>1. /\ sem'["sem_multiprogram"] = sem["sem_multiprogram"]
            /\ at["io_listener"] = "put_to_ready"
        BY <1>0, <2>3 DEF PutToReady, PutToReady_Fifo, PutToReady_Replan,
           PutToReady_Interrupt, Semaphores
      <3>2. InIoAdmitted(Pcb) = 1
        BY <1>7, <3>1 DEF InIoAdmitted
      <3>3. Used' = Used
        BY <1>5, <1>6, <1>7, <2>3, <3>2, GroupCounts DEF Moved, Used
      <3>. QED BY <3>1, <3>3
    <2>. QED BY <2>1, <2>2, <2>3
  <1>. QED BY <1>1, <1>4, <1>8, Shifted

-----------------------------------------------------------------------------
(* Arrivals. *)

\* A larger set of processes has a larger total.
LEMMA TotalMonotonic ==
  ASSUME SystemInv, NEW S, NEW R, S \subseteq R
  PROVE  Total(S) <= Total(R)
  <1>1. /\ \A q \in Queues : Count(queue[q], S) <= Count(queue[q], R)
        /\ \A t \in Holders : Count(Held(t), S) <= Count(Held(t), R)
        /\ Count(dispatch, S) <= Count(dispatch, R)
        /\ Count(InCpu, S) <= Count(InCpu, R) /\ Count(Returning, S) <= Count(Returning, R)
        /\ Count(memory_exit_q, S) <= Count(memory_exit_q, R)
    <2>1. \A q \in Queues : queue[q] \in Seq(Pcb)
      BY PlaceTypes
    <2>. QED BY <2>1, PlaceTypes, CountMonotonic
  <1>2. InReady(S) <= InReady(R) /\ Queued(S) <= Queued(R)
    BY <1>1, PlaceCounts DEF InReady, Queued, Queues, Holders, Planners
  <1>3. InExec(S) <= InExec(R)
    BY <1>1, PlaceCounts DEF InExec
  <1>4. InIo(S) <= InIo(R) /\ Leaving(S) <= Leaving(R)
    BY <1>1, PlaceCounts DEF InIo, Leaving, Holders, Planners
  <1>5. Outside(S) <= Outside(R)
    BY <1>1, PlaceCounts DEF Outside, Queues
  <1>6. Inside(S) <= Inside(R)
    BY <1>2, <1>3, GroupCounts DEF Inside
  <1>. QED BY <1>4, <1>5, <1>6, GroupCounts DEF Total

\* Two connections cannot number their processes at once, so the numbers differ.
LEMMA ReceiveProcess_Numbering ==
  ASSUME SystemInv, Numbering, ~OverlapConsoles, NEW c \in Consoles, ReceiveProcess(c)
  PROVE  Numbering'
  <1>0. /\ pid \in Nat /\ next_pid \in [Consoles -> Nat]
        /\ receiving \in [Consoles -> {"unsent", "pid++", "put", "received"}]
    BY PlaceTypes
  <1>1. CASE ReceiveProcess_Read(c)
    <2>1. /\ receiving[c] = "unsent" /\ \A d \in Consoles : receiving[d] \in {"unsent", "received"}
          /\ next_pid' = [next_pid EXCEPT ![c] = pid + 1]
          /\ receiving' = [receiving EXCEPT ![c] = "pid++"]
          /\ pid' = pid
      BY <1>1 DEF ReceiveProcess_Read
    <2>2. receiving'[c] = "pid++" /\ next_pid'[c] = pid + 1
      BY <1>0, <2>1
    <2>3. \A d \in Consoles \ {c} : receiving'[d] = receiving[d] /\ next_pid'[d] = next_pid[d]
      BY <1>0, <2>1
    <2>. QED BY <1>0, <2>1, <2>2, <2>3 DEF Numbering, Numbered
  <1>2. CASE ReceiveProcess_Write(c)
    <2>1. /\ receiving[c] = "pid++" /\ pid' = next_pid[c] /\ next_pid' = next_pid
          /\ receiving' = [receiving EXCEPT ![c] = "put"]
      BY <1>2 DEF ReceiveProcess_Write
    <2>2. receiving'[c] = "put" /\ next_pid[c] = pid + 1 /\ pid' = pid + 1
      BY <1>0, <2>1 DEF Numbering
    <2>3. \A d \in Consoles \ {c} : receiving'[d] = receiving[d]
      BY <1>0, <2>1
    <2>4. \A d \in Consoles \ {c} : receiving[d] \in {"unsent", "received"}
      BY <2>1 DEF Numbering
    <2>5. \A d \in Consoles : Numbered(d) => next_pid[d] <= pid
      BY DEF Numbering
    <2>6. \A d \in Consoles \ {c} : Numbered(d) => next_pid[d] # next_pid[c]
      BY <1>0, <2>2, <2>5
    <2>7. \A d \in Consoles : receiving[d] = "received" => Numbered(d)
      BY DEF Numbered
    <2>8. \A d \in Consoles :
            /\ receiving'[d] # "pid++" /\ (receiving'[d] = "put" => d = c)
            /\ Numbered(d)' => d = c \/ Numbered(d)
      BY <2>2, <2>3, <2>4 DEF Numbered
    <2>9. \A d \in Consoles : Numbered(d)' => next_pid'[d] <= pid'
      BY <1>0, <2>1, <2>2, <2>5, <2>8
    <2>10. \A d, e \in Consoles : d # e /\ Numbered(d)' /\ Numbered(e)' =>
             next_pid'[d] # next_pid'[e]
      <3> SUFFICES ASSUME NEW d \in Consoles, NEW e \in Consoles, d # e,
                          Numbered(d)', Numbered(e)'
                   PROVE  next_pid[d] # next_pid[e]
        BY <2>1
      <3>1. CASE d = c
        BY <2>6, <2>8, <3>1
      <3>2. CASE e = c
        BY <2>6, <2>8, <3>2
      <3>3. CASE d # c /\ e # c
        BY <2>8, <3>3 DEF Numbering
      <3>. QED BY <3>1, <3>2, <3>3
    <2>11. \A d, e \in Consoles : d # e =>
             receiving'[d] \in {"unsent", "received"} \/ receiving'[e] \in {"unsent", "received"}
      BY <2>3, <2>4
    <2>12. \A d \in Consoles : receiving'[d] = "put" => next_pid'[d] = pid'
      BY <2>1, <2>8
    <2>. QED BY <2>8, <2>9, <2>10, <2>11, <2>12 DEF Numbering
  <1>3. CASE ReceiveProcess_Put(c)
    <2>1. /\ receiving[c] = "put" /\ UNCHANGED <<pid, next_pid>>
          /\ receiving' = [receiving EXCEPT ![c] = "received"]
      BY <1>3 DEF ReceiveProcess_Put
    <2>2. receiving'[c] = "received" /\ \A d \in Consoles \ {c} : receiving'[d] = receiving[d]
      BY <1>0, <2>1
    <2>3. \A d \in Consoles : Numbered(d)' <=> Numbered(d)
      BY <2>1, <2>2 DEF Numbered
    <2>. QED BY <2>1, <2>2, <2>3 DEF Numbering
  <1>. QED BY <1>1, <1>2, <1>3 DEF ReceiveProcess

\* receive_process puts its process, numbered, in new_q.
LEMMA ReceiveProcess_Settled ==
  ASSUME SystemInv, SystemInv', Numbering, Settled, UNCHANGED cpuVars,
         NEW c \in Consoles, ReceiveProcess(c)
  PROVE  Settled'
  <1>0. /\ pid \in Nat /\ next_pid \in [Consoles -> Nat]
        /\ receiving \in [Consoles -> {"unsent", "pid++", "put", "received"}]
        /\ queue \in [Queues -> Seq(Pcb)] /\ sem \in [Semaphores -> Nat]
        /\ answers \in [Consoles -> Nat]
    BY PlaceTypes
  <1>1. UNCHANGED <<answers, hand, at, dispatch, returns, cpu_pcb, pcb_loaded, cpu_bussy,
                    memory_exit_q, memory_requests, memory_answers>>
    BY DEF ReceiveProcess, ReceiveProcess_Read, ReceiveProcess_Write, ReceiveProcess_Put,
       departures, socketVars, cpuVars
  <1>2. ExitPacketsKept
    BY <1>1, OtherPackets
  <1>3. CASE ReceiveProcess_Read(c) \/ ReceiveProcess_Write(c)
    <2>1. /\ receiving[c] # "received" /\ receiving'[c] # "received" /\ UNCHANGED <<queue, sem>>
          /\ \A d \in Consoles \ {c} : receiving'[d] = receiving[d] /\ next_pid'[d] = next_pid[d]
      BY <1>0, <1>3 DEF ReceiveProcess_Read, ReceiveProcess_Write
    <2>2. Misnumbered' = Misnumbered
      <3>1. \A p \in Pcb : p.client_socket \in Consoles
        BY DEF Pcb
      <3>. QED BY <2>1, <3>1 DEF Misnumbered
    <2>3. ArrivalsKept
      BY <2>1, <2>2 DEF ArrivalsKept
    <2>4. \A S : Kept(S) => Moved(S, 0, 0, 0, 0)
      BY <1>1, <2>1, Resting
    <2>. QED BY <1>1, <1>2, <2>1, <2>3, <2>4, Quiet
  <1>4. CASE ReceiveProcess_Put(c)
    <2>1. PICK n \in {pid, next_pid[c]} :
            queue' = [queue EXCEPT !["new_q"] = Append(@,
                     [client_socket |-> c, pid |-> n, program_counter |-> 0,
                      page_table |-> 0, process_frames_index |-> 0,
                      left_burst_estimation |-> InitialEstimate])]
      BY <1>4 DEF ReceiveProcess_Put
    <2> DEFINE p == [client_socket |-> c, pid |-> n, program_counter |-> 0,
                     page_table |-> 0, process_frames_index |-> 0,
                     left_burst_estimation |-> InitialEstimate]
    <2>2. /\ receiving[c] = "put" /\ receiving' = [receiving EXCEPT ![c] = "received"]
          /\ UNCHANGED <<pid, next_pid>>
          /\ sem'["sem_multiprogram"] = sem["sem_multiprogram"]
      BY <1>0, <1>4 DEF ReceiveProcess_Put, Semaphores
    <2>3. /\ receiving'[c] = "received" /\ \A d \in Consoles \ {c} : receiving'[d] = receiving[d]
      BY <1>0, <2>2
    <2>4. n = next_pid[c] /\ n \in Nat
      BY <1>0, <2>2 DEF Numbering
    <2>5. p \in Pcb /\ p.client_socket = c /\ p.pid = n
      BY <2>4, InitialEstimateAssumption DEF Pcb
    <2>6. /\ queue'["new_q"] = Append(queue["new_q"], p) /\ queue["new_q"] \in Seq(Pcb)
          /\ UNCHANGED <<queue["ready_q"], queue["blocked_q"], queue["exit_q"],
                         queue["suspended_block_q"], queue["suspended_ready_q"]>>
      BY <1>0, <2>1 DEF Queues
    <2> HIDE DEF p
    <2>7. ASSUME NEW S
          PROVE  Moved(S, 0, 0, 0, One(p \in S)) /\ Total(S)' = Total(S) + One(p \in S)
      <3> DEFINE d == One(p \in S)
      <3>1. Count(queue'["new_q"], S) = Count(queue["new_q"], S) + d /\ d \in Nat
        <4>1. Count(Append(queue["new_q"], p), S) = Count(queue["new_q"], S) + d
          BY <2>5, <2>6, CountAppend
        <4>. QED BY <2>6, <4>1 DEF One
      <3>2. UNCHANGED <<InReady(S), InExec(S), Queued(S), InIo(S), Leaving(S)>>
        BY <1>1, <2>6, GroupsSame
      <3>3. UNCHANGED <<Count(queue["suspended_block_q"], S), Count(queue["suspended_ready_q"], S)>>
        BY <2>6
      <3> HIDE DEF d
      <3>4. Outside(S)' = Outside(S) + d
        BY <3>1, <3>3, PlaceCounts DEF Outside
      <3>5. Moved(S, 0, 0, 0, d)
        BY <3>2, <3>4, GroupCounts DEF Moved, Inside
      <3>6. Total(S)' = Total(S) + (0 + 0 + 0 + d) /\ Total(S) \in Nat
        BY <3>1, <3>5, MovedTotal
      <3>7. Total(S)' = Total(S) + d
        BY <3>1, <3>6
      <3>. QED BY <3>5, <3>7 DEF d
    <2>8. Bounded'
      <3>1. UNCHANGED <<Inside(Pcb), InIo(Pcb), Leaving(Pcb)>>
        BY <2>7, GroupCounts DEF Moved
      <3>2. Used' = Used
        BY <1>1, <3>1 DEF Used, InIoAdmitted
      <3>. QED BY <2>2, <3>2 DEF Settled, Bounded
    <2>9. Placed'
      <3> SUFFICES ASSUME NEW d \in Consoles
                   PROVE  Total(ProcessOf(d))' + answers'[d] = One(receiving'[d] = "received")
        BY DEF Placed
      <3>1. PICK S : S = ProcessOf(d)
        OBVIOUS
      <3>2. ProcessOf(d)' = ProcessOf(d)
        BY DEF ProcessOf
      <3>3. Total(ProcessOf(d))' = Total(S)' /\ Total(ProcessOf(d)) = Total(S)
        BY <3>1, <3>2 DEF Total, Inside, InReady, InExec, Queued, InIo, Leaving, Outside
      <3>4. Total(S)' = Total(S) + One(d = c)
        <4>1. p \in S <=> d = c
          BY <2>5, <3>1 DEF ProcessOf
        <4>. QED BY <2>7, <4>1 DEF One
      <3>5. Total(S) + answers[d] = One(receiving[d] = "received")
        BY <3>3 DEF Settled, Placed
      <3>6. Total(S) \in Nat /\ answers[d] \in Nat
        BY <1>0, GroupCounts DEF Total
      <3>7. Total(S)' + answers[d] = One(receiving'[d] = "received")
        <4>1. One(receiving'[d] = "received") = One(receiving[d] = "received") + One(d = c)
          BY <2>2, <2>3 DEF One
        <4>2. One(d = c) \in Nat /\ One(receiving[d] = "received") \in Nat
          BY DEF One
        <4>. QED BY <3>4, <3>5, <3>6, <4>1, <4>2
      <3>. QED BY <1>1, <3>3, <3>7
    <2>10. Numbers'
      <3>1. PICK S, R : S = Misnumbered' /\ R = Misnumbered
        OBVIOUS
      <3>2. S \subseteq R /\ p \notin S
        <4>1. \A r \in Pcb : r.client_socket \in Consoles
          BY DEF Pcb
        <4>2. S \subseteq R
          BY <2>2, <2>3, <3>1, <4>1 DEF Misnumbered
        <4>3. p \notin S
          BY <2>2, <2>3, <2>4, <2>5, <3>1 DEF Misnumbered
        <4>. QED BY <4>2, <4>3
      <3>3. Total(S)' = Total(S) + 0
        BY <2>7, <3>2 DEF One
      <3>4. Total(S) <= Total(R) /\ Total(R) = 0 /\ Total(S) \in Nat
        BY <3>1, <3>2, TotalMonotonic, GroupCounts DEF Settled, Numbers, Total
      <3>5. Total(Misnumbered)' = Total(S)'
        BY <3>1 DEF Total, Inside, InReady, InExec, Queued, InIo, Leaving, Outside
      <3>. QED BY <3>3, <3>4, <3>5 DEF Numbers
    <2>11. ExitsMatch'
      <3>1. \A S : Leaving(S)' = Leaving(S)
        BY <1>1, GroupsSame
      <3>. QED BY <1>2, <3>1, ExitsKept
    <2>12. PutBeforeAnswer'
      BY <1>1 DEF Settled, PutBeforeAnswer, ExitAnswers
    <2>. QED BY <2>8, <2>9, <2>10, <2>11, <2>12 DEF Settled
  <1>. QED BY <1>3, <1>4 DEF ReceiveProcess

-----------------------------------------------------------------------------
(* Exits. *)

\* A process in any of these places counts, and none is misnumbered.
LEMMA PlacedIsNumbered ==
  ASSUME SystemInv, Settled, NEW p \in Pcb,
         \/ \E i \in DOMAIN queue["exit_q"] : queue["exit_q"][i] = p
         \/ \E i \in DOMAIN memory_exit_q : memory_exit_q[i] = p
         \/ hand["exit_process"] = p
  PROVE  receiving[p.client_socket] = "received" /\ p.pid = next_pid[p.client_socket]
  <1> SUFFICES p \notin Misnumbered
    BY DEF Misnumbered
  <1> DEFINE M == Misnumbered
  <1>1. Kept(M) /\ Total(M) = 0
    BY KeptSets DEF Settled, Numbers
  <1>2. Inside(M) = 0 /\ Leaving(M) = 0
    BY <1>1, GroupCounts DEF Total
  <1>3. Queued(M) = 0
    BY <1>2, GroupCounts DEF Inside
  <1>4. Count(queue["exit_q"], M) = 0 /\ Count(memory_exit_q, M) = 0
        /\ Count(Held("exit_process"), M) = 0
    BY <1>2, <1>3, PlaceCounts DEF Queued, Leaving
  <1>5. queue["exit_q"] \in Seq(Pcb) /\ memory_exit_q \in Seq(Pcb \cup {Freed})
    BY PlaceTypes DEF Queues
  <1>6. One(hand["exit_process"] \in M) = 0
    BY <1>1, <1>4, KeptCarried, SinglePlaces DEF Holders
  <1>7. hand["exit_process"] \notin M
    BY <1>6 DEF One
  <1>8. \A i \in DOMAIN queue["exit_q"] : queue["exit_q"][i] \notin M
    BY <1>4, <1>5, CountMeans
  <1>9. \A i \in DOMAIN memory_exit_q : memory_exit_q[i] \notin M
    BY <1>4, <1>5, CountMeans
  <1>. QED BY <1>7, <1>8, <1>9

\* Processes with the same number are of the same console.
LEMMA SameNumber ==
  ASSUME Numbering, NEW p \in Pcb, NEW r \in Pcb, p.pid = r.pid,
         receiving[p.client_socket] = "received", p.pid = next_pid[p.client_socket],
         receiving[r.client_socket] = "received", r.pid = next_pid[r.client_socket]
  PROVE  p.client_socket = r.client_socket
  <1>1. p.client_socket \in Consoles /\ r.client_socket \in Consoles
    BY DEF Pcb
  <1>. QED BY <1>1 DEF Numbering, Numbered

\* While one process with number n waits for its memory to be destroyed, no other
\* with that number is in exit_q or waits too.
LEMMA OneLeaves ==
  ASSUME SystemInv, Numbering, Settled, NEW k \in DOMAIN memory_exit_q, memory_exit_q[k] \in Pcb
  PROVE  /\ \A i \in DOMAIN memory_exit_q :
              memory_exit_q[i] \in Pcb /\ memory_exit_q[i].pid = memory_exit_q[k].pid => i = k
         /\ \A i \in DOMAIN queue["exit_q"] : queue["exit_q"][i].pid # memory_exit_q[k].pid
  <1> DEFINE p == memory_exit_q[k]
             c == p.client_socket
             P == ProcessOf(c)
  <1>0. queue["exit_q"] \in Seq(Pcb) /\ memory_exit_q \in Seq(Pcb \cup {Freed})
    BY PlaceTypes DEF Queues
  <1>1. receiving[c] = "received" /\ p.pid = next_pid[c]
    BY PlacedIsNumbered
  <1>2. p \in P /\ c \in Consoles
    BY DEF ProcessOf, Pcb
  <1>3. Total(P) <= 1
    <2>1. Total(P) + answers[c] = One(receiving[c] = "received")
      BY <1>2 DEF Settled, Placed
    <2>2. answers[c] \in Nat
      <3>1. answers \in [Consoles -> Nat]
        BY PlaceTypes
      <3>. QED BY <1>2, <3>1
    <2> HIDE DEF P
    <2>3. Total(P) \in Nat
      BY GroupCounts DEF Total
    <2>. QED BY <2>1, <2>2, <2>3 DEF One
  <1>4. Count(queue["exit_q"], P) + Count(memory_exit_q, P) <= 1
    <2>1. Inside(P) + Leaving(P) <= 1
      BY <1>3, GroupCounts DEF Total
    <2>2. Queued(P) + Leaving(P) <= 1
      BY <2>1, GroupCounts DEF Inside
    <2>. QED BY <2>2, PlaceCounts DEF Queued, Leaving
  <1>5. Count(queue["exit_q"], P) \in Nat /\ Count(memory_exit_q, P) \in Nat
    BY PlaceCounts
  <1>6. Count(memory_exit_q, P) # 0
    BY <1>0, <1>2, CountMeans
  <1>7. Count(queue["exit_q"], P) = 0 /\ Count(memory_exit_q, P) <= 1
    BY <1>4, <1>5, <1>6
  <1>8. ASSUME NEW i \in DOMAIN memory_exit_q, memory_exit_q[i] \in Pcb,
               memory_exit_q[i].pid = memory_exit_q[k].pid
        PROVE  i = k
    <2>1. /\ receiving[memory_exit_q[i].client_socket] = "received"
          /\ memory_exit_q[i].pid = next_pid[memory_exit_q[i].client_socket]
      BY <1>8, PlacedIsNumbered
    <2>2. memory_exit_q[i].client_socket = c
      BY <1>1, <1>8, <2>1, SameNumber
    <2>3. memory_exit_q[i] \in P
      BY <1>8, <2>2 DEF ProcessOf
    <2>. QED BY <1>0, <1>2, <1>7, <2>3, CountMeans
  <1>9. ASSUME NEW i \in DOMAIN queue["exit_q"], queue["exit_q"][i].pid = memory_exit_q[k].pid
        PROVE  FALSE
    <2>0. queue["exit_q"][i] \in Pcb
      BY <1>0
    <2>1. /\ receiving[queue["exit_q"][i].client_socket] = "received"
          /\ queue["exit_q"][i].pid = next_pid[queue["exit_q"][i].client_socket]
      BY <2>0, PlacedIsNumbered
    <2>2. queue["exit_q"][i].client_socket = c
      BY <1>1, <1>9, <2>0, <2>1, SameNumber
    <2>3. queue["exit_q"][i] \in P
      BY <2>0, <2>2 DEF ProcessOf
    <2>. QED BY <1>0, <1>7, <2>3, CountMeans
  <1>. QED BY <1>8, <1>9

\* exit_process takes a process that ended: its exit is asked for and not answered,
\* since an answer would be about another process with the same number.
LEMMA ExitProcess_Send_Settled ==
  ASSUME SystemInv, SystemInv', Numbering, HandsEmpty, Settled, UNCHANGED cpuVars,
         ExitProcess_Send
  PROVE  Settled'
  <1>0. /\ queue["exit_q"] \in Seq(Pcb) /\ hand \in [Holders -> Pcb \cup {NoPcb}]
        /\ at \in [Threads -> Locations] /\ sem \in [Semaphores -> Nat]
        /\ memory_requests \in Seq(MemoryRequests) /\ memory_answers \in Seq(MemoryAnswers)
        /\ memory_exit_q \in Seq(Pcb \cup {Freed})
    BY PlaceTypes DEF Queues
  <1> DEFINE p == Head(queue["exit_q"])
             m == [header |-> "PROCESS_EXIT", pid |-> p.pid, page_table |-> p.page_table,
                   process_frames_index |-> p.process_frames_index]
  <1>1. /\ at["exit_process"] = "to_exit" /\ queue["exit_q"] # <<>>
        /\ memory_requests' = Append(memory_requests, m)
        /\ UNCHANGED <<arrivals, answers, memory_answers>>
        /\ sem'["sem_multiprogram"] = sem["sem_multiprogram"] /\ sem["sem_multiprogram"] \in Nat
        /\ at'["io_listener"] = at["io_listener"]
    BY <1>0 DEF ExitProcess_Send, departures, Semaphores, Threads, Holders, Planners
  <1>2. p \in Pcb /\ m \in MemoryRequests /\ p.pid \in Nat /\ p = queue["exit_q"][1]
        /\ 1 \in DOMAIN queue["exit_q"]
    <2>1. p \in Pcb /\ p = queue["exit_q"][1] /\ 1 \in DOMAIN queue["exit_q"]
      BY <1>0, <1>1
    <2> HIDE DEF p
    <2>2. m \in MemoryRequests /\ p.pid \in Nat
      BY <2>1, SuspendPacket DEF Pcb
    <2>. QED BY <2>1, <2>2 DEF p
  <1>3. hand'["exit_process"] = p
    BY KeptCarried, ExitProcess_Send_Moves, KeptSets
  <1>4. ASSUME NEW S, Kept(S) PROVE Moved(S, -One(p \in S), 0, One(p \in S), 0)
    BY <1>3, <1>4, KeptCarried, ExitProcess_Send_Moves
  <1> HIDE DEF p
  <1>5. Placed' /\ Numbers'
    <2>1. ASSUME NEW S, Kept(S) PROVE Total(S)' = Total(S)
      <3> DEFINE d == One(p \in S)
      <3>1. Moved(S, -d, 0, d, 0) /\ d \in Int
        BY <1>4, <2>1 DEF One
      <3> HIDE DEF d
      <3>2. -d \in Int /\ 0 \in Int
        BY <3>1
      <3>3. Total(S)' = Total(S) + (-d + 0 + d + 0) /\ Total(S) \in Nat
        BY <3>1, <3>2, MovedTotal
      <3>. QED BY <3>1, <3>3
    <2>. QED BY <1>1, <2>1, NoArrival, TotalsKept
  <1>6. Bounded'
    <2>1. Moved(Pcb, -1, 0, 1, 0)
      BY <1>2, <1>4, KeptSets DEF One
    <2>2. InIoAdmitted(Pcb)' = InIoAdmitted(Pcb)
      BY <1>1, <2>1, GroupCounts DEF Moved, InIoAdmitted
    <2>3. Used' = Used
      BY <2>1, <2>2, GroupCounts DEF Moved, Used
    <2>. QED BY <1>1, <2>3 DEF Settled, Bounded
  <1>7. ExitsMatch'
    <2> SUFFICES ASSUME NEW n \in Nat
                 PROVE  Count(memory_requests, ExitRequests(n))'
                          + Count(memory_answers, ExitAnswers(n))' = Leaving(WithPid(n))'
      BY DEF ExitsMatch
    <2> DEFINE d == One(p.pid = n)
               a == Count(memory_requests, ExitRequests(n))
               b == Count(memory_answers, ExitAnswers(n))
    <2>0. PICK S : S = WithPid(n)
      OBVIOUS
    <2>1. a' = a + d
      <3>1. m \in ExitRequests(n) <=> p.pid = n
        BY <1>2 DEF ExitRequests
      <3>2. One(m \in ExitRequests(n)) = d
        BY <3>1 DEF One
      <3>3. Count(Append(memory_requests, m), ExitRequests(n)) = a + One(m \in ExitRequests(n))
        BY <1>0, <1>2, CountAppend
      <3>. QED BY <1>1, <3>2, <3>3 DEF ExitRequests
    <2>2. b' = b /\ a \in Nat /\ b \in Nat /\ d \in Nat
      BY <1>0, <1>1, CountType DEF ExitAnswers, One
    <2>3. Leaving(S)' = Leaving(S) + d
      <3>1. p \in S <=> p.pid = n
        BY <1>2, <2>0 DEF WithPid
      <3>2. Kept(S)
        BY <2>0, KeptSets
      <3>3. One(p \in S) = d
        BY <3>1 DEF One
      <3>. QED BY <1>4, <3>2, <3>3 DEF Moved
    <2>4. Leaving(WithPid(n))' = Leaving(S)' /\ Leaving(WithPid(n)) = Leaving(S)
      BY <2>0 DEF Leaving, WithPid
    <2>5. a + b = Leaving(S)
      BY <2>4 DEF Settled, ExitsMatch
    <2>6. a' + b' = Leaving(S)'
      <3> HIDE DEF a, b, d
      <3>. QED BY <2>1, <2>2, <2>3, <2>5
    <2>. QED BY <2>4, <2>6
  <1>8. PutBeforeAnswer'
    <2> DEFINE n == p.pid
               b == Count(memory_answers, ExitAnswers(n))
    <2>1. b = 0
      <3>1. b \in Nat /\ Count(memory_requests, ExitRequests(n)) \in Nat
        BY <1>0, CountType
      <3>2. SUFFICES Leaving(WithPid(n)) = 0
        <4>1. Count(memory_requests, ExitRequests(n)) + b = Leaving(WithPid(n))
          BY <1>2 DEF Settled, ExitsMatch
        <4>. QED BY <3>1, <3>2, <4>1
      <3>3. Count(Held("exit_process"), WithPid(n)) = 0
        <4>1. hand["exit_process"] = NoPcb /\ "exit_process" \in Holders /\ Kept(WithPid(n))
          BY <1>1, KeptSets DEF HandsEmpty, Holders
        <4>. QED BY <4>1, KeptCarried, Hands
      <3>4. Count(memory_exit_q, WithPid(n)) = 0
        <4> SUFFICES ASSUME NEW i \in DOMAIN memory_exit_q, memory_exit_q[i] \in WithPid(n)
                     PROVE  FALSE
          BY <1>0, CountMeans
        <4>1. memory_exit_q[i] \in Pcb /\ memory_exit_q[i].pid = n
          BY DEF WithPid
        <4>. QED BY <1>2, <4>1, OneLeaves
      <3>. QED BY <3>3, <3>4 DEF Leaving
    <2>2. Count(memory_answers', ExitAnswers(hand'["exit_process"].pid)) = 0
      BY <1>1, <1>3, <2>1
    <2>. QED BY <2>2 DEF PutBeforeAnswer, ExitAnswers
  <1>. QED BY <1>5, <1>6, <1>7, <1>8 DEF Settled

\* exit_process puts the process where the answer will look for it.
LEMMA ExitProcess_Put_Settled ==
  ASSUME SystemInv, SystemInv', Settled, UNCHANGED cpuVars, ExitProcess_Put
  PROVE  Settled'
  <1>0. at \in [Threads -> Locations]
    BY PlaceTypes
  <1>1. /\ UNCHANGED <<sem, arrivals, answers, memory_requests, memory_answers>>
        /\ at'["exit_process"] = "to_exit" /\ at'["io_listener"] = at["io_listener"]
    BY <1>0 DEF ExitProcess_Put, socketVars, Threads, Holders, Planners
  <1>2. \A S : Kept(S) => Moved(S, 0, 0, 0, 0)
    BY KeptCarried, ExitProcess_Put_Moves
  <1>3. ASSUME NEW S, Kept(S) PROVE Total(S)' = Total(S) /\ Leaving(S)' = Leaving(S)
    <2>1. Moved(S, 0, 0, 0, 0)
      BY <1>2, <1>3
    <2>2. Total(S)' = Total(S) + (0 + 0 + 0 + 0) /\ Total(S) \in Nat
      BY <2>1, MovedTotal
    <2>. QED BY <2>1, <2>2, GroupCounts DEF Moved
  <1>4. Placed' /\ Numbers'
    BY <1>1, <1>3, NoArrival, TotalsKept
  <1>5. ExitsMatch'
    <2>1. ExitPacketsKept
      BY <1>1, OtherPackets
    <2>. QED BY <1>3, <2>1, ExitsKept
  <1>6. Bounded'
    <2>1. Moved(Pcb, 0, 0, 0, 0)
      BY <1>2, KeptSets
    <2>2. UNCHANGED <<Inside(Pcb), InIo(Pcb), Leaving(Pcb)>>
      BY <2>1, GroupCounts DEF Moved
    <2>3. Used' = Used
      BY <1>1, <2>2 DEF Used, InIoAdmitted
    <2>. QED BY <1>1, <2>3 DEF Settled, Bounded
  <1>7. PutBeforeAnswer'
    BY <1>1 DEF PutBeforeAnswer
  <1>. QED BY <1>4, <1>5, <1>6, <1>7 DEF Settled

\* The memory server answers: an exit only after exit_process has put the process.
LEMMA Memory_Settled ==
  ASSUME SystemInv, SystemInv', Settled, UNCHANGED <<kernelVars, cpuVars>>, MemoryServer,
         ~StillSending
  PROVE  Settled'
  <1>0. memory_requests \in Seq(MemoryRequests) /\ memory_answers \in Seq(MemoryAnswers)
    BY PlaceTypes
  <1>1. /\ UNCHANGED <<sem, queue, at, hand, arrivals, answers, memory_exit_q>>
        /\ UNCHANGED <<dispatch, returns, cpu_pcb, pcb_loaded, cpu_bussy>>
    BY DEF kernelVars, departures, cpuVars, MemoryServer, ProcessNew, ProcessSuspend,
       ProcessSuspend_Crash, ProcessExit, socketVars
  <1>2. \A S : Moved(S, 0, 0, 0, 0)
    BY <1>1, Resting
  <1>3. CASE ProcessNew \/ ProcessSuspend \/ ProcessSuspend_Crash
    <2>1. ExitPacketsKept
      <3>1. CASE ProcessNew
        <4> DEFINE a == [header |-> "PROCESS_MEMORY_READY", pid |-> Head(memory_requests).pid,
                         page_table |-> Len(level1_tables),
                         process_frames_index |-> Len(processes_frames)]
        <4>1. /\ memory_requests # <<>> /\ Head(memory_requests).header = "PROCESS_NEW"
              /\ memory_requests' = Tail(memory_requests)
              /\ memory_answers' = Append(memory_answers, a)
          BY <3>1 DEF ProcessNew, Requested, Reply
        <4>2. a \in MemoryAnswers
          <5>1. Head(memory_requests).pid \in Nat
            BY <3>1, RequestFields DEF SystemInv, KernelInv, ProcessNew
          <5>2. Len(level1_tables) \in Nat /\ Len(processes_frames) \in Nat
            BY DEF SystemInv, MemoryTypeOK
          <5>. QED BY <5>1, <5>2 DEF MemoryAnswers
        <4>3. a.header # "PROCESS_EXIT_READY"
          OBVIOUS
        <4> HIDE DEF a
        <4>. QED BY <4>1, <4>2, <4>3, OtherPackets
      <3>2. CASE ProcessSuspend
        <4> DEFINE a == [header |-> "PROCESS_SUSPENSION_READY"]
        <4>1. /\ memory_requests # <<>> /\ Head(memory_requests).header = "PROCESS_SUSPEND"
              /\ memory_requests' = Tail(memory_requests)
              /\ memory_answers' = Append(memory_answers, a)
          BY <3>2 DEF ProcessSuspend, Requested, Reply
        <4>2. a \in MemoryAnswers /\ a.header # "PROCESS_EXIT_READY"
          BY DEF MemoryAnswers
        <4> HIDE DEF a
        <4>. QED BY <4>1, <4>2, OtherPackets
      <3>3. CASE ProcessSuspend_Crash
        BY <3>3, OtherPackets DEF ProcessSuspend_Crash, socketVars
      <3>. QED BY <1>3, <3>1, <3>2, <3>3
    <2>. QED BY <1>1, <1>2, <2>1, NoArrival, Quiet
  <1>4. CASE ProcessExit
    <2> DEFINE m == Head(memory_requests)
               r == [header |-> "PROCESS_EXIT_READY", pid |-> m.pid]
    <2>1. /\ memory_requests # <<>> /\ m.header = "PROCESS_EXIT"
          /\ memory_requests' = Tail(memory_requests)
          /\ memory_answers' = Append(memory_answers, r)
          /\ Requested("PROCESS_EXIT")
      BY <1>4 DEF ProcessExit, Requested, Reply
    <2>2. m \in MemoryRequests /\ m.pid \in Nat
      <3>1. m \in MemoryRequests
        BY <1>0, <2>1
      <3> HIDE DEF m
      <3>. QED BY <2>1, <3>1 DEF MemoryRequests
    <2>3. r \in MemoryAnswers
      BY <2>2 DEF MemoryAnswers
    <2>4. ASSUME NEW S, Kept(S) PROVE Total(S)' = Total(S) /\ Leaving(S)' = Leaving(S)
      <3>1. Moved(S, 0, 0, 0, 0)
        BY <1>2
      <3>2. Total(S)' = Total(S) + (0 + 0 + 0 + 0) /\ Total(S) \in Nat
        BY <3>1, MovedTotal
      <3>. QED BY <3>1, <3>2, GroupCounts DEF Moved
    <2>5. Placed' /\ Numbers'
      BY <1>1, <2>4, NoArrival, TotalsKept
    <2>6. Bounded'
      <3>1. UNCHANGED <<Inside(Pcb), InIo(Pcb), Leaving(Pcb)>>
        BY <1>2, GroupCounts DEF Moved
      <3>2. Used' = Used
        BY <1>1, <3>1 DEF Used, InIoAdmitted
      <3>. QED BY <1>1, <3>2 DEF Settled, Bounded
    <2>7. ASSUME NEW n \in Nat
          PROVE  Count(memory_answers', ExitAnswers(n))
                   = Count(memory_answers, ExitAnswers(n)) + One(m.pid = n)
      <3>1. r \in ExitAnswers(n) <=> m.pid = n
        BY <2>3 DEF ExitAnswers
      <3>2. One(r \in ExitAnswers(n)) = One(m.pid = n)
        BY <3>1 DEF One
      <3> HIDE DEF r
      <3>3. Count(Append(memory_answers, r), ExitAnswers(n))
              = Count(memory_answers, ExitAnswers(n)) + One(r \in ExitAnswers(n))
        BY <1>0, <2>3, CountAppend
      <3>. QED BY <2>1, <3>2, <3>3
    <2>8. ASSUME NEW n \in Nat
          PROVE  /\ Count(memory_requests, ExitRequests(n))
                      = Count(memory_requests', ExitRequests(n)) + One(m.pid = n)
                 /\ Count(memory_requests', ExitRequests(n)) \in Nat
      <3>1. m \in ExitRequests(n) <=> m.pid = n
        BY <2>1, <2>2 DEF ExitRequests
      <3>2. One(m \in ExitRequests(n)) = One(m.pid = n)
        BY <3>1 DEF One
      <3>3. Count(memory_requests, ExitRequests(n))
              = Count(Tail(memory_requests), ExitRequests(n)) + One(m \in ExitRequests(n))
        BY <1>0, <2>1, CountTail
      <3>4. Tail(memory_requests) \in Seq(MemoryRequests)
        BY <1>0, <2>1
      <3>5. Count(Tail(memory_requests), ExitRequests(n)) \in Nat
        BY <3>4, CountType
      <3>. QED BY <2>1, <3>2, <3>3, <3>5
    <2>9. ExitsMatch'
      <3> SUFFICES ASSUME NEW n \in Nat
                   PROVE  Count(memory_requests, ExitRequests(n))'
                            + Count(memory_answers, ExitAnswers(n))' = Leaving(WithPid(n))'
        BY DEF ExitsMatch
      <3> DEFINE d == One(m.pid = n)
                 a == Count(memory_requests, ExitRequests(n))
                 b == Count(memory_answers, ExitAnswers(n))
      <3>1. a = a' + d /\ b' = b + d /\ a' \in Nat /\ b \in Nat /\ d \in Nat
        BY <1>0, <2>7, <2>8, CountType DEF ExitAnswers, ExitRequests, One
      <3>2. Leaving(WithPid(n))' = Leaving(WithPid(n))
        <4>1. PICK S : S = WithPid(n)
          OBVIOUS
        <4>2. Leaving(WithPid(n))' = Leaving(S)' /\ Leaving(WithPid(n)) = Leaving(S)
          BY <4>1 DEF Leaving, WithPid
        <4>. QED BY <2>4, <4>1, <4>2, KeptSets
      <3>3. a + b = Leaving(WithPid(n))
        BY DEF Settled, ExitsMatch
      <3>4. a' + b' = a + b
        <4> HIDE DEF a, b, d
        <4>. QED BY <3>1
      <3>. QED BY <3>2, <3>3, <3>4
    <2>10. PutBeforeAnswer'
      <3> SUFFICES ASSUME at["exit_process"] = "memory_exit_q"
                   PROVE  Count(memory_answers', ExitAnswers(hand["exit_process"].pid)) = 0
        BY <1>1 DEF PutBeforeAnswer, ExitAnswers
      <3>1. PICK n \in Nat : n = hand["exit_process"].pid
        <4>1. hand["exit_process"] \in Pcb
          BY PlaceTypes DEF HandsFull
        <4>. QED BY <4>1 DEF Pcb
      <3>2. m.pid # n
        BY <2>1, <3>1 DEF StillSending
      <3>3. Count(memory_answers, ExitAnswers(n)) = 0
        BY <3>1 DEF Settled, PutBeforeAnswer
      <3>4. One(m.pid = n) = 0
        BY <3>2 DEF One
      <3>. QED BY <2>7, <3>1, <3>3, <3>4
    <2>. QED BY <2>5, <2>6, <2>9, <2>10 DEF Settled
  <1>. QED BY <1>3, <1>4 DEF MemoryServer

\* exit_process_success finds exactly the process whose exit is answered: it is freed,
\* its console is told and its permit given back.
LEMMA ExitProcessSuccess_Finds ==
  ASSUME SystemInv, Numbering, HandsEmpty, Settled, Answered("PROCESS_EXIT_READY")
  PROVE  \E k \in DOMAIN memory_exit_q :
           /\ memory_exit_q[k] \in Pcb
           /\ memory_exit_q[k].pid = Head(memory_answers).pid
           /\ ExitsWithPid(Head(memory_answers).pid) = {k}
  <1>0. memory_answers \in Seq(MemoryAnswers) /\ memory_exit_q \in Seq(Pcb \cup {Freed})
        /\ memory_requests \in Seq(MemoryRequests) /\ hand \in [Holders -> Pcb \cup {NoPcb}]
    BY PlaceTypes
  <1> DEFINE m == Head(memory_answers)
             n == m.pid
             W == WithPid(n)
  <1>1. m \in MemoryAnswers /\ m.header = "PROCESS_EXIT_READY" /\ m = memory_answers[1]
        /\ 1 \in DOMAIN memory_answers
    BY <1>0 DEF Answered
  <1>2. n \in Nat /\ m \in ExitAnswers(n)
    <2> HIDE DEF m
    <2>. QED BY <1>1 DEF MemoryAnswers, ExitAnswers
  <1>3. Count(memory_answers, ExitAnswers(n)) # 0
    BY <1>0, <1>1, <1>2, CountMeans
  <1>4. Leaving(W) # 0
    <2>1. Count(memory_requests, ExitRequests(n)) \in Nat
          /\ Count(memory_answers, ExitAnswers(n)) \in Nat
      BY <1>0, CountType
    <2>2. Count(memory_requests, ExitRequests(n)) + Count(memory_answers, ExitAnswers(n))
            = Leaving(W)
      BY <1>2 DEF Settled, ExitsMatch
    <2>. QED BY <1>3, <2>1, <2>2
  <1>5. hand["exit_process"] \notin W
    <2> SUFFICES ASSUME hand["exit_process"] \in W PROVE FALSE
      OBVIOUS
    <2>1. hand["exit_process"] # NoPcb /\ hand["exit_process"].pid = n
      BY NoPcbAssumption DEF WithPid
    <2>2. at["exit_process"] = "memory_exit_q"
      BY <2>1 DEF HandsEmpty
    <2>. QED BY <1>3, <2>1, <2>2 DEF Settled, PutBeforeAnswer
  <1>6. Count(Held("exit_process"), W) = 0
    <2>1. Kept(W) /\ "exit_process" \in Holders
      BY KeptSets DEF Holders
    <2>. QED BY <1>5, <2>1, KeptCarried, SinglePlaces DEF One
  <1>7. Count(memory_exit_q, W) # 0
    BY <1>4, <1>6, PlaceCounts DEF Leaving
  <1>8. PICK k \in DOMAIN memory_exit_q : memory_exit_q[k] \in W
    BY <1>0, <1>7, CountMeans
  <1>9. memory_exit_q[k] \in Pcb /\ memory_exit_q[k].pid = n
    BY <1>8 DEF WithPid
  <1>10. \A i \in DOMAIN memory_exit_q :
           memory_exit_q[i] \in Pcb /\ memory_exit_q[i].pid = n => i = k
    BY <1>9, OneLeaves
  <1>11. \A i \in DOMAIN memory_exit_q : memory_exit_q[i] # Freed => memory_exit_q[i] \in Pcb
    BY <1>0
  <1>12. memory_exit_q[k] # Freed
    BY <1>9, FreedAssumption
  <1>13. ExitsWithPid(n) = {k}
    BY <1>9, <1>10, <1>11, <1>12 DEF ExitsWithPid
  <1>. QED BY <1>9, <1>13

\* exit_process_success frees the pcb that exit_process put away.
LEMMA ExitProcessSuccess_Settled ==
  ASSUME SystemInv, SystemInv', Numbering, HandsEmpty, Settled, UNCHANGED cpuVars,
         ExitProcessSuccess
  PROVE  Settled'
  <1>0. /\ memory_exit_q \in Seq(Pcb \cup {Freed}) /\ memory_answers \in Seq(MemoryAnswers)
        /\ sem \in [Semaphores -> Nat] /\ answers \in [Consoles -> Nat]
        /\ memory_requests \in Seq(MemoryRequests)
    BY PlaceTypes
  <1> DEFINE m == Head(memory_answers)
             n == m.pid
  <1>1. PICK k \in DOMAIN memory_exit_q :
          /\ memory_exit_q[k] \in Pcb /\ memory_exit_q[k].pid = n /\ ExitsWithPid(n) = {k}
    BY ExitProcessSuccess_Finds DEF ExitProcessSuccess
  <1> DEFINE p == memory_exit_q[k]
  <1>2. /\ AnswerConsole({k}) /\ memory_answers # <<>> /\ m.header = "PROCESS_EXIT_READY"
        /\ memory_answers' = Tail(memory_answers)
        /\ sem' = [sem EXCEPT !["sem_multiprogram"] = @ + 1]
        /\ UNCHANGED <<queue, at, hand, arrivals, dispatch, returns, memory_requests,
                       cpu_pcb, pcb_loaded, cpu_bussy>>
    BY <1>1 DEF ExitProcessSuccess, Answered, cpuVars
  <1>3. /\ p \in Pcb /\ p.client_socket \in Consoles /\ p.pid = n /\ n \in Nat
    BY <1>1 DEF Pcb
  <1>4. memory_exit_q' = [i \in DOMAIN memory_exit_q |-> IF i = k THEN Freed ELSE memory_exit_q[i]]
    BY <1>2 DEF AnswerConsole
  <1>5. \A c \in Consoles :
          answers'[c] = IF p.client_socket = c THEN answers[c] + 1 ELSE answers[c]
    <2>1. k <= k
      <3>1. k \in Nat
        BY <1>0
      <3>. QED BY <3>1
    <2>. QED BY <1>2, <2>1 DEF AnswerConsole
  <1>6. ASSUME NEW S, Kept(S)
        PROVE  /\ Leaving(S) = Leaving(S)' + One(p \in S) /\ Leaving(S)' \in Nat
               /\ Total(S) = Total(S)' + One(p \in S) /\ Total(S)' \in Nat
               /\ UNCHANGED <<Inside(S), InIo(S)>>
    <2> DEFINE d == One(p \in S)
               a == Count(memory_exit_q, S)
               b == Count(Held("exit_process"), S)
    <2>1. Freed \notin S
      BY <1>6, FreedAssumption DEF Kept
    <2>2. a = a' + d /\ d \in Nat
      <3>1. Count(memory_exit_q, S) = Count(memory_exit_q', S) + One(memory_exit_q[k] \in S)
        BY <1>0, <1>4, <2>1, CountFreed
      <3>. QED BY <3>1 DEF One
    <2>3. a' \in Nat
      <3>1. memory_exit_q' \in Seq(Pcb \cup {Freed})
        BY DEF SystemInv, KernelInv, KernelTypeOK, DeparturesOK
      <3>. QED BY <3>1, CountType
    <2>4. b' = b /\ b \in Nat
      BY <1>2, PlaceCounts DEF Held
    <2>5. Leaving(S) = b + a /\ Leaving(S)' = b' + a'
      BY DEF Leaving
    <2>6. Leaving(S) = Leaving(S)' + d /\ Leaving(S)' \in Nat
      <3>1. b + a = b' + a' + d /\ b' + a' \in Nat
        <4>1. \A x, y, z \in Nat : y + (x + z) = y + x + z /\ y + x \in Nat
          OBVIOUS
        <4> HIDE DEF a, b, d, p
        <4>. QED BY <2>2, <2>3, <2>4, <4>1
      <3>. QED BY <2>5, <3>1
    <2>7. UNCHANGED <<InReady(S), InExec(S), Queued(S), InIo(S), Outside(S)>>
      BY <1>2, GroupsSame
    <2>8. Inside(S)' = Inside(S)
      BY <2>7 DEF Inside
    <2>9. Total(S) = Total(S)' + d /\ Total(S)' \in Nat
      <3> HIDE DEF d
      <3>. QED BY <2>2, <2>6, <2>7, <2>8, GroupCounts DEF Total
    <2>. QED BY <2>6, <2>7, <2>8, <2>9
  <1>7. Bounded'
    <2>1. Leaving(Pcb) = Leaving(Pcb)' + 1 /\ Leaving(Pcb)' \in Nat
          /\ UNCHANGED <<Inside(Pcb), InIo(Pcb)>>
      BY <1>3, <1>6, KeptSets DEF One
    <2>2. InIoAdmitted(Pcb)' = InIoAdmitted(Pcb)
      BY <1>2, <2>1 DEF InIoAdmitted
    <2>3. Used = Used' + 1 /\ Used' \in Nat
      BY <2>1, <2>2, GroupCounts DEF Used
    <2>4. sem'["sem_multiprogram"] = sem["sem_multiprogram"] + 1 /\ sem["sem_multiprogram"] \in Nat
      BY <1>0, <1>2 DEF Semaphores
    <2>. QED BY <2>3, <2>4 DEF Settled, Bounded
  <1>8. Placed'
    <2> SUFFICES ASSUME NEW c \in Consoles
                 PROVE  Total(ProcessOf(c))' + answers'[c] = One(receiving'[c] = "received")
      BY DEF Placed
    <2>1. PICK S : S = ProcessOf(c)
      OBVIOUS
    <2>2. Total(ProcessOf(c))' = Total(S)' /\ Total(ProcessOf(c)) = Total(S)
      BY <2>1 DEF Total, Inside, InReady, InExec, Queued, InIo, Leaving, Outside, ProcessOf
    <2> DEFINE d == One(p.client_socket = c)
    <2>3. Total(S) = Total(S)' + d /\ Total(S)' \in Nat
      <3>1. p \in S <=> p.client_socket = c
        BY <1>3, <2>1 DEF ProcessOf
      <3>2. One(p \in S) = d
        BY <3>1 DEF One
      <3>3. Kept(S)
        BY <2>1, KeptSets
      <3>. QED BY <1>6, <3>2, <3>3
    <2>4. answers'[c] = answers[c] + d /\ answers[c] \in Nat /\ d \in Nat
      BY <1>0, <1>5 DEF One
    <2>5. Total(S) + answers[c] = One(receiving[c] = "received")
      BY <2>2 DEF Settled, Placed
    <2>6. receiving' = receiving
      BY <1>2 DEF arrivals
    <2>7. Total(S)' + answers'[c] = Total(S) + answers[c]
      <3> HIDE DEF d
      <3>. QED BY <2>3, <2>4
    <2>. QED BY <2>2, <2>5, <2>6, <2>7
  <1>9. Numbers'
    <2>1. PICK S : S = Misnumbered
      OBVIOUS
    <2>2. Misnumbered' = Misnumbered
      BY <1>2 DEF Misnumbered, arrivals
    <2>3. Total(Misnumbered)' = Total(S)' /\ Total(Misnumbered) = Total(S)
      BY <2>1, <2>2 DEF Total, Inside, InReady, InExec, Queued, InIo, Leaving, Outside
    <2>4. Total(S) = Total(S)' + One(p \in S) /\ Total(S)' \in Nat
      BY <1>6, <2>1, KeptSets
    <2>5. Total(S) = 0 /\ One(p \in S) \in Nat
      BY <2>3 DEF Settled, Numbers, One
    <2>6. Total(S)' = 0
      BY <2>4, <2>5
    <2>. QED BY <2>3, <2>6 DEF Numbers
  <1>10. ASSUME NEW j \in Nat
         PROVE  /\ Count(memory_answers, ExitAnswers(j))
                     = Count(memory_answers', ExitAnswers(j)) + One(n = j)
                /\ Count(memory_answers', ExitAnswers(j)) \in Nat
    <2>0. m \in MemoryAnswers
      BY <1>0, <1>2
    <2>1. m \in ExitAnswers(j) <=> n = j
      BY <1>2, <2>0 DEF ExitAnswers
    <2>2. One(m \in ExitAnswers(j)) = One(n = j)
      BY <2>1 DEF One
    <2>3. Count(memory_answers, ExitAnswers(j))
            = Count(Tail(memory_answers), ExitAnswers(j)) + One(m \in ExitAnswers(j))
      BY <1>0, <1>2, CountTail
    <2>4. Tail(memory_answers) \in Seq(MemoryAnswers)
      BY <1>0, <1>2
    <2>5. Count(Tail(memory_answers), ExitAnswers(j)) \in Nat
      BY <2>4, CountType
    <2>. QED BY <1>2, <2>2, <2>3, <2>5
  <1>11. ExitsMatch'
    <2> SUFFICES ASSUME NEW j \in Nat
                 PROVE  Count(memory_requests, ExitRequests(j))'
                          + Count(memory_answers, ExitAnswers(j))' = Leaving(WithPid(j))'
      BY DEF ExitsMatch
    <2>1. PICK S : S = WithPid(j)
      OBVIOUS
    <2>2. Leaving(WithPid(j))' = Leaving(S)' /\ Leaving(WithPid(j)) = Leaving(S)
      BY <2>1 DEF Leaving, WithPid
    <2> DEFINE d == One(n = j)
               a == Count(memory_requests, ExitRequests(j))
               b == Count(memory_answers, ExitAnswers(j))
    <2>3. Leaving(S) = Leaving(S)' + d /\ Leaving(S)' \in Nat
      <3>1. p \in S <=> n = j
        BY <1>3, <2>1 DEF WithPid
      <3>2. One(p \in S) = d
        BY <3>1 DEF One
      <3>3. Kept(S)
        BY <2>1, KeptSets
      <3>. QED BY <1>6, <3>2, <3>3
    <2>4. a' = a /\ b = b' + d /\ a \in Nat /\ b' \in Nat /\ d \in Nat
      BY <1>0, <1>2, <1>10, CountType DEF ExitRequests, ExitAnswers, One
    <2>5. a + b = Leaving(S)
      BY <2>2 DEF Settled, ExitsMatch
    <2>6. a' + b' = Leaving(S)'
      <3> HIDE DEF a, b, d
      <3>. QED BY <2>3, <2>4, <2>5
    <2>. QED BY <2>2, <2>6
  <1>12. PutBeforeAnswer'
    <2> SUFFICES ASSUME at["exit_process"] = "memory_exit_q"
                 PROVE  Count(memory_answers', ExitAnswers(hand["exit_process"].pid)) = 0
      BY <1>2 DEF PutBeforeAnswer, ExitAnswers
    <2>1. PICK j \in Nat : j = hand["exit_process"].pid
      <3>1. hand["exit_process"] \in Pcb
        BY PlaceTypes DEF HandsFull
      <3>. QED BY <3>1 DEF Pcb
    <2>2. Count(memory_answers, ExitAnswers(j)) = 0
      BY <2>1 DEF Settled, PutBeforeAnswer
    <2>3. One(n = j) \in Nat
      BY DEF One
    <2>. QED BY <1>10, <2>1, <2>2, <2>3
  <1>. QED BY <1>7, <1>8, <1>9, <1>11, <1>12 DEF Settled

-----------------------------------------------------------------------------
(* The rest of the invariant. *)

\* A thread that lets a process go goes back to where it takes one.
LEMMA HandsEmptyKept ==
  ASSUME SystemInv, HandsEmpty,
         \/ \E c \in Consoles : ReceiveProcess(c)
         \/ ToReady \/ ToExec \/ IoListener \/ ExitProcess
         \/ CpuDispatchListener \/ MemoryListener
  PROVE  HandsEmpty'
  <1>0. /\ hand \in [Holders -> Pcb \cup {NoPcb}] /\ at \in [Threads -> Locations] /\ OneAdmission
        /\ queue \in [Queues -> Seq(Pcb)] /\ sem \in [Semaphores -> Nat]
    BY PlaceTypes
  <1>1. CASE UNCHANGED hand /\ \A t \in Holders : at'[t] = at[t]
    BY <1>1 DEF HandsEmpty, Holders
  <1>2. CASE \/ \E c \in Consoles : ReceiveProcess(c)
             \/ ToExec \/ CpuDispatchListener \/ SuspensionSuccess \/ ExitProcessSuccess
    <2>1. UNCHANGED hand /\ \A t \in Holders : at'[t] = at[t]
      BY <1>0, <1>2 DEF ReceiveProcess, ReceiveProcess_Read, ReceiveProcess_Write,
         ReceiveProcess_Put, ToExec, ToExec_Ready, ToExec_Cpu, ToExec_Dispatch,
         CpuDispatchListener, IoOp, ExitOp, HandleInterruption, SuspensionSuccess,
         ExitProcessSuccess, Threads, Holders, Planners
    <2>. QED BY <1>1, <2>1
  <1>3. CASE ToReady_Any \/ NewToReady_Send \/ NewToReady_Put \/ NewToReady_Ready
    BY <1>0, <1>3 DEF ToReady_Any, NewToReady_Send, NewToReady_Put, NewToReady_Ready,
       HandsEmpty, HoldingPoints, Threads, Holders, Planners
  <1>4. CASE ToReady_Admit
    BY <1>0, <1>4 DEF ToReady_Admit, Admit, HandsEmpty, HoldingPoints, Threads, Holders, Planners
  <1>5. ASSUME NEW t \in Planners, PutToReady(t) \/ PutToReady_Resume(t) PROVE HandsEmpty'
    <2>1. hand'[t] = NoPcb
      BY <1>0, <1>5 DEF PutToReady, PutToReady_Fifo, PutToReady_Replan, PutToReady_Interrupt,
         PutToReady_Resume, HandsEmpty, HoldingPoints, Holders
    <2>2. \A h \in Holders \ {t} : hand'[h] = hand[h] /\ at'[h] = at[h]
      BY <1>0, <1>5 DEF PutToReady, PutToReady_Fifo, PutToReady_Replan, PutToReady_Interrupt,
         PutToReady_Resume, Threads
    <2>. QED BY <2>1, <2>2 DEF HandsEmpty, Holders, Planners
  <1>6. CASE IoListener_Fits \/ IoListener_Exceeds \/ IoListener_Suspended
    BY <1>0, <1>6 DEF IoListener_Fits, IoListener_Exceeds, IoListener_Suspended,
       IoListener_Take, HandsEmpty, HoldingPoints, Threads, Holders, Planners
  <1>7. CASE IoListener_Suspend \/ IoListener_Wait \/ IoListener_Finish
    BY <1>0, <1>7 DEF IoListener_Suspend, IoListener_Wait, IoListener_Finish, HandsEmpty,
       HoldingPoints, Threads, Holders, Planners
  <1>8. CASE ExitProcess
    BY <1>0, <1>8 DEF ExitProcess, ExitProcess_Send, ExitProcess_Put, HandsEmpty,
       Threads, Holders, Planners
  <1>9. CASE TableIndexSuccess
    <2>1. CASE UNCHANGED <<hand, queue, sem>>
      BY <1>1, <1>9, <2>1 DEF TableIndexSuccess
    <2>2. CASE queue["memory_init_q"] # <<>>
      <3>1. Len(queue["memory_init_q"]) > 0 /\ sem["pcb_table_ready"] \in Nat
            /\ Len(queue["memory_init_q"]) \in Nat
        BY <1>0, <2>2 DEF Queues, Semaphores
      <3>2. at["to_ready"] = "pcb_table_ready"
        BY <1>0, <3>1 DEF OneAdmission
      <3>3. at' = at /\ \A h \in Holders \ {"to_ready"} : hand'[h] = hand[h]
        BY <1>0, <1>9 DEF TableIndexSuccess
      <3>. QED BY <3>2, <3>3 DEF HandsEmpty, HoldingPoints, Holders, Planners
    <2>. QED BY <1>9, <2>1, <2>2 DEF TableIndexSuccess
  <1>. QED BY <1>2, <1>3, <1>4, <1>5, <1>6, <1>7, <1>8, <1>9
         DEF ToReady, IoListener, MemoryListener, Planners

\* Nothing moves while nothing happens.
LEMMA PlacesUnchanged ==
  ASSUME SystemInv, SystemInv', PlaceInv, UNCHANGED vars
  PROVE  PlaceInv'
  <1>1. /\ UNCHANGED <<sem, queue, at, hand, pid, receiving, next_pid, arrivals, answers,
                       memory_exit_q>>
        /\ UNCHANGED <<cpu_pcb, pcb_loaded, cpu_bussy, cycle>>
        /\ UNCHANGED <<dispatch, returns, memory_requests, memory_answers>>
    BY DEF vars, kernelVars, arrivals, departures, cpuVars, socketVars
  <1>2. Numbering' /\ HandsEmpty'
    BY <1>1 DEF PlaceInv, Numbering, Numbered, HandsEmpty
  <1>3. ASSUME Settled PROVE Settled'
    <2>1. ExitPacketsKept
      BY <1>1, OtherPackets
    <2>2. \A S : Moved(S, 0, 0, 0, 0)
      BY <1>1, Resting
    <2>. QED BY <1>1, <1>3, <2>1, <2>2, NoArrival, Quiet
  <1>. QED BY <1>1, <1>2, <1>3 DEF PlaceInv

\* A cycle thread that waits at cpu_bussy waits there for good.
LEMMA StaysBlocked ==
  ASSUME Next, cycle = "cpu_bussy"
  PROVE  cycle' = "cpu_bussy"
  BY DEF Next, KernelStep, CpuStep, MemoryStep, Idle, vars, cpuVars, ReceivePcb,
     ReceiveInterruption, CpuCycle, CycleStart, CycleEnd, ExecuteNoOp, ExecuteIo, ExecuteExit,
     ExecuteMemoryOp, FetchAndDecode, NoInterruption, Evict, EvictGone

\* Every step of the kernel preserves the invariant.
LEMMA Kernel_Places ==
  ASSUME SystemInv, SystemInv', PlaceInv, ~OverlapConsoles, UNCHANGED cpuVars,
         \/ \E c \in Consoles : ReceiveProcess(c)
         \/ ToReady \/ ToExec \/ IoListener \/ ExitProcess
         \/ CpuDispatchListener \/ MemoryListener
  PROVE  PlaceInv'
  <1>1. HandsEmpty' /\ HandsEmpty /\ Numbering
    BY HandsEmptyKept DEF PlaceInv
  <1>2. Numbering'
    <2>1. CASE \E c \in Consoles : ReceiveProcess(c)
      BY <1>1, <2>1, ReceiveProcess_Numbering
    <2>2. CASE \/ ToReady \/ ToExec \/ IoListener \/ ExitProcess
               \/ CpuDispatchListener \/ MemoryListener
      <3>1. UNCHANGED <<pid, receiving, next_pid>>
        BY <2>2 DEF ToReady, ToReady_Any, ToReady_Admit, NewToReady_Send, NewToReady_Put,
           NewToReady_Ready, PutToReady, PutToReady_Resume, ToExec, ToExec_Ready, ToExec_Cpu,
           ToExec_Dispatch, IoListener, IoListener_Fits, IoListener_Exceeds,
           IoListener_Suspended, IoListener_Take, IoListener_Suspend, IoListener_Wait,
           IoListener_Finish, ExitProcess, ExitProcess_Send, ExitProcess_Put,
           CpuDispatchListener, IoOp, ExitOp, HandleInterruption, MemoryListener,
           TableIndexSuccess, SuspensionSuccess, ExitProcessSuccess, arrivals
      <3>. QED BY <1>1, <3>1 DEF Numbering, Numbered
    <2>. QED BY <2>1, <2>2
  <1>3. cycle' = cycle
    BY DEF cpuVars
  <1>4. ASSUME Settled PROVE Settled'
    <2>1. CASE \E c \in Consoles : ReceiveProcess(c)
      BY <1>1, <1>4, <2>1, ReceiveProcess_Settled
    <2>2. CASE \/ ToReady_Any \/ NewToReady_Send \/ NewToReady_Put \/ NewToReady_Ready
               \/ PutToReady("to_ready") \/ \E t \in Planners : PutToReady_Resume(t)
               \/ ToExec \/ IoListener_Suspend
               \/ CpuDispatchListener \/ TableIndexSuccess \/ SuspensionSuccess
      BY <1>4, <2>2, Kernel_Quiet
    <2>3. CASE ToReady_Admit
      BY <1>1, <1>4, <2>3, ToReady_Admit_Settled
    <2>4. CASE IoListener_Fits \/ IoListener_Exceeds \/ IoListener_Suspended
      BY <1>1, <1>4, <2>4, IoListener_Take_Settled
    <2>5. CASE IoListener_Wait \/ IoListener_Finish \/ PutToReady("io_listener")
      BY <1>4, <2>5, IoListener_Put_Settled
    <2>6. CASE ExitProcess
      BY <1>1, <1>4, <2>6, ExitProcess_Send_Settled, ExitProcess_Put_Settled DEF ExitProcess
    <2>7. CASE ExitProcessSuccess
      BY <1>1, <1>4, <2>7, ExitProcessSuccess_Settled
    <2>. QED BY <2>1, <2>2, <2>3, <2>4, <2>5, <2>6, <2>7
           DEF ToReady, IoListener, MemoryListener, Planners
  <1>. QED BY <1>1, <1>2, <1>3, <1>4 DEF PlaceInv

\* Every step of the system preserves the invariant.
LEMMA PlacesInductive ==
  ASSUME SlowMemory, ~OverlapConsoles
  PROVE  SystemInv /\ SystemInv' /\ ExecutionInv /\ PlaceInv /\ [Next]_vars => PlaceInv'
  <1> SUFFICES ASSUME SystemInv, SystemInv', ExecutionInv, PlaceInv, [Next]_vars
               PROVE  PlaceInv'
    OBVIOUS
  <1>1. CASE UNCHANGED vars
    BY <1>1, PlacesUnchanged
  <1>2. ASSUME \/ \E c \in Consoles : ReceiveProcess(c)
               \/ ToReady \/ ToExec \/ IoListener \/ ExitProcess
               \/ CpuDispatchListener \/ MemoryListener,
               UNCHANGED <<cpuVars, memoryVars>>
        PROVE  PlaceInv'
    BY <1>2, Kernel_Places
  <1>3. ASSUME ReceivePcb \/ ReceiveInterruption \/ CpuCycle, Next,
               UNCHANGED <<kernelVars, memoryVars>>
        PROVE  PlaceInv'
    <2>1. Numbering' /\ HandsEmpty'
      <3>1. UNCHANGED <<pid, receiving, next_pid, at, hand>>
        BY <1>3 DEF kernelVars, arrivals
      <3>. QED BY <3>1 DEF PlaceInv, Numbering, Numbered, HandsEmpty
    <2>2. ASSUME cycle' # "cpu_bussy" PROVE Settled'
      <3>1. cycle # "cpu_bussy"
        BY <1>3, <2>2, StaysBlocked
      <3>. QED BY <1>3, <2>2, <3>1, Cpu_Quiet DEF PlaceInv
    <2>. QED BY <2>1, <2>2 DEF PlaceInv
  <1>4. ASSUME MemoryServer, SlowMemory => ~StillSending, UNCHANGED <<kernelVars, cpuVars>>
        PROVE  PlaceInv'
    <2>1. UNCHANGED <<pid, receiving, next_pid, at, hand, cycle>>
      BY <1>4 DEF kernelVars, arrivals, cpuVars
    <2>2. Numbering' /\ HandsEmpty'
      BY <2>1 DEF PlaceInv, Numbering, Numbered, HandsEmpty
    <2>3. ASSUME Settled PROVE Settled'
      BY <1>4, <2>3, Memory_Settled
    <2>. QED BY <2>1, <2>2, <2>3 DEF PlaceInv
  <1>. QED BY <1>1, <1>2, <1>3, <1>4 DEF Next, KernelStep, CpuStep, MemoryStep, Idle

\* The mains start with no process anywhere.
LEMMA PlacesInitially == Init => PlaceInv
  <1> SUFFICES ASSUME Init PROVE PlaceInv
    OBVIOUS
  <1>0. SystemInv
    BY Initially
  <1>1. /\ \A q \in Queues : queue[q] = <<>>
        /\ memory_exit_q = <<>> /\ dispatch = <<>> /\ returns = <<>>
        /\ memory_requests = <<>> /\ memory_answers = <<>>
        /\ pcb_loaded = 0 /\ cpu_bussy = 0
        /\ hand = [t \in Holders |-> NoPcb]
        /\ at["exit_process"] = "to_exit" /\ at["io_listener"] = "process_for_IO"
        /\ sem["sem_multiprogram"] = MultiprogrammingLevel
        /\ receiving = [c \in Consoles |-> "unsent"] /\ answers = [c \in Consoles |-> 0]
        /\ pid = 0
    <2>1. /\ sem["sem_multiprogram"] = MultiprogrammingLevel
          /\ at["exit_process"] = "to_exit" /\ at["io_listener"] = "process_for_IO"
      BY DEF Init, KernelInit, Threads, Holders, Planners, Semaphores
    <2>. QED BY <2>1 DEF Init, KernelInit, SocketsInit, CpuInit
  <1>2. Numbering /\ HandsEmpty
    BY <1>1 DEF Numbering, Numbered, HandsEmpty, Holders
  <1>3. ASSUME NEW S PROVE Total(S) = 0 /\ Leaving(S) = 0 /\ Inside(S) = 0 /\ InIo(S) = 0
    <2>1. \A t \in Holders : Held(t) = <<>>
      BY <1>1 DEF Held
    <2>2. InCpu = <<>> /\ Returning = <<>>
      BY <1>1 DEF InCpu, Returning
    <2>3. Count(<<>>, S) = 0
      BY CountEmpty
    <2>4. InReady(S) = 0 /\ InExec(S) = 0 /\ Queued(S) = 0
      BY <1>1, <2>1, <2>2, <2>3 DEF InReady, InExec, Queued, Queues, Holders, Planners
    <2>5. InIo(S) = 0 /\ Leaving(S) = 0 /\ Outside(S) = 0
      BY <1>1, <2>1, <2>3 DEF InIo, Leaving, Outside, Queues, Holders, Planners
    <2>. QED BY <2>4, <2>5 DEF Total, Inside
  <1>4. Bounded
    <2>1. Used = 0
      BY <1>3 DEF Used, InIoAdmitted
    <2>. QED BY <1>1, <2>1, MultiprogrammingAssumption DEF Bounded
  <1>5. Placed /\ Numbers
    BY <1>1, <1>3 DEF Placed, Numbers, One
  <1>6. ExitsMatch /\ PutBeforeAnswer
    <2>1. \A S : Count(<<>>, S) = 0
      BY CountEmpty
    <2>. QED BY <1>1, <1>3, <2>1 DEF ExitsMatch, PutBeforeAnswer
  <1>. QED BY <1>2, <1>4, <1>5, <1>6 DEF PlaceInv, Settled

-----------------------------------------------------------------------------
(* The sequences of System and the counts of the invariant. *)

\* The processes in or on their way through the CPU.
LEMMA ExecutingCount ==
  ASSUME SystemInv, NEW S
  PROVE  Executing \in Seq(Pcb) /\ Count(Executing, S) = InExec(S)
  <1> DEFINE given == dispatch \o InCpu
  <1>1. dispatch \in Seq(Pcb) /\ InCpu \in Seq(Pcb) /\ Returning \in Seq(Pcb)
    BY PlaceTypes
  <1>2. given \in Seq(Pcb) /\ Count(given, S) = Count(dispatch, S) + Count(InCpu, S)
    BY <1>1, CountConcat
  <1>3. Executing = given \o Returning
    BY DEF Executing
  <1> HIDE DEF given
  <1>4. Executing \in Seq(Pcb) /\ Count(Executing, S) = Count(given, S) + Count(Returning, S)
    BY <1>1, <1>2, <1>3, CountConcat
  <1>. QED BY <1>2, <1>4 DEF InExec

\* The processes that use a permit of sem_multiprogram.
LEMMA AdmittedCount ==
  ASSUME SystemInv, NEW S
  PROVE  /\ Admitted \in Seq(Pcb \cup {Freed})
         /\ Count(Admitted, S) = Inside(S) + InIoAdmitted(S) + Leaving(S)
  <1> DEFINE T == Pcb \cup {Freed}
             io == IF at["io_listener"] = "suspended_ready_q" THEN <<>> ELSE Held("io_listener")
             s1 == Held("to_ready") \o queue["ready_q"]
             s2 == s1 \o Executing
             s3 == s2 \o queue["blocked_q"]
             s4 == s3 \o io
             s5 == s4 \o queue["exit_q"]
             s6 == s5 \o Held("exit_process")
  <1>1. /\ Held("to_ready") \in Seq(Pcb) /\ Held("io_listener") \in Seq(Pcb)
        /\ Held("exit_process") \in Seq(Pcb) /\ queue["ready_q"] \in Seq(Pcb)
        /\ queue["blocked_q"] \in Seq(Pcb) /\ queue["exit_q"] \in Seq(Pcb)
        /\ Executing \in Seq(Pcb)
    BY PlaceTypes, ExecutingCount DEF Holders, Planners, Queues
  <1>2. Seq(Pcb) \subseteq Seq(T)
    OBVIOUS
  <1>3. io \in Seq(T) /\ Count(io, S) = InIoAdmitted(S)
    BY <1>1, <1>2, CountEmpty DEF InIoAdmitted, InIo
  <1>4. memory_exit_q \in Seq(T)
    BY PlaceTypes
  <1>5. Admitted = s6 \o memory_exit_q
    BY DEF Admitted, AwaitingIo
  <1> HIDE DEF T, io
  <1>11. s1 \in Seq(T) /\ Count(s1, S) = InReady(S)
    BY <1>1, <1>2, CountConcat DEF InReady
  <1>12. s2 \in Seq(T) /\ Count(s2, S) = Count(s1, S) + InExec(S)
    <2> HIDE DEF s1
    <2>. QED BY <1>1, <1>2, <1>11, CountConcat, ExecutingCount
  <1>13. s3 \in Seq(T) /\ Count(s3, S) = Count(s2, S) + Count(queue["blocked_q"], S)
    <2> HIDE DEF s2
    <2>. QED BY <1>1, <1>2, <1>12, CountConcat
  <1>14. s4 \in Seq(T) /\ Count(s4, S) = Count(s3, S) + InIoAdmitted(S)
    <2> HIDE DEF s3
    <2>. QED BY <1>3, <1>13, CountConcat
  <1>15. s5 \in Seq(T) /\ Count(s5, S) = Count(s4, S) + Count(queue["exit_q"], S)
    <2> HIDE DEF s4
    <2>. QED BY <1>1, <1>2, <1>14, CountConcat
  <1>16. s6 \in Seq(T) /\ Count(s6, S) = Count(s5, S) + Count(Held("exit_process"), S)
    <2> HIDE DEF s5
    <2>. QED BY <1>1, <1>2, <1>15, CountConcat
  <1>17. /\ s6 \o memory_exit_q \in Seq(T)
         /\ Count(s6 \o memory_exit_q, S) = Count(s6, S) + Count(memory_exit_q, S)
    <2> HIDE DEF s6
    <2>. QED BY <1>4, <1>16, CountConcat
  <1> HIDE DEF s1, s2, s3, s4, s5, s6
  <1>18. /\ Count(s4, S) \in Nat /\ Count(s5, S) \in Nat /\ Count(s6, S) \in Nat
    BY <1>14, <1>15, <1>16, CountType
  <1>21. Count(s4, S) = InReady(S) + InExec(S) + Count(queue["blocked_q"], S) + InIoAdmitted(S)
    BY <1>11, <1>12, <1>13, <1>14, PlaceCounts, GroupCounts
  <1>22. Count(Admitted, S) = Count(s4, S) + Count(queue["exit_q"], S) + Leaving(S)
    <2>1. Count(Admitted, S) = Count(s6, S) + Count(memory_exit_q, S)
      BY <1>5, <1>17
    <2>2. /\ Count(queue["exit_q"], S) \in Nat /\ Count(Held("exit_process"), S) \in Nat
          /\ Count(memory_exit_q, S) \in Nat
      BY PlaceCounts
    <2>3. Count(Admitted, S)
            = Count(s4, S) + Count(queue["exit_q"], S)
                + (Count(Held("exit_process"), S) + Count(memory_exit_q, S))
      BY <2>1, <2>2, <1>15, <1>16, <1>18
    <2>. QED BY <2>3 DEF Leaving
  <1>23. Admitted \in Seq(T)
    BY <1>5, <1>17
  <1>24. Inside(S) = InReady(S) + InExec(S) + Count(queue["blocked_q"], S) + Count(queue["exit_q"], S)
    BY PlaceCounts, GroupCounts DEF Inside, Queued
  <1>25. Count(Admitted, S) = Inside(S) + InIoAdmitted(S) + Leaving(S)
    BY <1>21, <1>22, <1>24, PlaceCounts, GroupCounts
  <1>. QED BY <1>23, <1>25 DEF T

\* Wherever the I/O thread stands, its process is in one of the two lists.
LEMMA EverywhereCount ==
  ASSUME SystemInv, NEW S
  PROVE  Count(Everywhere, S) = Total(S)
  <1> DEFINE T == Pcb \cup {Freed}
             io == IF at["io_listener"] = "suspended_ready_q" THEN Held("io_listener") ELSE <<>>
             out == queue["suspended_block_q"] \o queue["suspended_ready_q"]
             first == queue["new_q"] \o Admitted
  <1>1. /\ Held("io_listener") \in Seq(Pcb) /\ queue["new_q"] \in Seq(Pcb)
        /\ queue["suspended_block_q"] \in Seq(Pcb) /\ queue["suspended_ready_q"] \in Seq(Pcb)
    BY PlaceTypes DEF Holders, Planners, Queues
  <1>2. Seq(Pcb) \subseteq Seq(T)
    OBVIOUS
  <1>3. /\ io \in Seq(T)
        /\ Count(io, S) \in Nat /\ Count(io, S) + InIoAdmitted(S) = InIo(S)
    BY <1>1, <1>2, CountEmpty, GroupCounts DEF InIoAdmitted, InIo
  <1>4. Admitted \in Seq(T) /\ Count(Admitted, S) = Inside(S) + InIoAdmitted(S) + Leaving(S)
    BY AdmittedCount
  <1>5. Everywhere = first \o (out \o io)
    BY DEF Everywhere, Suspended, AwaitingIoOutside
  <1> HIDE DEF T, io
  <1>6. /\ out \in Seq(T)
        /\ Count(out, S) = Count(queue["suspended_block_q"], S) + Count(queue["suspended_ready_q"], S)
    BY <1>1, <1>2, CountConcat
  <1>7. first \in Seq(T) /\ Count(first, S) = Count(queue["new_q"], S) + Count(Admitted, S)
    BY <1>1, <1>2, <1>4, CountConcat
  <1> HIDE DEF out, first
  <1> DEFINE rest == out \o io
  <1>8. rest \in Seq(T) /\ Count(rest, S) = Count(out, S) + Count(io, S)
    BY <1>3, <1>6, CountConcat
  <1>9. Count(Everywhere, S) = Count(first, S) + Count(rest, S)
    <2>1. Everywhere = first \o rest
      BY <1>5
    <2> HIDE DEF rest
    <2>. QED BY <2>1, <1>7, <1>8, CountConcat
  <1>10. /\ Count(Admitted, S) \in Nat /\ Count(first, S) \in Nat /\ Count(out, S) \in Nat
    BY <1>4, <1>6, <1>7, CountType
  <1>11. Count(first, S) + Count(out, S) = Outside(S) + Count(Admitted, S)
    <2>1. /\ Count(queue["new_q"], S) \in Nat /\ Count(queue["suspended_block_q"], S) \in Nat
          /\ Count(queue["suspended_ready_q"], S) \in Nat
      BY PlaceCounts
    <2>2. Count(first, S) + Count(out, S)
            = Count(queue["new_q"], S) + Count(queue["suspended_block_q"], S)
                + Count(queue["suspended_ready_q"], S) + Count(Admitted, S)
      BY <1>6, <1>7, <1>10, <2>1
    <2>. QED BY <2>2 DEF Outside
  <1> HIDE DEF rest
  <1>12. Count(Everywhere, S) = Outside(S) + Count(Admitted, S) + Count(io, S)
    BY <1>3, <1>8, <1>9, <1>10, <1>11, GroupCounts
  <1>. QED BY <1>3, <1>4, <1>12, GroupCounts DEF Total

-----------------------------------------------------------------------------
(* Theorems. *)

\* PlaceInv is an invariant when consoles do not connect at the same time and the
\* memory server's delay outlasts the put.
THEOREM PlaceInvCorrect ==
  ASSUME SlowMemory, ~OverlapConsoles
  PROVE  Spec => []PlaceInv
  <1>1. SystemInv /\ SystemInv' /\ ExecutionInv /\ PlaceInv /\ [Next]_vars => PlaceInv'
    BY PlacesInductive
  <1>. QED BY <1>1, PlacesInitially, InvariantCorrect, ExecutionCorrect, PTL DEF Spec

\* The permits of sem_multiprogram and the processes that use one add up to the
\* multiprogramming level: always under FIFO, and under SRT until
\* check_interruption evicts a process that had already left.
THEOREM MultiprogramCorrect ==
  ASSUME SlowMemory, ~OverlapConsoles
  PROVE  Spec => [](Algorithm = "FIFO" \/ cycle # "cpu_bussy" => MultiprogramBound)
  <1>1. SystemInv /\ ExecutionInv /\ PlaceInv
          => (Algorithm = "FIFO" \/ cycle # "cpu_bussy" => MultiprogramBound)
    <2> SUFFICES ASSUME SystemInv, ExecutionInv, PlaceInv,
                        Algorithm = "FIFO" \/ cycle # "cpu_bussy"
                 PROVE  MultiprogramBound
      OBVIOUS
    <2>1. Bounded
      BY DEF ExecutionInv, FifoUninterrupted, PlaceInv, Settled
    <2>2. Count(Admitted, Pcb) = Used
      BY AdmittedCount DEF Used
    <2>. QED BY <2>1, <2>2 DEF Bounded, MultiprogramBound
  <1>. QED BY <1>1, PlaceInvCorrect, InvariantCorrect, ExecutionCorrect, PTL

\* From its arrival until its console is answered a process is in exactly one place,
\* and the console is answered once: always under FIFO, and under SRT until
\* check_interruption evicts a process that had already left.
THEOREM OnePlaceCorrect ==
  ASSUME SlowMemory, ~OverlapConsoles
  PROVE  Spec => [](Algorithm = "FIFO" \/ cycle # "cpu_bussy" => OnePlace)
  <1>1. SystemInv /\ ExecutionInv /\ PlaceInv
          => (Algorithm = "FIFO" \/ cycle # "cpu_bussy" => OnePlace)
    <2> SUFFICES ASSUME SystemInv, ExecutionInv, PlaceInv,
                        Algorithm = "FIFO" \/ cycle # "cpu_bussy"
                 PROVE  OnePlace
      OBVIOUS
    <2>1. Placed
      BY DEF ExecutionInv, FifoUninterrupted, PlaceInv, Settled
    <2>2. \A c : Count(Everywhere, ProcessOf(c)) = Total(ProcessOf(c))
      BY EverywhereCount
    <2>. QED BY <2>1, <2>2 DEF Placed, OnePlace
  <1>. QED BY <1>1, PlaceInvCorrect, InvariantCorrect, ExecutionCorrect, PTL

=============================================================================
