-------------------------- MODULE LifecycleProofs ---------------------------
(***************************************************************************)
(* The three programs implement the life cycle of a process.               *)
(*                                                                         *)
(* StageOf looks for a process in sequences of queues, hands and packets.  *)
(* PlaceInv says that it is in one place only, so the first place that has *)
(* it is the only one, and its stage is the one in which it is counted     *)
(* (StageCounts).  A step is then read off the counts: it passes one       *)
(* process from one stage to another (Passed), or none (Rested).  The two  *)
(* ends of a life are apart, for there a process enters or leaves the      *)
(* counts.                                                                 *)
(*                                                                         *)
(* The guards of the life cycle come from the permits: one of              *)
(* sem_multiprogram is room in memory, that of cpu_free an empty CPU, and  *)
(* to_ready takes a new process only if suspended_ready_q is empty.        *)
(***************************************************************************)
EXTENDS PlaceProofs

-----------------------------------------------------------------------------
(* The stage of a process is where it is counted. *)

\* The stages of a process that has come and not left.
LiveStages == {"new", "ready", "exec", "blocked", "suspended_blocked", "suspended_ready", "exit"}

\* The processes of S that the I/O thread holds outside memory.
InIoOutside(S) == IF at["io_listener"] = "suspended_ready_q" THEN InIo(S) ELSE 0

\* The processes of S in stage s.
Living(s, S) ==
    CASE s = "new" -> Count(queue["new_q"], S)
      [] s = "ready" -> InReady(S)
      [] s = "exec" -> InExec(S)
      [] s = "blocked" -> Count(queue["blocked_q"], S) + InIoAdmitted(S)
      [] s = "suspended_blocked" -> Count(queue["suspended_block_q"], S) + InIoOutside(S)
      [] s = "suspended_ready" -> Count(queue["suspended_ready_q"], S)
      [] s = "exit" -> Count(queue["exit_q"], S) + Leaving(S)

\* Stage by stage, before and after a step.
LEMMA LivingIs ==
  ASSUME NEW S
  PROVE  /\ Living("new", S) = Count(queue["new_q"], S)
         /\ Living("ready", S) = InReady(S)
         /\ Living("exec", S) = InExec(S)
         /\ Living("blocked", S) = Count(queue["blocked_q"], S) + InIoAdmitted(S)
         /\ Living("suspended_blocked", S) = Count(queue["suspended_block_q"], S) + InIoOutside(S)
         /\ Living("suspended_ready", S) = Count(queue["suspended_ready_q"], S)
         /\ Living("exit", S) = Count(queue["exit_q"], S) + Leaving(S)
  BY DEF Living

\* The stages are all the places there are.
LEMMA LivingTotal ==
  ASSUME SystemInv, NEW S
  PROVE  /\ \A s \in LiveStages : Living(s, S) \in Nat
         /\ Total(S) = Living("new", S) + Living("ready", S) + Living("exec", S)
                         + Living("blocked", S) + Living("suspended_blocked", S)
                         + Living("suspended_ready", S) + Living("exit", S)
  <1>1. InIoOutside(S) \in Nat /\ InIoAdmitted(S) \in Nat
        /\ InIo(S) = InIoAdmitted(S) + InIoOutside(S)
    BY GroupCounts DEF InIoOutside, InIoAdmitted
  <1>2. InReady(S) \in Nat /\ InExec(S) \in Nat /\ Leaving(S) \in Nat
    BY GroupCounts
  <1>3. /\ Count(queue["blocked_q"], S) \in Nat /\ Count(queue["exit_q"], S) \in Nat
        /\ Count(queue["new_q"], S) \in Nat /\ Count(queue["suspended_block_q"], S) \in Nat
        /\ Count(queue["suspended_ready_q"], S) \in Nat
    BY PlaceCounts
  <1>4. \A s \in LiveStages : Living(s, S) \in Nat
    BY <1>1, <1>2, <1>3, LivingIs DEF LiveStages
  <1>. QED BY <1>1, <1>2, <1>3, <1>4, LivingIs DEF Total, Inside, Queued, Outside

\* A process is in a queue when it is counted there.
LEMMA HasCount ==
  ASSUME NEW c, NEW T, NEW s \in Seq(T)
  PROVE  Has(c, s) <=> Count(s, ProcessOf(c)) # 0
  BY CountMeans DEF Has

\* Each condition of StageOf says that the process is counted in that stage.
LEMMA StageConditions ==
  SystemInv => \A c \in Consoles :
    /\ Has(c, queue["new_q"]) <=> Living("new", ProcessOf(c)) # 0
    /\ Has(c, Held("to_ready") \o queue["ready_q"]) <=> Living("ready", ProcessOf(c)) # 0
    /\ Has(c, Executing) <=> Living("exec", ProcessOf(c)) # 0
    /\ Has(c, queue["suspended_ready_q"]) <=> Living("suspended_ready", ProcessOf(c)) # 0
    /\ Has(c, queue["suspended_block_q"] \o AwaitingIoOutside)
         <=> Living("suspended_blocked", ProcessOf(c)) # 0
    /\ Has(c, queue["blocked_q"] \o AwaitingIo) <=> Living("blocked", ProcessOf(c)) # 0
    /\ Has(c, queue["exit_q"] \o Held("exit_process") \o memory_exit_q)
         <=> Living("exit", ProcessOf(c)) # 0
  <1> SUFFICES ASSUME SystemInv, NEW c \in Consoles
               PROVE  /\ Has(c, queue["new_q"]) <=> Living("new", ProcessOf(c)) # 0
                      /\ Has(c, Held("to_ready") \o queue["ready_q"])
                           <=> Living("ready", ProcessOf(c)) # 0
                      /\ Has(c, Executing) <=> Living("exec", ProcessOf(c)) # 0
                      /\ Has(c, queue["suspended_ready_q"])
                           <=> Living("suspended_ready", ProcessOf(c)) # 0
                      /\ Has(c, queue["suspended_block_q"] \o AwaitingIoOutside)
                           <=> Living("suspended_blocked", ProcessOf(c)) # 0
                      /\ Has(c, queue["blocked_q"] \o AwaitingIo)
                           <=> Living("blocked", ProcessOf(c)) # 0
                      /\ Has(c, queue["exit_q"] \o Held("exit_process") \o memory_exit_q)
                           <=> Living("exit", ProcessOf(c)) # 0
    OBVIOUS
  <1> DEFINE S == ProcessOf(c)
             T == Pcb \cup {Freed}
             gone == queue["exit_q"] \o Held("exit_process")
  <1>1. \A q \in Queues : queue[q] \in Seq(Pcb)
    BY PlaceTypes
  <1>2. /\ queue["new_q"] \in Seq(Pcb) /\ queue["ready_q"] \in Seq(Pcb)
        /\ queue["blocked_q"] \in Seq(Pcb) /\ queue["exit_q"] \in Seq(Pcb)
        /\ queue["suspended_block_q"] \in Seq(Pcb) /\ queue["suspended_ready_q"] \in Seq(Pcb)
    BY <1>1 DEF Queues
  <1>3. /\ Held("to_ready") \in Seq(Pcb) /\ Held("io_listener") \in Seq(Pcb)
        /\ Held("exit_process") \in Seq(Pcb) /\ memory_exit_q \in Seq(T)
    BY PlaceTypes DEF Holders, Planners
  <1>4. /\ AwaitingIo \in Seq(Pcb) /\ Count(AwaitingIo, S) = InIoAdmitted(S)
        /\ AwaitingIoOutside \in Seq(Pcb) /\ Count(AwaitingIoOutside, S) = InIoOutside(S)
    BY <1>3, CountEmpty DEF AwaitingIo, AwaitingIoOutside, InIoAdmitted, InIoOutside, InIo
  <1>5. Executing \in Seq(Pcb) /\ Count(Executing, S) = InExec(S)
    BY ExecutingCount
  <1>6. /\ gone \in Seq(Pcb)
        /\ Count(gone, S) = Count(queue["exit_q"], S) + Count(Held("exit_process"), S)
    BY <1>2, <1>3, CountConcat
  <1>7. gone \in Seq(T)
    BY <1>6
  <1> HIDE DEF S, gone, T
  <1>8. gone \o memory_exit_q \in Seq(T)
        /\ Count(gone \o memory_exit_q, S) = Count(gone, S) + Count(memory_exit_q, S)
    BY <1>3, <1>7, CountConcat
  <1>9. /\ Count(queue["exit_q"], S) \in Nat /\ Count(Held("exit_process"), S) \in Nat
        /\ Count(memory_exit_q, S) \in Nat
    BY PlaceCounts
  <1>10. Count(gone \o memory_exit_q, S) = Living("exit", S)
    BY <1>6, <1>8, <1>9, LivingIs DEF Leaving
  <1>11. Has(c, gone \o memory_exit_q) <=> Living("exit", S) # 0
    BY <1>8, <1>10, HasCount DEF S
  <1>12. /\ Has(c, queue["new_q"]) <=> Living("new", S) # 0
         /\ Has(c, queue["suspended_ready_q"]) <=> Living("suspended_ready", S) # 0
         /\ Has(c, Executing) <=> Living("exec", S) # 0
    BY <1>2, <1>5, HasCount, LivingIs DEF S
  <1>13. Has(c, Held("to_ready") \o queue["ready_q"]) <=> Living("ready", S) # 0
    <2>1. /\ Held("to_ready") \o queue["ready_q"] \in Seq(Pcb)
          /\ Count(Held("to_ready") \o queue["ready_q"], S) = InReady(S)
      BY <1>2, <1>3, CountConcat DEF InReady
    <2>. QED BY <2>1, HasCount, LivingIs DEF S
  <1>14. Has(c, queue["suspended_block_q"] \o AwaitingIoOutside)
           <=> Living("suspended_blocked", S) # 0
    <2>1. /\ queue["suspended_block_q"] \o AwaitingIoOutside \in Seq(Pcb)
          /\ Count(queue["suspended_block_q"] \o AwaitingIoOutside, S)
               = Living("suspended_blocked", S)
      BY <1>2, <1>4, CountConcat, LivingIs
    <2>. QED BY <2>1, HasCount DEF S
  <1>15. Has(c, queue["blocked_q"] \o AwaitingIo) <=> Living("blocked", S) # 0
    <2>1. /\ queue["blocked_q"] \o AwaitingIo \in Seq(Pcb)
          /\ Count(queue["blocked_q"] \o AwaitingIo, S) = Living("blocked", S)
      BY <1>2, <1>4, CountConcat, LivingIs
    <2>. QED BY <2>1, HasCount DEF S
  <1>. QED BY <1>11, <1>12, <1>13, <1>14, <1>15 DEF S, gone

\* A process that is in one place has the stage of that place, and one that is in none
\* has left or has not come.
StagesAreCounts ==
    \A c \in Consoles :
        /\ \A s \in LiveStages : StageOf(c) = s <=> Living(s, ProcessOf(c)) # 0
        /\ StageOf(c) = "done" <=> answers[c] # 0
        /\ StageOf(c) = "off" <=> answers[c] = 0 /\ Total(ProcessOf(c)) = 0

\* While no process was returned twice they are.
LEMMA StageCounts == SystemInv /\ Placed => StagesAreCounts
  <1> SUFFICES ASSUME SystemInv, Placed, NEW c \in Consoles
               PROVE  /\ \A s \in LiveStages : StageOf(c) = s <=> Living(s, ProcessOf(c)) # 0
                      /\ StageOf(c) = "done" <=> answers[c] # 0
                      /\ StageOf(c) = "off" <=> answers[c] = 0 /\ Total(ProcessOf(c)) = 0
    BY DEF StagesAreCounts
  <1> DEFINE S == ProcessOf(c)
             n(s) == Living(s, S)
  <1>1. answers[c] \in Nat /\ Total(S) + answers[c] <= 1
    <2>1. answers[c] \in Nat
      BY PlaceTypes
    <2>. QED BY <2>1 DEF Placed, One
  <1>2. \A s \in LiveStages : n(s) \in Nat
    BY LivingTotal
  <1>3. Total(S) = n("new") + n("ready") + n("exec") + n("blocked") + n("suspended_blocked")
                     + n("suspended_ready") + n("exit")
    BY LivingTotal
  <1> DEFINE sum == n("new") + n("ready") + n("exec") + n("blocked") + n("suspended_blocked")
                     + n("suspended_ready") + n("exit")
  <1>4. StageOf(c) =
          CASE answers[c] > 0 -> "done"
            [] n("new") # 0 -> "new"
            [] n("ready") # 0 -> "ready"
            [] n("exec") # 0 -> "exec"
            [] n("suspended_ready") # 0 -> "suspended_ready"
            [] n("suspended_blocked") # 0 -> "suspended_blocked"
            [] n("blocked") # 0 -> "blocked"
            [] n("exit") # 0 -> "exit"
            [] OTHER -> "off"
    BY StageConditions DEF StageOf
  <1> HIDE DEF n, S
  <1>5. /\ n("new") \in Nat /\ n("ready") \in Nat /\ n("exec") \in Nat /\ n("blocked") \in Nat
        /\ n("suspended_blocked") \in Nat /\ n("suspended_ready") \in Nat /\ n("exit") \in Nat
    BY <1>2 DEF LiveStages
  <1>6. sum + answers[c] <= 1
    BY <1>1, <1>3
  <1>7. /\ answers[c] # 0 => \A s \in LiveStages : n(s) = 0
        /\ \A s \in LiveStages : n(s) # 0 =>
             answers[c] = 0 /\ \A r \in LiveStages : r # s => n(r) = 0
    <2> DEFINE zero(s) == n(s) = 0
    <2>1. PICK a, b1, b2, b3, b4, b5, b6, b7 \in Nat :
            /\ a = answers[c] /\ b1 = n("new") /\ b2 = n("ready") /\ b3 = n("exec")
            /\ b4 = n("blocked") /\ b5 = n("suspended_blocked") /\ b6 = n("suspended_ready")
            /\ b7 = n("exit")
      BY <1>1, <1>5
    <2>2. b1 + b2 + b3 + b4 + b5 + b6 + b7 + a <= 1
      BY <1>6, <2>1
    <2>3. /\ a # 0 => b1 = 0 /\ b2 = 0 /\ b3 = 0 /\ b4 = 0 /\ b5 = 0 /\ b6 = 0 /\ b7 = 0
          /\ b1 # 0 => a = 0 /\ b2 = 0 /\ b3 = 0 /\ b4 = 0 /\ b5 = 0 /\ b6 = 0 /\ b7 = 0
          /\ b2 # 0 => a = 0 /\ b1 = 0 /\ b3 = 0 /\ b4 = 0 /\ b5 = 0 /\ b6 = 0 /\ b7 = 0
          /\ b3 # 0 => a = 0 /\ b1 = 0 /\ b2 = 0 /\ b4 = 0 /\ b5 = 0 /\ b6 = 0 /\ b7 = 0
          /\ b4 # 0 => a = 0 /\ b1 = 0 /\ b2 = 0 /\ b3 = 0 /\ b5 = 0 /\ b6 = 0 /\ b7 = 0
          /\ b5 # 0 => a = 0 /\ b1 = 0 /\ b2 = 0 /\ b3 = 0 /\ b4 = 0 /\ b6 = 0 /\ b7 = 0
          /\ b6 # 0 => a = 0 /\ b1 = 0 /\ b2 = 0 /\ b3 = 0 /\ b4 = 0 /\ b5 = 0 /\ b7 = 0
          /\ b7 # 0 => a = 0 /\ b1 = 0 /\ b2 = 0 /\ b3 = 0 /\ b4 = 0 /\ b5 = 0 /\ b6 = 0
      BY <2>2
    <2>4. answers[c] # 0 =>
            /\ zero("new") /\ zero("ready") /\ zero("exec") /\ zero("blocked")
            /\ zero("suspended_blocked") /\ zero("suspended_ready") /\ zero("exit")
      BY <2>1, <2>3
    <2>5. ~zero("new") =>
            /\ answers[c] = 0 /\ zero("ready") /\ zero("exec") /\ zero("blocked")
            /\ zero("suspended_blocked") /\ zero("suspended_ready") /\ zero("exit")
      BY <2>1, <2>3
    <2>6. ~zero("ready") =>
            /\ answers[c] = 0 /\ zero("new") /\ zero("exec") /\ zero("blocked")
            /\ zero("suspended_blocked") /\ zero("suspended_ready") /\ zero("exit")
      BY <2>1, <2>3
    <2>7. ~zero("exec") =>
            /\ answers[c] = 0 /\ zero("new") /\ zero("ready") /\ zero("blocked")
            /\ zero("suspended_blocked") /\ zero("suspended_ready") /\ zero("exit")
      BY <2>1, <2>3
    <2>8. ~zero("blocked") =>
            /\ answers[c] = 0 /\ zero("new") /\ zero("ready") /\ zero("exec")
            /\ zero("suspended_blocked") /\ zero("suspended_ready") /\ zero("exit")
      BY <2>1, <2>3
    <2>9. ~zero("suspended_blocked") =>
            /\ answers[c] = 0 /\ zero("new") /\ zero("ready") /\ zero("exec")
            /\ zero("blocked") /\ zero("suspended_ready") /\ zero("exit")
      BY <2>1, <2>3
    <2>10. ~zero("suspended_ready") =>
            /\ answers[c] = 0 /\ zero("new") /\ zero("ready") /\ zero("exec")
            /\ zero("blocked") /\ zero("suspended_blocked") /\ zero("exit")
      BY <2>1, <2>3
    <2>11. ~zero("exit") =>
            /\ answers[c] = 0 /\ zero("new") /\ zero("ready") /\ zero("exec")
            /\ zero("blocked") /\ zero("suspended_blocked") /\ zero("suspended_ready")
      BY <2>1, <2>3
    <2> HIDE DEF zero
    <2>12. /\ answers[c] # 0 => \A s \in LiveStages : zero(s)
          /\ \A s \in LiveStages : ~zero(s) =>
               answers[c] = 0 /\ \A r \in LiveStages : r # s => zero(r)
      BY <2>4, <2>5, <2>6, <2>7, <2>8, <2>9, <2>10, <2>11 DEF LiveStages
    <2>. QED BY <2>12 DEF zero
  <1>8. Total(S) = 0 <=> \A s \in LiveStages : n(s) = 0
    BY <1>3, <1>5 DEF LiveStages
  <1>9. CASE answers[c] # 0
    <2>1. answers[c] > 0
      BY <1>1, <1>9
    <2>2. StageOf(c) = "done"
      BY <1>4, <1>7, <1>9, <2>1 DEF LiveStages
    <2>. QED BY <1>7, <1>9, <2>2 DEF n, S, LiveStages
  <1>10. ASSUME NEW s \in LiveStages, n(s) # 0
         PROVE  /\ \A r \in LiveStages : StageOf(c) = r <=> n(r) # 0
                /\ StageOf(c) # "done" /\ answers[c] = 0 /\ StageOf(c) # "off" /\ Total(S) # 0
    <2>1. /\ ~(answers[c] > 0) /\ answers[c] = 0
          /\ \A r \in LiveStages : r # s => n(r) = 0
      BY <1>7, <1>10
    <2>2. StageOf(c) = s
      <3>1. CASE s = "new"
        BY <1>4, <1>10, <2>1, <3>1 DEF LiveStages
      <3>2. CASE s = "ready"
        BY <1>4, <1>10, <2>1, <3>2 DEF LiveStages
      <3>3. CASE s = "exec"
        BY <1>4, <1>10, <2>1, <3>3 DEF LiveStages
      <3>4. CASE s = "blocked"
        BY <1>4, <1>10, <2>1, <3>4 DEF LiveStages
      <3>5. CASE s = "suspended_blocked"
        BY <1>4, <1>10, <2>1, <3>5 DEF LiveStages
      <3>6. CASE s = "suspended_ready"
        BY <1>4, <1>10, <2>1, <3>6 DEF LiveStages
      <3>7. CASE s = "exit"
        BY <1>4, <1>10, <2>1, <3>7 DEF LiveStages
      <3>. QED BY <3>1, <3>2, <3>3, <3>4, <3>5, <3>6, <3>7 DEF LiveStages
    <2>. QED BY <1>8, <1>10, <2>1, <2>2 DEF LiveStages
  <1>11. CASE answers[c] = 0 /\ \A s \in LiveStages : n(s) = 0
    <2>1. StageOf(c) = "off"
      BY <1>4, <1>11 DEF LiveStages
    <2>. QED BY <1>8, <1>11, <2>1 DEF n, S, LiveStages
  <1>. QED BY <1>9, <1>10, <1>11 DEF n, S

-----------------------------------------------------------------------------
(* From counts to stages: what a step of the life cycle looks like in the places. *)

\* What the life cycle sees of the three programs.
Stage == [c \in Consoles |-> StageOf(c)]

\* So many processes of S pass from one stage to another.
Passed(S, from, to, d) ==
    \A s \in LiveStages :
        Living(s, S)' = Living(s, S) + (IF s = to THEN d ELSE 0) - (IF s = from THEN d ELSE 0)

\* Every count is a number, and they add up.
LivingAddsUp ==
    \A S : /\ \A s \in LiveStages : Living(s, S) \in Nat
           /\ Total(S) = Living("new", S) + Living("ready", S) + Living("exec", S)
                           + Living("blocked", S) + Living("suspended_blocked", S)
                           + Living("suspended_ready", S) + Living("exit", S)

\* As an implication, for the state after a step.
LEMMA LivingSums == SystemInv => LivingAddsUp
  BY LivingTotal DEF LivingAddsUp

\* Before a step and after it.
LEMMA StagesAfter ==
  ASSUME SystemInv, SystemInv', Placed, Placed'
  PROVE  StagesAreCounts /\ StagesAreCounts' /\ LivingAddsUp /\ LivingAddsUp'
  <1>1. StagesAreCounts /\ LivingAddsUp
    BY StageCounts, LivingSums
  <1>2. StagesAreCounts' /\ LivingAddsUp'
    BY StageCounts, LivingSums, PTL
  <1>. QED BY <1>1, <1>2

\* What is counted in the same stage stays in it.
LEMMA SameStage ==
  ASSUME SystemInv, SystemInv', Placed, Placed', NEW c \in Consoles, answers'[c] = answers[c],
         \A s \in LiveStages : Living(s, ProcessOf(c))' = Living(s, ProcessOf(c))
  PROVE  StageOf(c)' = StageOf(c)
  <1>1. /\ \A s \in LiveStages : StageOf(c) = s <=> Living(s, ProcessOf(c)) # 0
        /\ StageOf(c) = "done" <=> answers[c] # 0
        /\ StageOf(c) = "off" <=> answers[c] = 0 /\ Total(ProcessOf(c)) = 0
    BY StagesAfter DEF StagesAreCounts
  <1>2. /\ \A s \in LiveStages : StageOf(c)' = s <=> Living(s, ProcessOf(c))' # 0
        /\ StageOf(c)' = "done" <=> answers'[c] # 0
        /\ StageOf(c)' = "off" <=> answers'[c] = 0 /\ Total(ProcessOf(c))' = 0
    BY StagesAfter DEF StagesAreCounts
  <1>3. Total(ProcessOf(c))' = Total(ProcessOf(c))
    <2>1. /\ Total(ProcessOf(c)) = Living("new", ProcessOf(c)) + Living("ready", ProcessOf(c))
               + Living("exec", ProcessOf(c)) + Living("blocked", ProcessOf(c))
               + Living("suspended_blocked", ProcessOf(c))
               + Living("suspended_ready", ProcessOf(c)) + Living("exit", ProcessOf(c))
          /\ Total(ProcessOf(c))' = Living("new", ProcessOf(c))' + Living("ready", ProcessOf(c))'
               + Living("exec", ProcessOf(c))' + Living("blocked", ProcessOf(c))'
               + Living("suspended_blocked", ProcessOf(c))'
               + Living("suspended_ready", ProcessOf(c))' + Living("exit", ProcessOf(c))'
      BY StagesAfter DEF LivingAddsUp
    <2>. QED BY <2>1 DEF LiveStages
  <1>4. \/ StageOf(c) = "done" \/ StageOf(c) = "off" \/ \E s \in LiveStages : StageOf(c) = s
    <2>1. Total(ProcessOf(c)) # 0 => \E s \in LiveStages : Living(s, ProcessOf(c)) # 0
      <3>1. (\A s \in LiveStages : Living(s, ProcessOf(c)) = 0) => Total(ProcessOf(c)) = 0
        BY LivingTotal DEF LiveStages
      <3>. QED BY <3>1
    <2>. QED BY <1>1, <2>1
  <1>. QED BY <1>1, <1>2, <1>3, <1>4

\* A step that moves nothing between stages is none of the life cycle.
LEMMA StageRests ==
  ASSUME SystemInv, SystemInv', Placed, Placed', UNCHANGED answers,
         \A c \in Consoles : \A s \in LiveStages :
             Living(s, ProcessOf(c))' = Living(s, ProcessOf(c))
  PROVE  UNCHANGED Stage
  BY SameStage DEF Stage

\* A process that passes from one stage to another makes that step of its life, and
\* the others none.
LEMMA StageMoves ==
  ASSUME SystemInv, SystemInv', Placed, Placed', UNCHANGED answers,
         NEW p \in Pcb, NEW from \in LiveStages, NEW to \in LiveStages, from # to,
         \A c \in Consoles : Passed(ProcessOf(c), from, to, One(p \in ProcessOf(c)))
  PROVE  /\ p.client_socket \in Consoles
         /\ Stage[p.client_socket] = from /\ Stage'[p.client_socket] = to
         /\ L!Move(p.client_socket, from, to)
  <1> DEFINE c == p.client_socket
  <1>1. c \in Consoles /\ p \in ProcessOf(c) /\ \A d \in Consoles \ {c} : p \notin ProcessOf(d)
    BY DEF Pcb, ProcessOf
  <1>2. ASSUME NEW d \in Consoles \ {c} PROVE StageOf(d)' = StageOf(d)
    <2>1. One(p \in ProcessOf(d)) = 0
      BY <1>1 DEF One
    <2>2. \A s \in LiveStages : Living(s, ProcessOf(d)) \in Nat
      BY LivingTotal
    <2>3. \A s \in LiveStages : Living(s, ProcessOf(d))' = Living(s, ProcessOf(d))
      BY <2>1, <2>2 DEF Passed
    <2>. QED BY <2>3, SameStage
  <1>3. /\ Living(from, ProcessOf(c)) \in Nat /\ Living(from, ProcessOf(c))' \in Nat
        /\ Living(to, ProcessOf(c)) \in Nat
    BY StagesAfter DEF LivingAddsUp
  <1>4. One(p \in ProcessOf(c)) = 1
    BY <1>1 DEF One
  <1>5. /\ Living(from, ProcessOf(c))' = Living(from, ProcessOf(c)) - 1
        /\ Living(to, ProcessOf(c))' = Living(to, ProcessOf(c)) + 1
    BY <1>1, <1>3, <1>4 DEF Passed
  <1>6. StageOf(c) = from /\ StageOf(c)' = to
    <2>1. Living(from, ProcessOf(c)) # 0 /\ Living(to, ProcessOf(c))' # 0
      BY <1>3, <1>5
    <2>. QED BY <1>1, <2>1, StagesAfter DEF StagesAreCounts
  <1>7. Stage' = [Stage EXCEPT ![c] = to] /\ Stage[c] = from /\ Stage'[c] = to
    BY <1>1, <1>2, <1>6 DEF Stage
  <1>. QED BY <1>1, <1>7 DEF L!Move, Stage

-----------------------------------------------------------------------------
(* What each step does to the stages. *)

\* Nothing passes from one stage to another.
Rested(S) == \A s \in LiveStages : Living(s, S)' = Living(s, S)

\* LivingIs after a step.
LEMMA LivingWillBe ==
  ASSUME NEW S
  PROVE  /\ Living("new", S)' = Count(queue["new_q"], S)'
         /\ Living("ready", S)' = InReady(S)'
         /\ Living("exec", S)' = InExec(S)'
         /\ Living("blocked", S)' = Count(queue["blocked_q"], S)' + InIoAdmitted(S)'
         /\ Living("suspended_blocked", S)'
              = Count(queue["suspended_block_q"], S)' + InIoOutside(S)'
         /\ Living("suspended_ready", S)' = Count(queue["suspended_ready_q"], S)'
         /\ Living("exit", S)' = Count(queue["exit_q"], S)' + Leaving(S)'
  BY DEF Living

\* What a step adds to the parts it adds to the stages.
LEMMA PartsPass ==
  ASSUME SystemInv, NEW S, NEW a \in Int, NEW b \in Int
  PROVE  /\ Count(queue["new_q"], S)' = Count(queue["new_q"], S) + a
              => Living("new", S)' = Living("new", S) + a
         /\ InReady(S)' = InReady(S) + a => Living("ready", S)' = Living("ready", S) + a
         /\ InExec(S)' = InExec(S) + a => Living("exec", S)' = Living("exec", S) + a
         /\ (/\ Count(queue["blocked_q"], S)' = Count(queue["blocked_q"], S) + a
             /\ InIoAdmitted(S)' = InIoAdmitted(S) + b)
              => Living("blocked", S)' = Living("blocked", S) + (a + b)
         /\ (/\ Count(queue["suspended_block_q"], S)' = Count(queue["suspended_block_q"], S) + a
             /\ InIoOutside(S)' = InIoOutside(S) + b)
              => Living("suspended_blocked", S)' = Living("suspended_blocked", S) + (a + b)
         /\ Count(queue["suspended_ready_q"], S)' = Count(queue["suspended_ready_q"], S) + a
              => Living("suspended_ready", S)' = Living("suspended_ready", S) + a
         /\ (/\ Count(queue["exit_q"], S)' = Count(queue["exit_q"], S) + a
             /\ Leaving(S)' = Leaving(S) + b)
              => Living("exit", S)' = Living("exit", S) + (a + b)
  <1>1. /\ InReady(S) \in Nat /\ InExec(S) \in Nat /\ Leaving(S) \in Nat
        /\ InIoAdmitted(S) \in Nat /\ InIoOutside(S) \in Nat
    BY GroupCounts DEF InIoOutside
  <1>2. /\ Count(queue["blocked_q"], S) \in Nat /\ Count(queue["exit_q"], S) \in Nat
        /\ Count(queue["new_q"], S) \in Nat /\ Count(queue["suspended_block_q"], S) \in Nat
        /\ Count(queue["suspended_ready_q"], S) \in Nat
    BY PlaceCounts
  <1>3. /\ Count(queue["new_q"], S)' = Count(queue["new_q"], S) + a
             => Living("new", S)' = Living("new", S) + a
        /\ InReady(S)' = InReady(S) + a => Living("ready", S)' = Living("ready", S) + a
        /\ InExec(S)' = InExec(S) + a => Living("exec", S)' = Living("exec", S) + a
        /\ Count(queue["suspended_ready_q"], S)' = Count(queue["suspended_ready_q"], S) + a
             => Living("suspended_ready", S)' = Living("suspended_ready", S) + a
    BY LivingIs, LivingWillBe
  <1>4. ASSUME Count(queue["blocked_q"], S)' = Count(queue["blocked_q"], S) + a,
               InIoAdmitted(S)' = InIoAdmitted(S) + b
        PROVE  Living("blocked", S)' = Living("blocked", S) + (a + b)
    <2>1. PICK m \in Nat, k \in Nat : m = Count(queue["blocked_q"], S) /\ k = InIoAdmitted(S)
      BY <1>1, <1>2
    <2>2. Living("blocked", S) = m + k /\ Living("blocked", S)' = (m + a) + (k + b)
      BY <1>4, <2>1, LivingIs, LivingWillBe
    <2>. QED BY <2>2
  <1>5. ASSUME Count(queue["suspended_block_q"], S)' = Count(queue["suspended_block_q"], S) + a,
               InIoOutside(S)' = InIoOutside(S) + b
        PROVE  Living("suspended_blocked", S)' = Living("suspended_blocked", S) + (a + b)
    <2>1. PICK m \in Nat, k \in Nat : m = Count(queue["suspended_block_q"], S) /\ k = InIoOutside(S)
      BY <1>1, <1>2
    <2>2. /\ Living("suspended_blocked", S) = m + k
          /\ Living("suspended_blocked", S)' = (m + a) + (k + b)
      BY <1>5, <2>1, LivingIs, LivingWillBe
    <2>. QED BY <2>2
  <1>6. ASSUME Count(queue["exit_q"], S)' = Count(queue["exit_q"], S) + a,
               Leaving(S)' = Leaving(S) + b
        PROVE  Living("exit", S)' = Living("exit", S) + (a + b)
    <2>1. PICK m \in Nat, k \in Nat : m = Count(queue["exit_q"], S) /\ k = Leaving(S)
      BY <1>1, <1>2
    <2>2. Living("exit", S) = m + k /\ Living("exit", S)' = (m + a) + (k + b)
      BY <1>6, <2>1, LivingIs, LivingWillBe
    <2>. QED BY <2>2
  <1>. QED BY <1>3, <1>4, <1>5, <1>6

\* The I/O thread's part, as it is counted in Moved.
LEMMA IoParts ==
  ASSUME SystemInv, SystemInv', NEW S,
         at'["io_listener"] = "suspended_ready_q" <=> at["io_listener"] = "suspended_ready_q",
         InIo(S)' = InIo(S)
  PROVE  InIoAdmitted(S)' = InIoAdmitted(S) + 0 /\ InIoOutside(S)' = InIoOutside(S) + 0
  BY GroupCounts DEF InIoAdmitted, InIoOutside

\* Counts of queues that did not change.
LEMMA QueueSame ==
  ASSUME SystemInv, NEW S
  PROVE  /\ queue'["new_q"] = queue["new_q"] =>
              Count(queue["new_q"], S)' = Count(queue["new_q"], S) + 0
         /\ queue'["blocked_q"] = queue["blocked_q"] =>
              Count(queue["blocked_q"], S)' = Count(queue["blocked_q"], S) + 0
         /\ queue'["exit_q"] = queue["exit_q"] =>
              Count(queue["exit_q"], S)' = Count(queue["exit_q"], S) + 0
         /\ queue'["suspended_block_q"] = queue["suspended_block_q"] =>
              Count(queue["suspended_block_q"], S)' = Count(queue["suspended_block_q"], S) + 0
         /\ queue'["suspended_ready_q"] = queue["suspended_ready_q"] =>
              Count(queue["suspended_ready_q"], S)' = Count(queue["suspended_ready_q"], S) + 0
  BY PlaceCounts

\* A step that changes none of the places.
LEMMA PlacesRest ==
  ASSUME SystemInv, SystemInv', NEW S,
         UNCHANGED <<hand, dispatch, returns, cpu_pcb, pcb_loaded, cpu_bussy, memory_exit_q>>,
         \A q \in Queues \ {"memory_init_q"} : queue'[q] = queue[q],
         at'["io_listener"] = "suspended_ready_q" <=> at["io_listener"] = "suspended_ready_q"
  PROVE  Rested(S)
  <1>1. /\ UNCHANGED <<queue["new_q"], queue["ready_q"], queue["blocked_q"], queue["exit_q"],
                       queue["suspended_block_q"], queue["suspended_ready_q"]>>
    BY DEF Queues
  <1>2. /\ InReady(S)' = InReady(S) /\ InExec(S)' = InExec(S) /\ InIo(S)' = InIo(S)
        /\ Leaving(S)' = Leaving(S)
    BY <1>1, GroupsSame
  <1>3. InIoAdmitted(S)' = InIoAdmitted(S) /\ InIoOutside(S)' = InIoOutside(S)
    BY <1>2 DEF InIoAdmitted, InIoOutside
  <1>. QED BY <1>1, <1>2, <1>3, LivingIs, LivingWillBe DEF Rested, LiveStages


\* The parts are numbers.
PartCounts ==
    \A S : /\ InReady(S) \in Nat /\ InExec(S) \in Nat /\ InIo(S) \in Nat /\ Leaving(S) \in Nat
           /\ InIoAdmitted(S) \in Nat /\ InIoOutside(S) \in Nat
           /\ Count(queue["new_q"], S) \in Nat /\ Count(queue["ready_q"], S) \in Nat
           /\ Count(queue["blocked_q"], S) \in Nat /\ Count(queue["exit_q"], S) \in Nat
           /\ Count(queue["suspended_block_q"], S) \in Nat
           /\ Count(queue["suspended_ready_q"], S) \in Nat
           /\ Count(Returning, S) \in Nat

\* As an implication, for the state after a step.
LEMMA PartNumbers == SystemInv => PartCounts
  <1> SUFFICES ASSUME SystemInv PROVE PartCounts
    OBVIOUS
  <1>1. \A S : /\ InReady(S) \in Nat /\ InExec(S) \in Nat /\ InIo(S) \in Nat
               /\ Leaving(S) \in Nat /\ InIoAdmitted(S) \in Nat /\ InIoOutside(S) \in Nat
    BY GroupCounts DEF InIoOutside
  <1>. QED BY <1>1, PlaceCounts DEF PartCounts

\* Before a step and after it.
LEMMA PartNumbersAfter ==
  ASSUME SystemInv, SystemInv'
  PROVE  PartCounts /\ PartCounts'
  <1>1. PartCounts
    BY PartNumbers
  <1>2. PartCounts'
    BY PartNumbers, PTL
  <1>. QED BY <1>1, <1>2

\* Of the processes of S, for all that a step may move.
LEMMA ForProcesses ==
  ASSUME NEW from, NEW to, NEW p, \A S : Kept(S) => Passed(S, from, to, One(p \in S))
  PROVE  \A c \in Consoles : Passed(ProcessOf(c), from, to, One(p \in ProcessOf(c)))
  <1> SUFFICES ASSUME NEW c \in Consoles
               PROVE  Passed(ProcessOf(c), from, to, One(p \in ProcessOf(c)))
    OBVIOUS
  <1>1. Kept(ProcessOf(c))
    BY KeptSets
  <1>. QED BY <1>1

\* The same for a step that moves none.
LEMMA NoProcess ==
  ASSUME \A S : Kept(S) => Rested(S)
  PROVE  \A c \in Consoles : \A s \in LiveStages :
             Living(s, ProcessOf(c))' = Living(s, ProcessOf(c))
  <1> SUFFICES ASSUME NEW c \in Consoles
               PROVE  Rested(ProcessOf(c))
    BY DEF Rested
  <1>1. Kept(ProcessOf(c))
    BY KeptSets
  <1>. QED BY <1>1

\* Only what is ready or held by the I/O thread changes.
LEMMA ReadyOnly ==
  ASSUME SystemInv, SystemInv', NEW S, NEW d \in Int, NEW e \in Int, Moved(S, d, e, 0, 0),
         UNCHANGED <<dispatch, returns, cpu_pcb, pcb_loaded, cpu_bussy>>,
         \A q \in Queues \ {"memory_init_q", "ready_q"} : queue'[q] = queue[q],
         \/ e = 0 /\ at'["io_listener"] = at["io_listener"]
         \/ at["io_listener"] # "suspended_ready_q" /\ at'["io_listener"] # "suspended_ready_q"
  PROVE  /\ d = 0 /\ e = 0 => Rested(S)
         /\ e = -d => Passed(S, "blocked", "ready", d)
  <1>1. UNCHANGED <<queue["new_q"], queue["blocked_q"], queue["exit_q"],
                    queue["suspended_block_q"], queue["suspended_ready_q"]>>
    BY DEF Queues
  <1>2. InExec(S)' = InExec(S) + 0 /\ Queued(S)' = Queued(S)
    BY <1>1, GroupsSame, GroupCounts
  <1>3. InReady(S)' = InReady(S) + d
    BY <1>2, GroupCounts, PartNumbersAfter DEF Moved, Inside, PartCounts
  <1>4. InIoAdmitted(S)' = InIoAdmitted(S) + e /\ InIoOutside(S)' = InIoOutside(S) + 0
    BY GroupCounts DEF Moved, InIoAdmitted, InIoOutside
  <1>5. Leaving(S)' = Leaving(S) + 0
    BY DEF Moved
  <1>. /\ Count(queue["new_q"], S)' = Count(queue["new_q"], S) + 0
       /\ Count(queue["blocked_q"], S)' = Count(queue["blocked_q"], S) + 0
       /\ Count(queue["exit_q"], S)' = Count(queue["exit_q"], S) + 0
       /\ Count(queue["suspended_block_q"], S)' = Count(queue["suspended_block_q"], S) + 0
       /\ Count(queue["suspended_ready_q"], S)' = Count(queue["suspended_ready_q"], S) + 0
    BY <1>1, QueueSame
  <1>6. /\ Living("new", S)' = Living("new", S) + 0
        /\ Living("ready", S)' = Living("ready", S) + d
        /\ Living("exec", S)' = Living("exec", S) + 0
        /\ Living("blocked", S)' = Living("blocked", S) + (0 + e)
        /\ Living("suspended_blocked", S)' = Living("suspended_blocked", S) + (0 + 0)
        /\ Living("suspended_ready", S)' = Living("suspended_ready", S) + 0
        /\ Living("exit", S)' = Living("exit", S) + (0 + 0)
    BY <1>2, <1>3, <1>4, <1>5, PartsPass
  <1>7. \A s \in LiveStages : Living(s, S) \in Nat
    BY LivingTotal
  <1>. QED BY <1>6, <1>7 DEF Rested, Passed, LiveStages

\* put_to_ready: what to_ready holds is ready already, what io_listener holds wakes up.
LEMMA PutToReady_Stages ==
  ASSUME SystemInv, SystemInv', UNCHANGED cpuVars, NEW t \in Planners, PutToReady(t),
         NEW S, Carried(S)
  PROVE  /\ t = "to_ready" => Rested(S)
         /\ t = "io_listener" => Passed(S, "blocked", "ready", One(hand[t] \in S))
  <1>0. queue \in [Queues -> Seq(Pcb)] /\ at \in [Threads -> Locations]
    BY PlaceTypes
  <1>1. /\ UNCHANGED <<dispatch, returns, cpu_pcb, pcb_loaded, cpu_bussy>>
        /\ at[t] = "put_to_ready"
        /\ \E l \in {LoopStart(t), "interrupt_ready"} : at' = [at EXCEPT ![t] = l]
        /\ \E r : queue' = [queue EXCEPT !["ready_q"] = r]
    BY DEF PutToReady, PutToReady_Fifo, PutToReady_Replan, PutToReady_Interrupt, cpuVars
  <1>2. \A q \in Queues \ {"memory_init_q", "ready_q"} : queue'[q] = queue[q]
    BY <1>0, <1>1
  <1>3. CASE t = "to_ready"
    <2>1. at'["io_listener"] = at["io_listener"]
      BY <1>0, <1>1, <1>3 DEF Threads, Holders, Planners
    <2>2. Moved(S, 0, 0, 0, 0)
      BY <1>3, PutToReady_Moves
    <2>. QED BY <1>1, <1>2, <1>3, <2>1, <2>2, ReadyOnly
  <1>4. CASE t = "io_listener"
    <2> DEFINE d == One(hand[t] \in S)
    <2>1. at["io_listener"] # "suspended_ready_q" /\ at'["io_listener"] # "suspended_ready_q"
      BY <1>0, <1>1, <1>4 DEF Threads, Holders, Planners, LoopStart
    <2>2. Moved(S, d, -d, 0, 0)
      BY <1>4, PutToReady_Moves
    <2>3. d \in Int /\ -d \in Int
      BY DEF One
    <2> HIDE DEF d
    <2>4. Passed(S, "blocked", "ready", d)
      BY <1>1, <1>2, <2>1, <2>2, <2>3, ReadyOnly
    <2>. QED BY <1>4, <2>4 DEF d
  <1>. QED BY <1>3, <1>4 DEF Planners

\* The sort after an interrupt moves nothing.
LEMMA PutToReady_Resume_Stages ==
  ASSUME SystemInv, SystemInv', UNCHANGED cpuVars, NEW t \in Planners, PutToReady_Resume(t), NEW S
  PROVE  Rested(S)
  <1>0. queue \in [Queues -> Seq(Pcb)] /\ at \in [Threads -> Locations]
    BY PlaceTypes
  <1>1. /\ UNCHANGED <<dispatch, returns, cpu_pcb, pcb_loaded, cpu_bussy>>
        /\ at[t] = "interrupt_ready" /\ at' = [at EXCEPT ![t] = LoopStart(t)]
        /\ \E r : queue' = [queue EXCEPT !["ready_q"] = r]
    BY DEF PutToReady_Resume, socketVars, cpuVars
  <1>2. \A q \in Queues \ {"memory_init_q", "ready_q"} : queue'[q] = queue[q]
    BY <1>0, <1>1
  <1>3. Moved(S, 0, 0, 0, 0)
    BY PutToReady_Resume_Moves
  <1>4. \/ at'["io_listener"] = at["io_listener"]
        \/ at["io_listener"] # "suspended_ready_q" /\ at'["io_listener"] # "suspended_ready_q"
    BY <1>0, <1>1 DEF Threads, Holders, Planners, LoopStart
  <1>. QED BY <1>1, <1>2, <1>3, <1>4, ReadyOnly

\* Nor does an answer of the memory server that is not about an exit.
LEMMA TableIndexSuccess_Stages ==
  ASSUME SystemInv, SystemInv', UNCHANGED cpuVars, TableIndexSuccess, NEW S, Kept(S)
  PROVE  Rested(S)
  <1>0. queue \in [Queues -> Seq(Pcb)]
    BY PlaceTypes
  <1>1. /\ UNCHANGED <<dispatch, returns, cpu_pcb, pcb_loaded, cpu_bussy, at>>
        /\ queue' = queue \/ queue' = [queue EXCEPT !["memory_init_q"] = Tail(@)]
    BY DEF TableIndexSuccess, cpuVars
  <1>2. \A q \in Queues \ {"memory_init_q", "ready_q"} : queue'[q] = queue[q]
    BY <1>0, <1>1
  <1>3. Moved(S, 0, 0, 0, 0)
    BY TableIndexSuccess_Moves
  <1>. QED BY <1>1, <1>2, <1>3, ReadyOnly

\* The CPU's steps: a process stays on its way to, in or from the CPU.
LEMMA Cpu_Stages ==
  ASSUME SystemInv, SystemInv', ExecutionInv, UNCHANGED kernelVars,
         ReceivePcb \/ ReceiveInterruption \/ CpuCycle,
         cycle # "cpu_bussy", cycle' # "cpu_bussy", NEW S, Carried(S)
  PROVE  Rested(S)
  <1>1. UNCHANGED <<hand, queue, memory_exit_q, at>>
    BY DEF kernelVars, departures
  <1>2. UNCHANGED <<InReady(S), Queued(S), InIo(S), Leaving(S)>>
    BY <1>1, GroupsSame
  <1>3. Inside(S)' = Inside(S) + 0
    BY Cpu_Moves DEF Moved
  <1>4. InExec(S)' = InExec(S)
    <2>1. /\ InExec(S)' \in Nat /\ InExec(S) \in Nat /\ InReady(S) \in Nat
          /\ Queued(S) \in Nat
      BY GroupCounts, PartNumbersAfter DEF PartCounts
    <2>2. /\ Inside(S)' = InReady(S)' + InExec(S)' + Queued(S)'
          /\ Inside(S) = InReady(S) + InExec(S) + Queued(S)
      BY DEF Inside
    <2>. QED BY <1>2, <1>3, <2>1, <2>2
  <1>5. InIoAdmitted(S)' = InIoAdmitted(S) /\ InIoOutside(S)' = InIoOutside(S)
    BY <1>1, <1>2 DEF InIoAdmitted, InIoOutside
  <1>. QED BY <1>1, <1>2, <1>4, <1>5, LivingIs, LivingWillBe DEF Rested, LiveStages

\* to_exec: a ready process is dispatched.
LEMMA ToExec_Dispatch_Stages ==
  ASSUME SystemInv, SystemInv', UNCHANGED cpuVars, ToExec_Dispatch, NEW S
  PROVE  Passed(S, "ready", "exec", One(Head(queue["ready_q"]) \in S))
  <1> DEFINE s == queue["ready_q"]
             d == One(Head(s) \in S)
  <1>0. queue \in [Queues -> Seq(Pcb)] /\ s \in Seq(Pcb) /\ at \in [Threads -> Locations]
    BY PlaceTypes DEF Queues
  <1>1. /\ s # <<>> /\ queue' = [queue EXCEPT !["ready_q"] = Tail(s)]
        /\ UNCHANGED <<hand, memory_exit_q>>
        /\ at' = [at EXCEPT !["to_exec"] = "ready_for_exec"]
    BY DEF ToExec_Dispatch, departures
  <1>2. /\ queue'["ready_q"] = Tail(s)
        /\ UNCHANGED <<queue["new_q"], queue["blocked_q"], queue["exit_q"],
                       queue["suspended_block_q"], queue["suspended_ready_q"]>>
    BY <1>0, <1>1 DEF Queues
  <1>3. at'["io_listener"] = at["io_listener"]
    BY <1>0, <1>1 DEF Threads, Holders, Planners
  <1>4. Count(queue["ready_q"], S) = Count(queue["ready_q"], S)' + d /\ d \in Nat
    BY <1>0, <1>1, <1>2, CountTail DEF One
  <1>5. Count(Held("to_ready"), S)' = Count(Held("to_ready"), S)
    BY <1>1 DEF Held
  <1>6. UNCHANGED <<Queued(S), InIo(S), Leaving(S)>>
    BY <1>1, <1>2, GroupsSame
  <1>7. /\ Count(queue["ready_q"], S)' \in Nat /\ Count(queue["ready_q"], S) \in Nat
        /\ Count(Held("to_ready"), S) \in Nat /\ InExec(S)' \in Nat /\ InExec(S) \in Nat
        /\ Queued(S) \in Nat /\ InReady(S) \in Nat /\ Leaving(S) \in Nat
    BY GroupCounts, PlaceCounts, PartNumbersAfter DEF PartCounts
  <1>8. Inside(S)' = Inside(S) + 0
    BY ToExec_Dispatch_Moves DEF Moved
  <1> HIDE DEF d
  <1>9. InReady(S)' = InReady(S) + (-d)
    BY <1>4, <1>5, <1>7 DEF InReady
  <1>10. InExec(S)' = InExec(S) + d
    <2>1. /\ Inside(S)' = InReady(S)' + InExec(S)' + Queued(S)'
          /\ Inside(S) = InReady(S) + InExec(S) + Queued(S)
      BY DEF Inside
    <2>. QED BY <1>4, <1>6, <1>7, <1>8, <1>9, <2>1
  <1>11. /\ InIoAdmitted(S)' = InIoAdmitted(S) + 0 /\ InIoOutside(S)' = InIoOutside(S) + 0
         /\ Leaving(S)' = Leaving(S) + 0
    BY <1>3, <1>6, <1>7, IoParts
  <1>12. /\ Count(queue["new_q"], S)' = Count(queue["new_q"], S) + 0
         /\ Count(queue["blocked_q"], S)' = Count(queue["blocked_q"], S) + 0
         /\ Count(queue["exit_q"], S)' = Count(queue["exit_q"], S) + 0
         /\ Count(queue["suspended_block_q"], S)' = Count(queue["suspended_block_q"], S) + 0
         /\ Count(queue["suspended_ready_q"], S)' = Count(queue["suspended_ready_q"], S) + 0
    BY <1>2, QueueSame
  <1>13. d \in Int /\ -d \in Int
    BY <1>4
  <1>14. /\ Living("new", S)' = Living("new", S) + 0
         /\ Living("ready", S)' = Living("ready", S) + (-d)
         /\ Living("exec", S)' = Living("exec", S) + d
         /\ Living("blocked", S)' = Living("blocked", S) + (0 + 0)
         /\ Living("suspended_blocked", S)' = Living("suspended_blocked", S) + (0 + 0)
         /\ Living("suspended_ready", S)' = Living("suspended_ready", S) + 0
         /\ Living("exit", S)' = Living("exit", S) + (0 + 0)
    BY <1>9, <1>10, <1>11, <1>12, <1>13, PartsPass
  <1>15. \A x \in LiveStages : Living(x, S) \in Nat
    BY LivingTotal
  <1>16. Passed(S, "ready", "exec", d)
    BY <1>4, <1>14, <1>15 DEF Passed, LiveStages
  <1>. QED BY <1>16 DEF d

\* cpu_dispatch_listener: the process that the CPU returned is blocked, has ended or is
\* ready again.
LEMMA CpuDispatchListener_Stages ==
  ASSUME SystemInv, SystemInv', UNCHANGED cpuVars, NEW S, Carried(S), CpuDispatchListener
  PROVE  LET d == One(Head(returns).pcb \in S) IN
         /\ IoOp => Passed(S, "exec", "blocked", d)
         /\ ExitOp => Passed(S, "exec", "exit", d)
         /\ HandleInterruption => Passed(S, "exec", "ready", d)
  <1> DEFINE d == One(Head(returns).pcb \in S)
  <1>0. queue \in [Queues -> Seq(Pcb)]
    BY PlaceTypes
  <1>1. /\ returns # <<>> /\ returns' = Tail(returns)
        /\ UNCHANGED <<hand, at, dispatch, cpu_pcb, pcb_loaded, cpu_bussy, memory_exit_q>>
    BY DEF CpuDispatchListener, IoOp, ExitOp, HandleInterruption, Returned, departures, cpuVars
  <1>2. d \in Nat /\ d \in Int /\ -d \in Int
    BY DEF One
  <1>3. InExec(S)' = InExec(S) + (-d)
    <2>1. Count(Returning, S) = Count(Returning, S)' + d
      BY <1>1, ReturningTake
    <2>2. UNCHANGED <<dispatch, InCpu>>
      BY <1>1 DEF InCpu
    <2>3. /\ Count(Returning, S)' \in Nat /\ Count(Returning, S) \in Nat
          /\ Count(dispatch, S) \in Nat /\ Count(InCpu, S) \in Nat
      BY PlaceCounts, PartNumbersAfter DEF PartCounts
    <2>4. UNCHANGED <<Count(dispatch, S), Count(InCpu, S)>>
      BY <2>2
    <2> HIDE DEF d
    <2>. QED BY <1>2, <2>1, <2>3, <2>4 DEF InExec
  <1> HIDE DEF d
  <1>4. Moved(S, 0, 0, 0, 0)
    BY CpuDispatchListener_Moves
  <1>5. /\ InReady(S)' \in Nat /\ InReady(S) \in Nat /\ InExec(S)' \in Nat /\ InExec(S) \in Nat
        /\ Count(queue["blocked_q"], S)' \in Nat /\ Count(queue["blocked_q"], S) \in Nat
        /\ Count(queue["exit_q"], S)' \in Nat /\ Count(queue["exit_q"], S) \in Nat
    BY PlaceCounts, GroupCounts, PartNumbersAfter DEF PartCounts
  <1>6. InReady(S)' + Count(queue["blocked_q"], S)' + Count(queue["exit_q"], S)'
          = InReady(S) + Count(queue["blocked_q"], S) + Count(queue["exit_q"], S) + d
    <2>1. Inside(S)' = Inside(S) + 0
      BY <1>4 DEF Moved
    <2>2. /\ Inside(S)' = InReady(S)' + InExec(S)'
                            + (Count(queue["blocked_q"], S)' + Count(queue["exit_q"], S)')
          /\ Inside(S) = InReady(S) + InExec(S)
                           + (Count(queue["blocked_q"], S) + Count(queue["exit_q"], S))
      BY DEF Inside, Queued
    <2>. QED BY <1>2, <1>3, <1>5, <2>1, <2>2
  <1>7. /\ InIoAdmitted(S)' = InIoAdmitted(S) + 0 /\ InIoOutside(S)' = InIoOutside(S) + 0
        /\ Leaving(S)' = Leaving(S) + 0
    <2>1. InIo(S)' = InIo(S)
      BY <1>1, GroupsSame
    <2>. QED BY <1>1, <1>4, <2>1, IoParts DEF Moved
  <1>8. \A x \in LiveStages : Living(x, S) \in Nat
    BY LivingTotal
  <1>9. ASSUME IoOp PROVE Passed(S, "exec", "blocked", d)
    <2>1. \E r : queue' = [queue EXCEPT !["blocked_q"] = r]
      BY <1>9 DEF IoOp
    <2>2. UNCHANGED <<queue["new_q"], queue["ready_q"], queue["exit_q"],
                      queue["suspended_block_q"], queue["suspended_ready_q"]>>
      BY <1>0, <2>1 DEF Queues
    <2>3. /\ InReady(S)' = InReady(S) + 0
          /\ Count(queue["exit_q"], S)' = Count(queue["exit_q"], S) + 0
      BY <1>1, <1>5, <2>2, GroupsSame, QueueSame
    <2>4. Count(queue["blocked_q"], S)' = Count(queue["blocked_q"], S) + d
      BY <1>2, <1>5, <1>6, <2>3
    <2>5. /\ Count(queue["new_q"], S)' = Count(queue["new_q"], S) + 0
          /\ Count(queue["suspended_block_q"], S)' = Count(queue["suspended_block_q"], S) + 0
          /\ Count(queue["suspended_ready_q"], S)' = Count(queue["suspended_ready_q"], S) + 0
      BY <2>2, QueueSame
    <2>6. /\ Living("new", S)' = Living("new", S) + 0
          /\ Living("ready", S)' = Living("ready", S) + 0
          /\ Living("exec", S)' = Living("exec", S) + (-d)
          /\ Living("blocked", S)' = Living("blocked", S) + (d + 0)
          /\ Living("suspended_blocked", S)' = Living("suspended_blocked", S) + (0 + 0)
          /\ Living("suspended_ready", S)' = Living("suspended_ready", S) + 0
          /\ Living("exit", S)' = Living("exit", S) + (0 + 0)
      BY <1>2, <1>3, <1>7, <2>3, <2>4, <2>5, PartsPass
    <2>. QED BY <1>2, <1>8, <2>6 DEF Passed, LiveStages
  <1>10. ASSUME ExitOp PROVE Passed(S, "exec", "exit", d)
    <2>1. \E r : queue' = [queue EXCEPT !["exit_q"] = r]
      BY <1>10 DEF ExitOp
    <2>2. UNCHANGED <<queue["new_q"], queue["ready_q"], queue["blocked_q"],
                      queue["suspended_block_q"], queue["suspended_ready_q"]>>
      BY <1>0, <2>1 DEF Queues
    <2>3. /\ InReady(S)' = InReady(S) + 0
          /\ Count(queue["blocked_q"], S)' = Count(queue["blocked_q"], S) + 0
      BY <1>1, <1>5, <2>2, GroupsSame, QueueSame
    <2>4. Count(queue["exit_q"], S)' = Count(queue["exit_q"], S) + d
      BY <1>2, <1>5, <1>6, <2>3
    <2>5. /\ Count(queue["new_q"], S)' = Count(queue["new_q"], S) + 0
          /\ Count(queue["suspended_block_q"], S)' = Count(queue["suspended_block_q"], S) + 0
          /\ Count(queue["suspended_ready_q"], S)' = Count(queue["suspended_ready_q"], S) + 0
      BY <2>2, QueueSame
    <2>6. /\ Living("new", S)' = Living("new", S) + 0
          /\ Living("ready", S)' = Living("ready", S) + 0
          /\ Living("exec", S)' = Living("exec", S) + (-d)
          /\ Living("blocked", S)' = Living("blocked", S) + (0 + 0)
          /\ Living("suspended_blocked", S)' = Living("suspended_blocked", S) + (0 + 0)
          /\ Living("suspended_ready", S)' = Living("suspended_ready", S) + 0
          /\ Living("exit", S)' = Living("exit", S) + (d + 0)
      BY <1>2, <1>3, <1>7, <2>3, <2>4, <2>5, PartsPass
    <2>. QED BY <1>2, <1>8, <2>6 DEF Passed, LiveStages
  <1>11. ASSUME HandleInterruption PROVE Passed(S, "exec", "ready", d)
    <2>1. \E r : queue' = [queue EXCEPT !["ready_q"] = r]
      BY <1>11 DEF HandleInterruption
    <2>2. UNCHANGED <<queue["new_q"], queue["exit_q"], queue["blocked_q"],
                      queue["suspended_block_q"], queue["suspended_ready_q"]>>
      BY <1>0, <2>1 DEF Queues
    <2>3. /\ Count(queue["exit_q"], S)' = Count(queue["exit_q"], S) + 0
          /\ Count(queue["blocked_q"], S)' = Count(queue["blocked_q"], S) + 0
      BY <1>1, <2>2, QueueSame
    <2>4. InReady(S)' = InReady(S) + d
      BY <1>2, <1>5, <1>6, <2>3
    <2>5. /\ Count(queue["new_q"], S)' = Count(queue["new_q"], S) + 0
          /\ Count(queue["suspended_block_q"], S)' = Count(queue["suspended_block_q"], S) + 0
          /\ Count(queue["suspended_ready_q"], S)' = Count(queue["suspended_ready_q"], S) + 0
      BY <2>2, QueueSame
    <2>6. /\ Living("new", S)' = Living("new", S) + 0
          /\ Living("ready", S)' = Living("ready", S) + d
          /\ Living("exec", S)' = Living("exec", S) + (-d)
          /\ Living("blocked", S)' = Living("blocked", S) + (0 + 0)
          /\ Living("suspended_blocked", S)' = Living("suspended_blocked", S) + (0 + 0)
          /\ Living("suspended_ready", S)' = Living("suspended_ready", S) + 0
          /\ Living("exit", S)' = Living("exit", S) + (0 + 0)
      BY <1>2, <1>3, <1>7, <2>3, <2>4, <2>5, PartsPass
    <2>. QED BY <1>2, <1>8, <2>6 DEF Passed, LiveStages
  <1>. QED BY <1>9, <1>10, <1>11 DEF d

\* to_ready: a process comes into memory, from new_q only when none is suspended and ready.
LEMMA ToReady_Admit_Stages ==
  ASSUME SystemInv, SystemInv', HandsEmpty, UNCHANGED cpuVars, ToReady_Admit, NEW S, Carried(S)
  PROVE  LET d == One(hand'["to_ready"] \in S) IN
         /\ queue["suspended_ready_q"] # <<>> => Passed(S, "suspended_ready", "ready", d)
         /\ queue["suspended_ready_q"] = <<>> => Passed(S, "new", "ready", d)
  <1> DEFINE d == One(hand'["to_ready"] \in S)
  <1>0. /\ queue \in [Queues -> Seq(Pcb)] /\ at \in [Threads -> Locations]
        /\ hand \in [Holders -> Pcb \cup {NoPcb}] /\ hand'["to_ready"] \in Pcb
    BY PlaceTypes, ToReady_Admit_Moves
  <1>1. /\ at["to_ready"] = "sem_multiprogram"
        /\ UNCHANGED <<dispatch, returns, cpu_pcb, pcb_loaded, cpu_bussy, memory_exit_q>>
        /\ \E l : at' = [at EXCEPT !["to_ready"] = l]
    BY DEF ToReady_Admit, Admit, departures, cpuVars, socketVars
  <1>2. /\ queue["suspended_ready_q"] # <<>> =>
             \E r : queue' = [queue EXCEPT !["suspended_ready_q"] = r]
        /\ queue["suspended_ready_q"] = <<>> => \E r : queue' = [queue EXCEPT !["new_q"] = r]
    <2>1. hand["to_ready"] = NoPcb
      BY <1>0, <1>1 DEF HandsEmpty, HoldingPoints, Planners
    <2>2. hand' # hand
      BY <1>0, <2>1, NoPcbAssumption
    <2>. QED BY <2>2 DEF ToReady_Admit, Admit
  <1>3. at'["io_listener"] = at["io_listener"]
    BY <1>0, <1>1 DEF Threads, Holders, Planners
  <1>4. d \in Nat /\ d \in Int /\ -d \in Int
    BY DEF One
  <1>5. Moved(S, d, 0, 0, -d)
    BY ToReady_Admit_Moves
  <1> HIDE DEF d
  <1>6. /\ UNCHANGED <<queue["ready_q"], queue["blocked_q"], queue["exit_q"],
                       queue["suspended_block_q"]>>
        /\ queue["suspended_ready_q"] # <<>> => UNCHANGED queue["new_q"]
        /\ queue["suspended_ready_q"] = <<>> => UNCHANGED queue["suspended_ready_q"]
    BY <1>0, <1>2 DEF Queues
  <1>7. InExec(S)' = InExec(S) /\ Queued(S)' = Queued(S)
    BY <1>1, <1>6, GroupsSame
  <1>8. /\ InReady(S)' \in Nat /\ InReady(S) \in Nat /\ InExec(S) \in Nat /\ Queued(S) \in Nat
        /\ InIo(S) \in Nat /\ Leaving(S) \in Nat
        /\ Count(queue["new_q"], S)' \in Nat /\ Count(queue["new_q"], S) \in Nat
        /\ Count(queue["suspended_block_q"], S) \in Nat
        /\ Count(queue["suspended_ready_q"], S)' \in Nat
        /\ Count(queue["suspended_ready_q"], S) \in Nat
    BY PlaceCounts, GroupCounts, PartNumbersAfter DEF PartCounts
  <1>9. InReady(S)' = InReady(S) + d
    <2>1. /\ Inside(S)' = InReady(S)' + InExec(S)' + Queued(S)'
          /\ Inside(S) = InReady(S) + InExec(S) + Queued(S)
          /\ Inside(S)' = Inside(S) + d
      BY <1>5 DEF Inside, Moved
    <2>. QED BY <1>4, <1>7, <1>8, <2>1
  <1>10. /\ InIoAdmitted(S)' = InIoAdmitted(S) + 0 /\ InIoOutside(S)' = InIoOutside(S) + 0
         /\ Leaving(S)' = Leaving(S) + 0 /\ InExec(S)' = InExec(S) + 0
    <2>1. InIo(S)' = InIo(S) + 0 /\ Leaving(S)' = Leaving(S) + 0
      BY <1>5 DEF Moved
    <2>2. InIo(S)' = InIo(S)
      BY <1>8, <2>1
    <2>. QED BY <1>3, <1>7, <1>8, <2>1, <2>2, IoParts
  <1>11. /\ Count(queue["blocked_q"], S)' = Count(queue["blocked_q"], S) + 0
         /\ Count(queue["exit_q"], S)' = Count(queue["exit_q"], S) + 0
         /\ Count(queue["suspended_block_q"], S)' = Count(queue["suspended_block_q"], S) + 0
    BY <1>6, QueueSame
  <1>12. Count(queue["new_q"], S)' + Count(queue["suspended_ready_q"], S)'
           = Count(queue["new_q"], S) + Count(queue["suspended_ready_q"], S) + (-d)
    <2>1. /\ Outside(S)' = Count(queue["new_q"], S)' + Count(queue["suspended_block_q"], S)'
                             + Count(queue["suspended_ready_q"], S)'
          /\ Outside(S) = Count(queue["new_q"], S) + Count(queue["suspended_block_q"], S)
                            + Count(queue["suspended_ready_q"], S)
          /\ Outside(S)' = Outside(S) + (-d)
      BY <1>5 DEF Outside, Moved
    <2>. QED BY <1>4, <1>8, <1>11, <2>1
  <1>13. \A x \in LiveStages : Living(x, S) \in Nat
    BY LivingTotal
  <1>14. ASSUME queue["suspended_ready_q"] # <<>>
         PROVE  Passed(S, "suspended_ready", "ready", d)
    <2>1. Count(queue["new_q"], S)' = Count(queue["new_q"], S) + 0
      BY <1>6, <1>14, QueueSame
    <2>2. Count(queue["suspended_ready_q"], S)' = Count(queue["suspended_ready_q"], S) + (-d)
      <3>1. PICK n \in Nat, m \in Nat, r \in Nat :
              /\ n = Count(queue["new_q"], S) /\ m = Count(queue["suspended_ready_q"], S)
              /\ r = Count(queue["suspended_ready_q"], S)'
        BY <1>8
      <3>2. n + r = n + m + (-d)
        BY <1>12, <2>1, <3>1
      <3>3. r = m + (-d)
        BY <1>4, <3>2
      <3>. QED BY <3>1, <3>3
    <2>3. /\ Living("new", S)' = Living("new", S) + 0
          /\ Living("ready", S)' = Living("ready", S) + d
          /\ Living("exec", S)' = Living("exec", S) + 0
          /\ Living("blocked", S)' = Living("blocked", S) + (0 + 0)
          /\ Living("suspended_blocked", S)' = Living("suspended_blocked", S) + (0 + 0)
          /\ Living("suspended_ready", S)' = Living("suspended_ready", S) + (-d)
          /\ Living("exit", S)' = Living("exit", S) + (0 + 0)
      BY <1>4, <1>9, <1>10, <1>11, <2>1, <2>2, PartsPass
    <2>. QED BY <1>4, <1>13, <2>3 DEF Passed, LiveStages
  <1>15. ASSUME queue["suspended_ready_q"] = <<>>
         PROVE  Passed(S, "new", "ready", d)
    <2>1. Count(queue["suspended_ready_q"], S)' = Count(queue["suspended_ready_q"], S) + 0
      BY <1>6, <1>15, QueueSame
    <2>2. Count(queue["new_q"], S)' = Count(queue["new_q"], S) + (-d)
      <3>1. PICK n \in Nat, m \in Nat, r \in Nat :
              /\ n = Count(queue["new_q"], S) /\ m = Count(queue["suspended_ready_q"], S)
              /\ r = Count(queue["new_q"], S)'
        BY <1>8
      <3>2. r + m = n + m + (-d)
        BY <1>12, <2>1, <3>1
      <3>3. r = n + (-d)
        BY <1>4, <3>2
      <3>. QED BY <3>1, <3>3
    <2>3. /\ Living("new", S)' = Living("new", S) + (-d)
          /\ Living("ready", S)' = Living("ready", S) + d
          /\ Living("exec", S)' = Living("exec", S) + 0
          /\ Living("blocked", S)' = Living("blocked", S) + (0 + 0)
          /\ Living("suspended_blocked", S)' = Living("suspended_blocked", S) + (0 + 0)
          /\ Living("suspended_ready", S)' = Living("suspended_ready", S) + 0
          /\ Living("exit", S)' = Living("exit", S) + (0 + 0)
      BY <1>4, <1>9, <1>10, <1>11, <2>1, <2>2, PartsPass
    <2>. QED BY <1>4, <1>13, <2>3 DEF Passed, LiveStages
  <1>. QED BY <1>14, <1>15 DEF d

\* io_listener takes a process whose I/O it is to do: it is blocked, or suspended and
\* blocked, as before.
LEMMA IoListener_Take_Stages ==
  ASSUME SystemInv, SystemInv', HandsEmpty, UNCHANGED cpuVars,
         IoListener_Fits \/ IoListener_Exceeds \/ IoListener_Suspended, NEW S, Carried(S)
  PROVE  Rested(S)
  <1>0. /\ queue \in [Queues -> Seq(Pcb)] /\ at \in [Threads -> Locations]
        /\ hand \in [Holders -> Pcb \cup {NoPcb}] /\ "io_listener" \in Holders
    BY PlaceTypes DEF Holders, Planners
  <1>1. PICK q \in {"blocked_q", "suspended_block_q"}, l \in Locations :
          /\ IoListener_Take(q, l)
          /\ q = "suspended_block_q" <=> l = "suspended_ready_q"
    BY DEF IoListener_Fits, IoListener_Exceeds, IoListener_Suspended, Locations
  <1> DEFINE d == One(hand'["io_listener"] \in S)
  <1>2. /\ at["io_listener"] = "process_for_IO" /\ at' = [at EXCEPT !["io_listener"] = l]
        /\ UNCHANGED <<dispatch, returns, cpu_pcb, pcb_loaded, cpu_bussy, memory_exit_q>>
        /\ \E r : queue' = [queue EXCEPT ![q] = r]
        /\ \E p : hand' = [hand EXCEPT !["io_listener"] = p]
    BY <1>1 DEF IoListener_Take, departures, cpuVars, socketVars
  <1>3. at'["io_listener"] = l
    BY <1>0, <1>2 DEF Threads, Holders, Planners
  <1>4. /\ UNCHANGED <<queue["ready_q"], queue["exit_q"], queue["new_q"],
                       queue["suspended_ready_q"]>>
        /\ q = "blocked_q" => UNCHANGED queue["suspended_block_q"]
        /\ q = "suspended_block_q" => UNCHANGED queue["blocked_q"]
    BY <1>0, <1>2 DEF Queues
  <1>5. hand'["to_ready"] = hand["to_ready"] /\ hand'["exit_process"] = hand["exit_process"]
    BY <1>0, <1>2 DEF Holders, Planners
  <1>6. UNCHANGED <<InReady(S), InExec(S), Leaving(S)>>
    BY <1>2, <1>4, <1>5, GroupsSame
  <1>7. InIo(S) = 0
    <2>1. hand["io_listener"] = NoPcb
      BY <1>0, <1>2 DEF HandsEmpty, HoldingPoints, Planners
    <2>. QED BY <1>0, <2>1, Hands DEF InIo
  <1>8. d \in Nat
    BY DEF One
  <1>9. /\ q = "blocked_q" => Moved(S, -d, d, 0, 0)
        /\ q = "suspended_block_q" => Moved(S, 0, d, 0, -d)
    BY <1>1, IoListener_Take_Moves
  <1> HIDE DEF d
  <1>10. /\ Count(queue["blocked_q"], S)' \in Nat /\ Count(queue["blocked_q"], S) \in Nat
         /\ Count(queue["suspended_block_q"], S)' \in Nat
         /\ Count(queue["suspended_block_q"], S) \in Nat
         /\ Count(queue["suspended_ready_q"], S) \in Nat /\ Count(queue["new_q"], S) \in Nat
         /\ Count(queue["exit_q"], S) \in Nat
         /\ InReady(S) \in Nat /\ InExec(S) \in Nat
    BY PlaceCounts, GroupCounts, PartNumbersAfter DEF PartCounts
  <1>11. InIo(S)' = d
    <2>1. InIo(S)' = InIo(S) + d
      BY <1>9 DEF Moved
    <2>. QED BY <1>7, <1>8, <2>1
  <1>12. CASE q = "blocked_q"
    <2>1. /\ Inside(S)' = InReady(S)' + InExec(S)'
                            + (Count(queue["blocked_q"], S)' + Count(queue["exit_q"], S)')
          /\ Inside(S) = InReady(S) + InExec(S)
                           + (Count(queue["blocked_q"], S) + Count(queue["exit_q"], S))
          /\ Inside(S)' = Inside(S) + (-d)
      BY <1>9, <1>12 DEF Inside, Queued, Moved
    <2>2. Count(queue["exit_q"], S)' = Count(queue["exit_q"], S)
      BY <1>4
    <2>3. Count(queue["blocked_q"], S)' + d = Count(queue["blocked_q"], S)
      BY <1>6, <1>8, <1>10, <2>1, <2>2
    <2>4. /\ InIoAdmitted(S)' = d /\ InIoAdmitted(S) = 0
          /\ InIoOutside(S)' = 0 /\ InIoOutside(S) = 0
      BY <1>1, <1>2, <1>3, <1>7, <1>11, <1>12 DEF InIoAdmitted, InIoOutside
    <2>5. Living("blocked", S)' = Living("blocked", S)
      BY <1>10, <2>3, <2>4, LivingIs, LivingWillBe
    <2>6. Living("suspended_blocked", S)' = Living("suspended_blocked", S)
      BY <1>4, <1>12, <2>4, LivingIs, LivingWillBe
    <2>. QED BY <1>4, <1>6, <2>5, <2>6, LivingIs, LivingWillBe DEF Rested, LiveStages
  <1>13. CASE q = "suspended_block_q"
    <2>1. /\ Outside(S)' = Count(queue["new_q"], S)' + Count(queue["suspended_block_q"], S)'
                             + Count(queue["suspended_ready_q"], S)'
          /\ Outside(S) = Count(queue["new_q"], S) + Count(queue["suspended_block_q"], S)
                            + Count(queue["suspended_ready_q"], S)
          /\ Outside(S)' = Outside(S) + (-d)
      BY <1>9, <1>13 DEF Outside, Moved
    <2>2. UNCHANGED <<Count(queue["new_q"], S), Count(queue["suspended_ready_q"], S)>>
      BY <1>4
    <2>3. Count(queue["suspended_block_q"], S)' + d = Count(queue["suspended_block_q"], S)
      BY <1>8, <1>10, <2>1, <2>2
    <2>4. /\ InIoAdmitted(S)' = 0 /\ InIoAdmitted(S) = 0
          /\ InIoOutside(S)' = d /\ InIoOutside(S) = 0
      BY <1>1, <1>2, <1>3, <1>7, <1>11, <1>13 DEF InIoAdmitted, InIoOutside
    <2>5. Living("blocked", S)' = Living("blocked", S)
      BY <1>4, <1>13, <2>4, LivingIs, LivingWillBe
    <2>6. Living("suspended_blocked", S)' = Living("suspended_blocked", S)
      BY <1>10, <2>3, <2>4, LivingIs, LivingWillBe
    <2>. QED BY <1>4, <1>6, <2>5, <2>6, LivingIs, LivingWillBe DEF Rested, LiveStages
  <1>. QED BY <1>12, <1>13

\* io_listener puts away the process it holds: suspended, or with its I/O done.
LEMMA IoListener_Put_Stages ==
  ASSUME SystemInv, SystemInv', UNCHANGED cpuVars, IoListener_Wait \/ IoListener_Finish,
         NEW S, Carried(S)
  PROVE  LET d == One(hand["io_listener"] \in S) IN
         /\ IoListener_Wait => Passed(S, "blocked", "suspended_blocked", d)
         /\ IoListener_Finish => Passed(S, "suspended_blocked", "suspended_ready", d)
  <1> DEFINE p == hand["io_listener"]
             d == One(p \in S)
  <1>0. /\ queue \in [Queues -> Seq(Pcb)] /\ at \in [Threads -> Locations]
        /\ hand \in [Holders -> Pcb \cup {NoPcb}] /\ "io_listener" \in Holders /\ p \in Pcb
    BY PlaceTypes, IoListener_Put_Moves DEF Holders, Planners
  <1>1. /\ hand' = [hand EXCEPT !["io_listener"] = NoPcb]
        /\ at' = [at EXCEPT !["io_listener"] = "process_for_IO"]
        /\ UNCHANGED <<dispatch, returns, cpu_pcb, pcb_loaded, cpu_bussy, memory_exit_q>>
    BY DEF IoListener_Wait, IoListener_Finish, departures, cpuVars, socketVars
  <1>2. /\ hand'["io_listener"] = NoPcb /\ hand'["to_ready"] = hand["to_ready"]
        /\ hand'["exit_process"] = hand["exit_process"]
        /\ at'["io_listener"] = "process_for_IO"
    BY <1>0, <1>1 DEF Holders, Planners, Threads
  <1>3. PICK q \in {"suspended_block_q", "suspended_ready_q"} :
          /\ queue' = [queue EXCEPT ![q] = Append(@, p)]
          /\ IoListener_Wait <=> q = "suspended_block_q"
          /\ IoListener_Finish <=> q = "suspended_ready_q"
          /\ at["io_listener"] = "suspended_ready_q" <=> q = "suspended_ready_q"
    BY DEF IoListener_Wait, IoListener_Finish
  <1>4. /\ queue'[q] = Append(queue[q], p) /\ queue[q] \in Seq(Pcb)
        /\ UNCHANGED <<queue["ready_q"], queue["blocked_q"], queue["exit_q"], queue["new_q"]>>
        /\ q = "suspended_block_q" => UNCHANGED queue["suspended_ready_q"]
        /\ q = "suspended_ready_q" => UNCHANGED queue["suspended_block_q"]
    BY <1>0, <1>3 DEF Queues
  <1>5. Count(queue'[q], S) = Count(queue[q], S) + d
    BY <1>0, <1>4, CountAppend
  <1>6. InIo(S) = d /\ InIo(S)' = 0 /\ d \in Nat
    BY <1>0, <1>2, Hands DEF InIo, One
  <1>7. UNCHANGED <<InReady(S), InExec(S), Leaving(S)>>
    BY <1>1, <1>2, <1>4, GroupsSame
  <1>8. /\ Count(queue["blocked_q"], S) \in Nat /\ Count(queue["suspended_block_q"], S) \in Nat
        /\ Count(queue["suspended_ready_q"], S) \in Nat
    BY PlaceCounts
  <1>9. InIoAdmitted(S)' = 0 /\ InIoOutside(S)' = 0
    BY <1>2, <1>6 DEF InIoAdmitted, InIoOutside
  <1> HIDE DEF d, p
  <1>10. /\ Living("new", S)' = Living("new", S) /\ Living("ready", S)' = Living("ready", S)
         /\ Living("exec", S)' = Living("exec", S) /\ Living("exit", S)' = Living("exit", S)
    BY <1>4, <1>7, LivingIs, LivingWillBe
  <1>11. \A x \in LiveStages : Living(x, S) \in Nat
    BY LivingTotal
  <1>12. CASE q = "suspended_block_q"
    <2>1. /\ InIoAdmitted(S) = d /\ InIoOutside(S) = 0
          /\ Count(queue["suspended_block_q"], S)' = Count(queue["suspended_block_q"], S) + d
          /\ Count(queue["blocked_q"], S)' = Count(queue["blocked_q"], S)
          /\ Count(queue["suspended_ready_q"], S)' = Count(queue["suspended_ready_q"], S)
      BY <1>3, <1>4, <1>5, <1>6, <1>12 DEF InIoAdmitted, InIoOutside
    <2>2. /\ Living("blocked", S)' = Living("blocked", S) - d
          /\ Living("suspended_blocked", S)' = Living("suspended_blocked", S) + d
          /\ Living("suspended_ready", S)' = Living("suspended_ready", S)
      BY <1>6, <1>8, <1>9, <2>1, LivingIs, LivingWillBe
    <2>3. Passed(S, "blocked", "suspended_blocked", d)
      BY <1>6, <1>10, <1>11, <2>2 DEF Passed, LiveStages
    <2>. QED BY <1>3, <1>12, <2>3 DEF d, p
  <1>13. CASE q = "suspended_ready_q"
    <2>1. /\ InIoAdmitted(S) = 0 /\ InIoOutside(S) = d
          /\ Count(queue["suspended_ready_q"], S)' = Count(queue["suspended_ready_q"], S) + d
          /\ Count(queue["blocked_q"], S)' = Count(queue["blocked_q"], S)
          /\ Count(queue["suspended_block_q"], S)' = Count(queue["suspended_block_q"], S)
      BY <1>3, <1>4, <1>5, <1>6, <1>13 DEF InIoAdmitted, InIoOutside
    <2>2. /\ Living("blocked", S)' = Living("blocked", S)
          /\ Living("suspended_blocked", S)' = Living("suspended_blocked", S) - d
          /\ Living("suspended_ready", S)' = Living("suspended_ready", S) + d
      BY <1>6, <1>8, <1>9, <2>1, LivingIs, LivingWillBe
    <2>3. Passed(S, "suspended_blocked", "suspended_ready", d)
      BY <1>6, <1>10, <1>11, <2>2 DEF Passed, LiveStages
    <2>. QED BY <1>3, <1>13, <2>3 DEF d, p
  <1>. QED BY <1>12, <1>13

\* exit_process: a process that ended stays so while its memory is destroyed.
LEMMA ExitProcess_Stages ==
  ASSUME SystemInv, SystemInv', HandsEmpty, UNCHANGED cpuVars, ExitProcess, NEW S, Carried(S)
  PROVE  Rested(S)
  <1>0. /\ queue \in [Queues -> Seq(Pcb)] /\ at \in [Threads -> Locations]
        /\ hand \in [Holders -> Pcb \cup {NoPcb}]
    BY PlaceTypes
  <1>1. /\ UNCHANGED <<dispatch, returns, cpu_pcb, pcb_loaded, cpu_bussy>>
        /\ queue' = queue \/ \E r : queue' = [queue EXCEPT !["exit_q"] = r]
        /\ \E r : hand' = [hand EXCEPT !["exit_process"] = r]
        /\ \E l : at' = [at EXCEPT !["exit_process"] = l]
    BY DEF ExitProcess, ExitProcess_Send, ExitProcess_Put, cpuVars, socketVars
  <1>2. UNCHANGED <<queue["new_q"], queue["ready_q"], queue["blocked_q"],
                    queue["suspended_block_q"], queue["suspended_ready_q"]>>
    BY <1>0, <1>1 DEF Queues
  <1>3. /\ hand'["to_ready"] = hand["to_ready"] /\ hand'["io_listener"] = hand["io_listener"]
        /\ at'["io_listener"] = at["io_listener"]
    BY <1>0, <1>1 DEF Holders, Planners, Threads
  <1>4. UNCHANGED <<InReady(S), InExec(S), InIo(S)>>
    BY <1>1, <1>2, <1>3, GroupsSame
  <1>5. InIoAdmitted(S)' = InIoAdmitted(S) /\ InIoOutside(S)' = InIoOutside(S)
    BY <1>3, <1>4 DEF InIoAdmitted, InIoOutside
  <1>6. PICK d \in Int : Inside(S)' = Inside(S) - d /\ Leaving(S)' = Leaving(S) + d
    <2>1. CASE ExitProcess_Send
      <3> DEFINE d == One(hand'["exit_process"] \in S)
      <3>1. Moved(S, -d, 0, d, 0)
        BY <2>1, ExitProcess_Send_Moves
      <3>2. d \in Int
        BY DEF One
      <3> HIDE DEF d
      <3>3. Inside(S)' = Inside(S) - d /\ Leaving(S)' = Leaving(S) + d
        BY <3>1, <3>2, GroupCounts DEF Moved
      <3>. QED BY <3>2, <3>3
    <2>2. CASE ExitProcess_Put
      <3>1. Moved(S, 0, 0, 0, 0)
        BY <2>2, ExitProcess_Put_Moves
      <3>2. Inside(S)' = Inside(S) - 0 /\ Leaving(S)' = Leaving(S) + 0
        BY <3>1, GroupCounts DEF Moved
      <3>. QED BY <3>2
    <2>. QED BY <2>1, <2>2 DEF ExitProcess
  <1>7. /\ Inside(S)' = InReady(S)' + InExec(S)'
                          + (Count(queue["blocked_q"], S)' + Count(queue["exit_q"], S)')
        /\ Inside(S) = InReady(S) + InExec(S)
                         + (Count(queue["blocked_q"], S) + Count(queue["exit_q"], S))
        /\ Inside(S)' = Inside(S) - d
        /\ Leaving(S)' = Leaving(S) + d
    BY <1>6 DEF Inside, Queued
  <1>8. /\ Count(queue["blocked_q"], S)' = Count(queue["blocked_q"], S)
        /\ Count(queue["blocked_q"], S) \in Nat /\ Count(queue["exit_q"], S) \in Nat
        /\ Count(queue["exit_q"], S)' \in Nat /\ InReady(S) \in Nat /\ InExec(S) \in Nat
        /\ Leaving(S) \in Nat
    BY <1>2, PlaceCounts, GroupCounts, PartNumbersAfter DEF PartCounts
  <1>9. Count(queue["exit_q"], S)' + d = Count(queue["exit_q"], S)
    BY <1>4, <1>6, <1>7, <1>8
  <1>10. Living("exit", S)' = Living("exit", S)
    BY <1>6, <1>7, <1>8, <1>9, LivingIs, LivingWillBe
  <1>. QED BY <1>2, <1>4, <1>5, <1>10, LivingIs, LivingWillBe DEF Rested, LiveStages

\* The steps that change none of the places.
LEMMA Kernel_Rests ==
  ASSUME SystemInv, SystemInv', UNCHANGED cpuVars, NEW S,
         \/ \E c \in Consoles : ReceiveProcess_Read(c) \/ ReceiveProcess_Write(c)
         \/ ToReady_Any \/ NewToReady_Send \/ NewToReady_Put \/ NewToReady_Ready
         \/ ToExec_Ready \/ ToExec_Cpu \/ IoListener_Suspend \/ SuspensionSuccess
  PROVE  Rested(S)
  <1>0. queue \in [Queues -> Seq(Pcb)] /\ at \in [Threads -> Locations]
    BY PlaceTypes
  <1>1. /\ UNCHANGED <<hand, dispatch, returns, cpu_pcb, pcb_loaded, cpu_bussy, memory_exit_q>>
        /\ \/ queue' = queue
           \/ queue' = [queue EXCEPT !["memory_init_q"] = Append(@, hand["to_ready"])]
    BY DEF ReceiveProcess_Read, ReceiveProcess_Write, ToReady_Any, NewToReady_Send,
       NewToReady_Put, NewToReady_Ready, ToExec_Ready, ToExec_Cpu, IoListener_Suspend,
       SuspensionSuccess, cpuVars, socketVars, departures
  <1>2. \/ at' = at
        \/ \E t \in {"to_ready", "to_exec"} : \E l : at' = [at EXCEPT ![t] = l]
        \/ /\ at["io_listener"] = "PROCESS_SUSPEND"
           /\ at' = [at EXCEPT !["io_listener"] = "waiting_for_suspension"]
    BY DEF ReceiveProcess_Read, ReceiveProcess_Write, ToReady_Any, NewToReady_Send,
       NewToReady_Put, NewToReady_Ready, ToExec_Ready, ToExec_Cpu, IoListener_Suspend,
       SuspensionSuccess
  <1>3. \A q \in Queues \ {"memory_init_q"} : queue'[q] = queue[q]
    BY <1>0, <1>1
  <1>4. at'["io_listener"] = "suspended_ready_q" <=> at["io_listener"] = "suspended_ready_q"
    BY <1>0, <1>2 DEF Threads, Holders, Planners
  <1>. QED BY <1>1, <1>3, <1>4, PlacesRest

-----------------------------------------------------------------------------
(* The two ends of a life. *)

\* A step of one process leaves the stages of the others alone.
LEMMA OneMoves ==
  ASSUME NEW c \in Consoles, NEW from, NEW to, StageOf(c) = from, StageOf(c)' = to,
         \A d \in Consoles \ {c} : StageOf(d)' = StageOf(d)
  PROVE  Stage[c] = from /\ Stage'[c] = to /\ L!Move(c, from, to)
  <1>1. Stage' = [Stage EXCEPT ![c] = to] /\ Stage[c] = from /\ Stage'[c] = to
    BY DEF Stage
  <1>. QED BY <1>1 DEF L!Move, Stage

\* receive_process: a process arrives in new_q.
LEMMA ReceiveProcess_Arrives ==
  ASSUME SystemInv, SystemInv', Placed, Placed', UNCHANGED cpuVars,
         NEW c \in Consoles, ReceiveProcess_Put(c)
  PROVE  Stage[c] = "off" /\ Stage'[c] = "new" /\ L!Move(c, "off", "new")
  <1>0. /\ pid \in Nat /\ next_pid \in [Consoles -> Nat] /\ answers \in [Consoles -> Nat]
        /\ queue \in [Queues -> Seq(Pcb)]
    BY PlaceTypes
  <1>1. /\ UNCHANGED <<answers, hand, at, dispatch, returns, cpu_pcb, pcb_loaded, cpu_bussy,
                       memory_exit_q>>
        /\ receiving[c] = "put"
    BY DEF ReceiveProcess_Put, departures, socketVars, cpuVars
  <1>2. PICK n \in Nat :
            queue' = [queue EXCEPT !["new_q"] = Append(@,
                     [client_socket |-> c, pid |-> n, program_counter |-> 0,
                      page_table |-> 0, process_frames_index |-> 0,
                      left_burst_estimation |-> InitialEstimate])]
    BY <1>0 DEF ReceiveProcess_Put
  <1> DEFINE p == [client_socket |-> c, pid |-> n, program_counter |-> 0,
                   page_table |-> 0, process_frames_index |-> 0,
                   left_burst_estimation |-> InitialEstimate]
  <1>3. p \in Pcb /\ p.client_socket = c
    BY <1>2, InitialEstimateAssumption DEF Pcb
  <1>4. /\ queue'["new_q"] = Append(queue["new_q"], p) /\ queue["new_q"] \in Seq(Pcb)
        /\ UNCHANGED <<queue["ready_q"], queue["blocked_q"], queue["exit_q"],
                       queue["suspended_block_q"], queue["suspended_ready_q"]>>
    BY <1>0, <1>2 DEF Queues
  <1> HIDE DEF p
  <1>5. ASSUME NEW S
        PROVE  /\ Living("new", S)' = Living("new", S) + One(p \in S)
               /\ \A s \in LiveStages \ {"new"} : Living(s, S)' = Living(s, S)
    <2>1. Count(queue'["new_q"], S) = Count(queue["new_q"], S) + One(p \in S)
      BY <1>3, <1>4, CountAppend
    <2>2. UNCHANGED <<InReady(S), InExec(S), InIo(S), Leaving(S)>>
      BY <1>1, <1>4, GroupsSame
    <2>3. InIoAdmitted(S)' = InIoAdmitted(S) /\ InIoOutside(S)' = InIoOutside(S)
      BY <1>1, <2>2 DEF InIoAdmitted, InIoOutside
    <2>. QED BY <1>4, <2>1, <2>2, <2>3, LivingIs, LivingWillBe DEF LiveStages
  <1>6. ASSUME NEW d \in Consoles \ {c} PROVE StageOf(d)' = StageOf(d)
    <2>1. p \notin ProcessOf(d)
      BY <1>3 DEF ProcessOf
    <2>2. Living("new", ProcessOf(d))' = Living("new", ProcessOf(d)) + 0
      BY <1>5, <2>1 DEF One
    <2>3. Living("new", ProcessOf(d)) \in Nat
      BY LivingTotal DEF LiveStages
    <2>4. Living("new", ProcessOf(d))' = Living("new", ProcessOf(d))
      BY <2>2, <2>3
    <2>5. \A s \in LiveStages : Living(s, ProcessOf(d))' = Living(s, ProcessOf(d))
      BY <1>5, <2>4
    <2>. QED BY <1>1, <2>5, SameStage
  <1>7. StageOf(c) = "off"
    <2>1. Total(ProcessOf(c)) + answers[c] = 0
      BY <1>1 DEF Placed, One
    <2>2. Total(ProcessOf(c)) \in Nat /\ answers[c] \in Nat
      BY <1>0, GroupCounts DEF Total
    <2>3. Total(ProcessOf(c)) = 0 /\ answers[c] = 0
      BY <2>1, <2>2
    <2>. QED BY <2>3, StagesAfter DEF StagesAreCounts
  <1>8. StageOf(c)' = "new"
    <2>1. p \in ProcessOf(c)
      BY <1>3 DEF ProcessOf
    <2>2. Living("new", ProcessOf(c))' = Living("new", ProcessOf(c)) + 1
      BY <1>5, <2>1 DEF One
    <2>3. Living("new", ProcessOf(c)) \in Nat /\ "new" \in LiveStages
      BY LivingTotal DEF LiveStages
    <2>4. Living("new", ProcessOf(c))' # 0
      BY <2>2, <2>3
    <2>. QED BY <2>3, <2>4, StagesAfter DEF StagesAreCounts
  <1>. QED BY <1>6, <1>7, <1>8, OneMoves

\* exit_process_success: a process that ended leaves, and its console is told.
LEMMA ExitProcessSuccess_Leaves ==
  ASSUME SystemInv, SystemInv', Numbering, HandsEmpty, Settled, Placed', UNCHANGED cpuVars,
         ExitProcessSuccess
  PROVE  \E c \in Consoles :
           Stage[c] = "exit" /\ Stage'[c] = "done" /\ L!Move(c, "exit", "done")
  <1>0. memory_exit_q \in Seq(Pcb \cup {Freed}) /\ answers \in [Consoles -> Nat] /\ Placed
    BY PlaceTypes DEF Settled
  <1> DEFINE n == Head(memory_answers).pid
  <1>1. PICK k \in DOMAIN memory_exit_q :
          /\ memory_exit_q[k] \in Pcb /\ memory_exit_q[k].pid = n /\ ExitsWithPid(n) = {k}
    BY ExitProcessSuccess_Finds DEF ExitProcessSuccess
  <1>. PICK p \in Pcb : p = memory_exit_q[k]
    BY <1>1
  <1>. PICK c \in Consoles : c = p.client_socket
    BY DEF Pcb
  <1>2. /\ AnswerConsole({k})
        /\ UNCHANGED <<queue, at, hand, dispatch, returns, cpu_pcb, pcb_loaded, cpu_bussy>>
    BY <1>1 DEF ExitProcessSuccess, cpuVars
  <1>3. c \in Consoles /\ p \in ProcessOf(c) /\ \A d \in Consoles \ {c} : p \notin ProcessOf(d)
    BY DEF ProcessOf
  <1>4. memory_exit_q' = [i \in DOMAIN memory_exit_q |-> IF i = k THEN Freed ELSE memory_exit_q[i]]
    BY <1>2 DEF AnswerConsole
  <1>5. \A d \in Consoles : answers'[d] = IF c = d THEN answers[d] + 1 ELSE answers[d]
    <2>1. k <= k
      <3>1. k \in Nat
        BY <1>0
      <3>. QED BY <3>1
    <2>. QED BY <1>2, <2>1 DEF AnswerConsole
  <1>6. ASSUME NEW d \in Consoles \ {c} PROVE StageOf(d)' = StageOf(d)
    <2>1. PICK S : S = ProcessOf(d)
      OBVIOUS
    <2>2. Freed \notin S /\ p \notin S
      BY <1>3, <2>1, FreedAssumption DEF ProcessOf
    <2>3. Count(memory_exit_q, S) = Count(memory_exit_q', S) + One(p \in S)
      BY <1>0, <1>4, <2>2, CountFreed
    <2>4. Count(memory_exit_q', S) \in Nat
      <3>1. memory_exit_q' \in Seq(Pcb \cup {Freed})
        BY DEF SystemInv, KernelInv, KernelTypeOK, DeparturesOK
      <3>. QED BY <3>1, CountType
    <2>5. Count(memory_exit_q', S) = Count(memory_exit_q, S)
      BY <2>2, <2>3, <2>4 DEF One
    <2>6. Held("exit_process")' = Held("exit_process")
      BY <1>2 DEF Held
    <2>7. UNCHANGED <<InReady(S), InExec(S), InIo(S), Leaving(S)>>
      BY <1>2, <2>5, <2>6, GroupsSame DEF Leaving
    <2>8. InIoAdmitted(S)' = InIoAdmitted(S) /\ InIoOutside(S)' = InIoOutside(S)
      BY <1>2, <2>7 DEF InIoAdmitted, InIoOutside
    <2>9. \A s \in LiveStages : Living(s, S)' = Living(s, S)
      BY <1>2, <2>7, <2>8, LivingIs, LivingWillBe DEF LiveStages
    <2>10. \A s \in LiveStages : Living(s, ProcessOf(d))' = Living(s, ProcessOf(d))
      BY <2>1, <2>9
    <2>. QED BY <1>0, <1>5, <2>10, SameStage
  <1>7. StageOf(c) = "exit"
    <2>1. Count(memory_exit_q, ProcessOf(c)) # 0
      BY <1>0, <1>3, CountMeans
    <2>2. /\ Count(memory_exit_q, ProcessOf(c)) \in Nat
          /\ Count(Held("exit_process"), ProcessOf(c)) \in Nat
          /\ Count(queue["exit_q"], ProcessOf(c)) \in Nat
      BY PlaceCounts
    <2>3. Living("exit", ProcessOf(c)) # 0
      BY <2>1, <2>2, LivingIs DEF Leaving
    <2>. QED BY <1>0, <1>3, <2>3, StageCounts DEF StagesAreCounts, LiveStages
  <1>8. StageOf(c)' = "done"
    <2>1. answers'[c] # 0
      BY <1>0, <1>3, <1>5
    <2>. QED BY <1>0, <1>3, <2>1, StagesAfter DEF StagesAreCounts
  <1>. QED BY <1>3, <1>6, <1>7, <1>8, OneMoves

-----------------------------------------------------------------------------
(* What the life cycle asks before it lets a process in or dispatches it. *)

\* A permit of sem_multiprogram is room in memory: each process in memory uses one.
LEMMA RoomInMemory ==
  ASSUME SystemInv, Settled, sem["sem_multiprogram"] > 0
  PROVE  Cardinality(L!InMemory) < MultiprogrammingLevel
  <1> DEFINE I == {i \in DOMAIN Admitted : Admitted[i] \in Pcb}
             f == [i \in I |-> Admitted[i].client_socket]
             T == {f[i] : i \in I}
             stages == {"ready", "exec", "blocked", "exit"}
  <1>0. /\ Admitted \in Seq(Pcb \cup {Freed}) /\ StagesAreCounts
        /\ sem["sem_multiprogram"] \in Nat
    <2>1. Admitted \in Seq(Pcb \cup {Freed})
      BY AdmittedCount
    <2>2. sem["sem_multiprogram"] \in Nat
      BY PlaceTypes DEF Semaphores
    <2>. QED BY <2>1, <2>2, StageCounts DEF Settled
  <1>1. L!InMemory = {c \in Consoles : StageOf(c) \in stages}
    BY DEF L!InMemory, L!In
  <1>2. ASSUME NEW c \in Consoles, StageOf(c) \in stages PROVE c \in T
    <2>1. PICK S : S = ProcessOf(c)
      OBVIOUS
    <2>2. \E s \in stages : Living(s, S) # 0
      <3>1. StageOf(c) \in LiveStages
        BY <1>2 DEF LiveStages
      <3>. QED BY <1>0, <1>2, <2>1, <3>1 DEF StagesAreCounts
    <2>3. \/ InReady(S) # 0 \/ InExec(S) # 0
          \/ Count(queue["blocked_q"], S) + InIoAdmitted(S) # 0
          \/ Count(queue["exit_q"], S) + Leaving(S) # 0
      BY <2>2, LivingIs
    <2>4. Count(Admitted, S) = Inside(S) + InIoAdmitted(S) + Leaving(S)
      BY AdmittedCount
    <2>5. Inside(S) = InReady(S) + InExec(S)
                        + (Count(queue["blocked_q"], S) + Count(queue["exit_q"], S))
      BY DEF Inside, Queued
    <2>6. /\ InReady(S) \in Nat /\ InExec(S) \in Nat /\ InIoAdmitted(S) \in Nat
          /\ Leaving(S) \in Nat /\ Count(queue["blocked_q"], S) \in Nat
          /\ Count(queue["exit_q"], S) \in Nat
      BY GroupCounts, PlaceCounts
    <2>7. Count(Admitted, S) # 0
      <3>1. PICK r \in Nat, x \in Nat, b \in Nat, w \in Nat, e \in Nat, l \in Nat :
              /\ r = InReady(S) /\ x = InExec(S) /\ b = Count(queue["blocked_q"], S)
              /\ w = InIoAdmitted(S) /\ e = Count(queue["exit_q"], S) /\ l = Leaving(S)
        BY <2>6
      <3>2. r # 0 \/ x # 0 \/ b + w # 0 \/ e + l # 0
        BY <2>3, <3>1
      <3>3. (r + x + (b + e)) + w + l # 0
        BY <3>2
      <3>. QED BY <2>4, <2>5, <3>1, <3>3
    <2>8. PICK i \in DOMAIN Admitted : Admitted[i] \in S
      BY <1>0, <2>7, CountMeans
    <2>9. i \in I /\ f[i] = c
      BY <2>1, <2>8 DEF ProcessOf
    <2>. QED BY <2>9
  <1>3. L!InMemory \in SUBSET T
    BY <1>1, <1>2
  <1>4. IsFiniteSet(I) /\ Cardinality(I) = Count(Admitted, Pcb)
    BY <1>0, CountType DEF Count
  <1>5. f \in Surjection(I, T)
    BY DEF Surjection
  <1>6. IsFiniteSet(T) /\ Cardinality(T) <= Cardinality(I)
    <2> HIDE DEF f, T, I
    <2>. QED BY <1>4, <1>5, FS_Surjection
  <1>7. IsFiniteSet(L!InMemory) /\ Cardinality(L!InMemory) <= Cardinality(T)
    <2> HIDE DEF T
    <2>. QED BY <1>3, <1>6, FS_Subset
  <1>8. sem["sem_multiprogram"] + Cardinality(I) = MultiprogrammingLevel
    <2>1. Count(Admitted, Pcb) = Used
      BY AdmittedCount DEF Used
    <2>. QED BY <1>4, <2>1 DEF Settled, Bounded
  <1>9. Cardinality(L!InMemory) \in Nat /\ Cardinality(T) \in Nat /\ Cardinality(I) \in Nat
    BY <1>4, <1>6, <1>7, FS_CardinalityType
  <1> HIDE DEF I, T
  <1>. QED BY <1>0, <1>6, <1>7, <1>8, <1>9

\* Nobody executes while to_exec holds the CPU's permit.
LEMMA NobodyExecutes ==
  ASSUME SystemInv, ExecutionInv, Placed, cycle # "cpu_bussy",
         at["to_exec"] = "execution_mutex"
  PROVE  L!In({"exec"}) = {}
  <1>1. CpuTotal = 1
    BY DEF ExecutionInv, CpuConserved
  <1>2. /\ Permit \in Nat /\ Dispatching = 1 /\ Sent \in Nat
        /\ pcb_loaded \in Nat /\ cpu_bussy \in Nat /\ Back \in Nat
    BY ExecutionTypes DEF Permit, Dispatching, Sent, Back, One
  <1>3. Sent = 0 /\ Back = 0 /\ pcb_loaded = 0 /\ cpu_bussy = 0
    BY <1>1, <1>2 DEF CpuTotal
  <1>4. dispatch = <<>> /\ returns = <<>>
    BY <1>3, PlaceTypes DEF Sent, Back
  <1>5. InCpu = <<>> /\ Returning = <<>>
    BY <1>3, <1>4 DEF InCpu, Returning
  <1>6. \A S : InExec(S) = 0
    BY <1>4, <1>5, CountEmpty DEF InExec
  <1>7. \A c \in Consoles : StageOf(c) # "exec"
    BY <1>6, StageCounts, LivingIs DEF StagesAreCounts, LiveStages
  <1>. QED BY <1>7 DEF L!In

\* Nobody is suspended and ready while suspended_ready_q is empty.
LEMMA NobodySuspendedReady ==
  ASSUME SystemInv, Placed, queue["suspended_ready_q"] = <<>>
  PROVE  L!In({"suspended_ready"}) = {}
  <1>1. \A S : Living("suspended_ready", S) = 0
    BY CountEmpty, LivingIs
  <1>2. \A c \in Consoles : StageOf(c) # "suspended_ready"
    BY <1>1, StageCounts DEF StagesAreCounts, LiveStages
  <1>. QED BY <1>2 DEF L!In

-----------------------------------------------------------------------------
(* Every step is a step of the life cycle, or none. *)

\* A process that changes its stage by one of these moves makes a step.
LEMMA MoveIsStep ==
  ASSUME NEW c \in Consoles, NEW from, NEW to, from # to,
         Stage[c] = from, Stage'[c] = to,
         \/ L!Arrive(c) \/ L!Admit(c) \/ L!Readmit(c) \/ L!Dispatch(c) \/ L!Preempt(c)
         \/ L!Block(c) \/ L!Wake(c) \/ L!Suspend(c) \/ L!FinishIo(c) \/ L!Exit(c) \/ L!Leave(c)
  PROVE  L!Next
  <1>1. c \in {q \in Consoles : Stage'[q] # Stage[q]}
    OBVIOUS
  <1>. QED BY <1>1 DEF L!Next, Stage

\* to_ready's steps: Admit, Readmit, or none.
LEMMA ToReady_Lives ==
  ASSUME SystemInv, SystemInv', HandsEmpty, Settled, Settled', UNCHANGED cpuVars, ToReady
  PROVE  L!Next \/ UNCHANGED Stage
  <1>0. Placed /\ Placed' /\ \A S : Kept(S) => Carried(S)
    BY KeptCarried DEF Settled
  <1>1. UNCHANGED answers
    BY DEF ToReady, ToReady_Any, ToReady_Admit, NewToReady_Send, NewToReady_Put,
       NewToReady_Ready, PutToReady, PutToReady_Resume, departures
  <1>2. CASE ToReady_Admit
    <2>1. PICK p \in Pcb : p = hand'["to_ready"]
      BY <1>2, KeptSets, KeptCarried, ToReady_Admit_Moves
    <2>2. sem["sem_multiprogram"] > 0
      BY <1>2 DEF ToReady_Admit
    <2>3. L!Cardinality(L!InMemory) < MultiprogrammingLevel
      BY <2>2, RoomInMemory DEF L!Cardinality, Cardinality
    <2>4. CASE queue["suspended_ready_q"] # <<>>
      <3>1. \A S : Kept(S) => Passed(S, "suspended_ready", "ready", One(p \in S))
        BY <1>0, <1>2, <2>1, <2>4, ToReady_Admit_Stages
      <3>2. \A c \in Consoles :
              Passed(ProcessOf(c), "suspended_ready", "ready", One(p \in ProcessOf(c)))
        BY <3>1, ForProcesses
      <3>3. /\ p.client_socket \in Consoles
            /\ Stage[p.client_socket] = "suspended_ready" /\ Stage'[p.client_socket] = "ready"
            /\ L!Move(p.client_socket, "suspended_ready", "ready")
        BY <1>0, <1>1, <3>2, StageMoves DEF LiveStages
      <3>4. L!Readmit(p.client_socket)
        BY <2>3, <3>3 DEF L!Readmit
      <3>. QED BY <3>3, <3>4, MoveIsStep
    <2>5. CASE queue["suspended_ready_q"] = <<>>
      <3>1. \A S : Kept(S) => Passed(S, "new", "ready", One(p \in S))
        BY <1>0, <1>2, <2>1, <2>5, ToReady_Admit_Stages
      <3>2. \A c \in Consoles :
              Passed(ProcessOf(c), "new", "ready", One(p \in ProcessOf(c)))
        BY <3>1, ForProcesses
      <3>3. /\ p.client_socket \in Consoles
            /\ Stage[p.client_socket] = "new" /\ Stage'[p.client_socket] = "ready"
            /\ L!Move(p.client_socket, "new", "ready")
        BY <1>0, <1>1, <3>2, StageMoves DEF LiveStages
      <3>4. L!Admit(p.client_socket)
        <4>1. L!In({"suspended_ready"}) = {}
          BY <1>0, <2>5, NobodySuspendedReady
        <4>. QED BY <2>3, <3>3, <4>1 DEF L!Admit
      <3>. QED BY <3>3, <3>4, MoveIsStep
    <2>. QED BY <2>4, <2>5
  <1>3. CASE \/ ToReady_Any \/ NewToReady_Send \/ NewToReady_Put \/ NewToReady_Ready
             \/ PutToReady("to_ready") \/ PutToReady_Resume("to_ready")
    <2>1. \A S : Kept(S) => Rested(S)
      BY <1>0, <1>3, Kernel_Rests, PutToReady_Stages, PutToReady_Resume_Stages DEF Planners
    <2>. QED BY <1>0, <1>1, <2>1, NoProcess, StageRests
  <1>. QED BY <1>2, <1>3 DEF ToReady

\* to_exec's steps: Dispatch, or none.
LEMMA ToExec_Lives ==
  ASSUME SystemInv, SystemInv', ExecutionInv, Settled, Settled', cycle # "cpu_bussy",
         UNCHANGED cpuVars, ToExec
  PROVE  L!Next \/ UNCHANGED Stage
  <1>0. Placed /\ Placed'
    BY DEF Settled
  <1>1. UNCHANGED answers
    BY DEF ToExec, ToExec_Ready, ToExec_Cpu, ToExec_Dispatch, departures
  <1>2. CASE ToExec_Dispatch
    <2>1. PICK p \in Pcb : p = Head(queue["ready_q"])
      <3>1. queue["ready_q"] \in Seq(Pcb) /\ queue["ready_q"] # <<>>
        BY <1>2, PlaceTypes DEF ToExec_Dispatch, Queues
      <3>. QED BY <3>1
    <2>2. \A S : Kept(S) => Passed(S, "ready", "exec", One(p \in S))
      BY <1>2, <2>1, ToExec_Dispatch_Stages
    <2>3. \A c \in Consoles : Passed(ProcessOf(c), "ready", "exec", One(p \in ProcessOf(c)))
      BY <2>2, ForProcesses
    <2>4. /\ p.client_socket \in Consoles
          /\ Stage[p.client_socket] = "ready" /\ Stage'[p.client_socket] = "exec"
          /\ L!Move(p.client_socket, "ready", "exec")
      BY <1>0, <1>1, <2>3, StageMoves DEF LiveStages
    <2>5. L!In({"exec"}) = {}
      BY <1>0, <1>2, NobodyExecutes DEF ToExec_Dispatch
    <2>6. L!Dispatch(p.client_socket)
      BY <2>4, <2>5 DEF L!Dispatch
    <2>. QED BY <2>4, <2>6, MoveIsStep
  <1>3. CASE ToExec_Ready \/ ToExec_Cpu
    <2>1. \A S : Kept(S) => Rested(S)
      BY <1>3, Kernel_Rests
    <2>. QED BY <1>0, <1>1, <2>1, NoProcess, StageRests
  <1>. QED BY <1>2, <1>3 DEF ToExec

\* io_listener's steps: Wake, Suspend, FinishIo, or none.
LEMMA IoListener_Lives ==
  ASSUME SystemInv, SystemInv', HandsEmpty, Settled, Settled', UNCHANGED cpuVars, IoListener
  PROVE  L!Next \/ UNCHANGED Stage
  <1>0. Placed /\ Placed' /\ \A S : Kept(S) => Carried(S)
    BY KeptCarried DEF Settled
  <1>1. UNCHANGED answers
    BY DEF IoListener, IoListener_Fits, IoListener_Exceeds, IoListener_Suspended,
       IoListener_Take, IoListener_Suspend, IoListener_Wait, IoListener_Finish, PutToReady,
       PutToReady_Resume, departures
  <1>2. CASE IoListener_Wait
    <2>1. PICK p \in Pcb : p = hand["io_listener"]
      BY <1>2, KeptSets, KeptCarried, IoListener_Put_Moves
    <2>2. \A S : Kept(S) => Passed(S, "blocked", "suspended_blocked", One(p \in S))
      BY <1>0, <1>2, <2>1, IoListener_Put_Stages
    <2>3. \A c \in Consoles :
            Passed(ProcessOf(c), "blocked", "suspended_blocked", One(p \in ProcessOf(c)))
      BY <2>2, ForProcesses
    <2>4. /\ p.client_socket \in Consoles
          /\ Stage[p.client_socket] = "blocked" /\ Stage'[p.client_socket] = "suspended_blocked"
          /\ L!Move(p.client_socket, "blocked", "suspended_blocked")
      BY <1>0, <1>1, <2>3, StageMoves DEF LiveStages
    <2>5. L!Suspend(p.client_socket)
      BY <2>4 DEF L!Suspend
    <2>. QED BY <2>4, <2>5, MoveIsStep
  <1>3. CASE IoListener_Finish
    <2>1. PICK p \in Pcb : p = hand["io_listener"]
      BY <1>3, KeptSets, KeptCarried, IoListener_Put_Moves
    <2>2. \A S : Kept(S) => Passed(S, "suspended_blocked", "suspended_ready", One(p \in S))
      BY <1>0, <1>3, <2>1, IoListener_Put_Stages
    <2>3. \A c \in Consoles :
            Passed(ProcessOf(c), "suspended_blocked", "suspended_ready", One(p \in ProcessOf(c)))
      BY <2>2, ForProcesses
    <2>4. /\ p.client_socket \in Consoles
          /\ Stage[p.client_socket] = "suspended_blocked"
          /\ Stage'[p.client_socket] = "suspended_ready"
          /\ L!Move(p.client_socket, "suspended_blocked", "suspended_ready")
      BY <1>0, <1>1, <2>3, StageMoves DEF LiveStages
    <2>5. L!FinishIo(p.client_socket)
      BY <2>4 DEF L!FinishIo
    <2>. QED BY <2>4, <2>5, MoveIsStep
  <1>4. CASE PutToReady("io_listener")
    <2>1. PICK p \in Pcb : p = hand["io_listener"]
      BY <1>4, PlaceTypes DEF PutToReady, HandsFull
    <2>2. \A S : Kept(S) => Passed(S, "blocked", "ready", One(p \in S))
      BY <1>0, <1>4, <2>1, PutToReady_Stages DEF Planners
    <2>3. \A c \in Consoles : Passed(ProcessOf(c), "blocked", "ready", One(p \in ProcessOf(c)))
      BY <2>2, ForProcesses
    <2>4. /\ p.client_socket \in Consoles
          /\ Stage[p.client_socket] = "blocked" /\ Stage'[p.client_socket] = "ready"
          /\ L!Move(p.client_socket, "blocked", "ready")
      BY <1>0, <1>1, <2>3, StageMoves DEF LiveStages
    <2>5. L!Wake(p.client_socket)
      BY <2>4 DEF L!Wake
    <2>. QED BY <2>4, <2>5, MoveIsStep
  <1>5. CASE \/ IoListener_Fits \/ IoListener_Exceeds \/ IoListener_Suspended
             \/ IoListener_Suspend \/ PutToReady_Resume("io_listener")
    <2>1. \A S : Kept(S) => Rested(S)
      BY <1>0, <1>5, Kernel_Rests, IoListener_Take_Stages, PutToReady_Resume_Stages DEF Planners
    <2>. QED BY <1>0, <1>1, <2>1, NoProcess, StageRests
  <1>. QED BY <1>2, <1>3, <1>4, <1>5 DEF IoListener

\* The handlers of the CPU's packets: Block, Exit, Preempt.
LEMMA CpuDispatchListener_Lives ==
  ASSUME SystemInv, SystemInv', Placed, Placed', UNCHANGED cpuVars, CpuDispatchListener
  PROVE  L!Next
  <1>0. \A S : Kept(S) => Carried(S)
    BY KeptCarried
  <1>1. UNCHANGED answers
    BY DEF CpuDispatchListener, IoOp, ExitOp, HandleInterruption, departures
  <1>2. PICK p \in Pcb : p = Head(returns).pcb
    <2>1. returns \in Seq(Returns) /\ returns # <<>>
      BY PlaceTypes DEF CpuDispatchListener, IoOp, ExitOp, HandleInterruption, Returned
    <2>2. Head(returns) \in Returns
      BY <2>1
    <2>. QED BY <2>2 DEF Returns
  <1>3. CASE IoOp
    <2>1. \A S : Kept(S) => Passed(S, "exec", "blocked", One(p \in S))
      BY <1>0, <1>2, <1>3, CpuDispatchListener_Stages
    <2>2. \A c \in Consoles : Passed(ProcessOf(c), "exec", "blocked", One(p \in ProcessOf(c)))
      BY <2>1, ForProcesses
    <2>3. /\ p.client_socket \in Consoles
          /\ Stage[p.client_socket] = "exec" /\ Stage'[p.client_socket] = "blocked"
          /\ L!Move(p.client_socket, "exec", "blocked")
      BY <1>1, <2>2, StageMoves DEF LiveStages
    <2>4. L!Block(p.client_socket)
      BY <2>3 DEF L!Block
    <2>. QED BY <2>3, <2>4, MoveIsStep
  <1>4. CASE ExitOp
    <2>1. \A S : Kept(S) => Passed(S, "exec", "exit", One(p \in S))
      BY <1>0, <1>2, <1>4, CpuDispatchListener_Stages
    <2>2. \A c \in Consoles : Passed(ProcessOf(c), "exec", "exit", One(p \in ProcessOf(c)))
      BY <2>1, ForProcesses
    <2>3. /\ p.client_socket \in Consoles
          /\ Stage[p.client_socket] = "exec" /\ Stage'[p.client_socket] = "exit"
          /\ L!Move(p.client_socket, "exec", "exit")
      BY <1>1, <2>2, StageMoves DEF LiveStages
    <2>4. L!Exit(p.client_socket)
      BY <2>3 DEF L!Exit
    <2>. QED BY <2>3, <2>4, MoveIsStep
  <1>5. CASE HandleInterruption
    <2>1. \A S : Kept(S) => Passed(S, "exec", "ready", One(p \in S))
      BY <1>0, <1>2, <1>5, CpuDispatchListener_Stages
    <2>2. \A c \in Consoles : Passed(ProcessOf(c), "exec", "ready", One(p \in ProcessOf(c)))
      BY <2>1, ForProcesses
    <2>3. /\ p.client_socket \in Consoles
          /\ Stage[p.client_socket] = "exec" /\ Stage'[p.client_socket] = "ready"
          /\ L!Move(p.client_socket, "exec", "ready")
      BY <1>1, <2>2, StageMoves DEF LiveStages
    <2>4. L!Preempt(p.client_socket)
      BY <2>3 DEF L!Preempt
    <2>. QED BY <2>3, <2>4, MoveIsStep
  <1>. QED BY <1>3, <1>4, <1>5 DEF CpuDispatchListener

\* The threads of the consoles' connections: Arrive, or none.
LEMMA ReceiveProcess_Lives ==
  ASSUME SystemInv, SystemInv', Placed, Placed', UNCHANGED cpuVars,
         NEW c \in Consoles, ReceiveProcess(c)
  PROVE  L!Next \/ UNCHANGED Stage
  <1>1. CASE ReceiveProcess_Put(c)
    <2>1. Stage[c] = "off" /\ Stage'[c] = "new" /\ L!Move(c, "off", "new")
      BY <1>1, ReceiveProcess_Arrives
    <2>2. L!Arrive(c)
      BY <2>1 DEF L!Arrive
    <2>. QED BY <2>1, <2>2, MoveIsStep
  <1>2. CASE ReceiveProcess_Read(c) \/ ReceiveProcess_Write(c)
    <2>1. \A S : Kept(S) => Rested(S)
      BY <1>2, Kernel_Rests
    <2>2. UNCHANGED answers
      BY <1>2 DEF ReceiveProcess_Read, ReceiveProcess_Write, departures
    <2>. QED BY <2>1, <2>2, NoProcess, StageRests
  <1>. QED BY <1>1, <1>2 DEF ReceiveProcess

\* exit_process's steps show nothing.
LEMMA ExitProcess_Lives ==
  ASSUME SystemInv, SystemInv', HandsEmpty, Placed, Placed', UNCHANGED cpuVars, ExitProcess
  PROVE  UNCHANGED Stage
  <1>1. \A S : Kept(S) => Rested(S)
    BY KeptCarried, ExitProcess_Stages
  <1>2. UNCHANGED answers
    BY DEF ExitProcess, ExitProcess_Send, ExitProcess_Put, departures
  <1>. QED BY <1>1, <1>2, NoProcess, StageRests

\* The handlers of the memory server's packets: Leave, or none.
LEMMA MemoryListener_Lives ==
  ASSUME SystemInv, SystemInv', Numbering, HandsEmpty, Settled, Placed', UNCHANGED cpuVars,
         MemoryListener
  PROVE  L!Next \/ UNCHANGED Stage
  <1>0. Placed
    BY DEF Settled
  <1>1. CASE ExitProcessSuccess
    <2>1. PICK c \in Consoles :
            Stage[c] = "exit" /\ Stage'[c] = "done" /\ L!Move(c, "exit", "done")
      BY <1>1, ExitProcessSuccess_Leaves
    <2>2. L!Leave(c)
      BY <2>1 DEF L!Leave
    <2>. QED BY <2>1, <2>2, MoveIsStep
  <1>2. CASE TableIndexSuccess \/ SuspensionSuccess
    <2>1. \A S : Kept(S) => Rested(S)
      BY <1>2, TableIndexSuccess_Stages, Kernel_Rests
    <2>2. UNCHANGED answers
      BY <1>2 DEF TableIndexSuccess, SuspensionSuccess, departures
    <2>. QED BY <1>0, <2>1, <2>2, NoProcess, StageRests
  <1>. QED BY <1>1, <1>2 DEF MemoryListener

\* Every step of the three programs, until check_interruption evicts a process that
\* had already left.
LEMMA LifecycleStep ==
  ASSUME SystemInv, SystemInv', ExecutionInv, PlaceInv, PlaceInv', cycle' # "cpu_bussy",
         [Next]_vars
  PROVE  L!Next \/ UNCHANGED Stage
  <1>0. cycle # "cpu_bussy"
    BY StaysBlocked DEF vars, cpuVars
  <1>1. Numbering /\ HandsEmpty /\ Settled /\ Settled' /\ Placed /\ Placed'
    BY <1>0 DEF PlaceInv, Settled
  <1>2. CASE UNCHANGED vars
    BY <1>2 DEF vars, socketVars, kernelVars, cpuVars, departures, Stage, StageOf, Has, Held,
       Executing, InCpu, Returning, AwaitingIo, AwaitingIoOutside
  <1>3. ASSUME \/ \E c \in Consoles : ReceiveProcess(c)
               \/ ToReady \/ ToExec \/ IoListener \/ ExitProcess
               \/ CpuDispatchListener \/ MemoryListener,
               UNCHANGED <<cpuVars, memoryVars>>
        PROVE  L!Next \/ UNCHANGED Stage
    <2>1. UNCHANGED cpuVars
      BY <1>3
    <2>. QED BY <1>0, <1>1, <1>3, <2>1, ReceiveProcess_Lives, ToReady_Lives, ToExec_Lives,
                IoListener_Lives, ExitProcess_Lives, CpuDispatchListener_Lives,
                MemoryListener_Lives
  <1>4. ASSUME ReceivePcb \/ ReceiveInterruption \/ CpuCycle, UNCHANGED <<kernelVars, memoryVars>>
        PROVE  UNCHANGED Stage
    <2>1. \A S : Kept(S) => Rested(S)
      BY <1>0, <1>4, KeptCarried, Cpu_Stages
    <2>2. UNCHANGED answers
      BY <1>4 DEF kernelVars, departures
    <2>. QED BY <1>1, <2>1, <2>2, NoProcess, StageRests
  <1>5. ASSUME MemoryServer, UNCHANGED <<kernelVars, cpuVars>>
        PROVE  UNCHANGED Stage
    <2>1. UNCHANGED <<dispatch, returns>>
      BY <1>5 DEF MemoryServer, ProcessNew, ProcessSuspend, ProcessSuspend_Crash, ProcessExit,
         socketVars
    <2>2. /\ UNCHANGED <<hand, queue, at, answers, memory_exit_q>>
          /\ UNCHANGED <<cpu_pcb, pcb_loaded, cpu_bussy>>
      BY <1>5 DEF kernelVars, departures, cpuVars
    <2>3. \A S : Kept(S) => Rested(S)
      BY <2>1, <2>2, PlacesRest
    <2>. QED BY <1>1, <2>2, <2>3, NoProcess, StageRests
  <1>. QED BY <1>2, <1>3, <1>4, <1>5 DEF Next, KernelStep, CpuStep, MemoryStep, Idle

\* Before anybody has connected no process has begun its life.
LEMMA LifecycleInitially == Init => L!Init
  <1> SUFFICES ASSUME Init PROVE L!Init
    OBVIOUS
  <1>1. SystemInv /\ PlaceInv
    BY Initially, PlacesInitially
  <1>2. /\ cycle # "cpu_bussy" /\ answers = [c \in Consoles |-> 0]
        /\ receiving = [c \in Consoles |-> "unsent"]
    BY DEF Init, KernelInit, CpuInit
  <1>3. Placed
    BY <1>1, <1>2 DEF PlaceInv, Settled
  <1>4. ASSUME NEW c \in Consoles PROVE StageOf(c) = "off"
    <2>1. Total(ProcessOf(c)) + 0 = 0 /\ answers[c] = 0
      BY <1>2, <1>3 DEF Placed, One
    <2>2. Total(ProcessOf(c)) \in Nat
      BY <1>1, GroupCounts DEF Total
    <2>3. Total(ProcessOf(c)) = 0
      BY <2>1, <2>2
    <2>. QED BY <1>1, <1>3, <2>1, <2>3, StageCounts DEF StagesAreCounts
  <1>. QED BY <1>4 DEF L!Init

-----------------------------------------------------------------------------
(* Theorems. *)

\* Under SRT too: until check_interruption evicts a process that had already left,
\* every step of the three programs is a step of one process's life, or shows nothing.
THEOREM LifecycleUntilDoubleReturn ==
  ASSUME SlowMemory, ~OverlapConsoles
  PROVE  Spec => L!Init /\ [][cycle' # "cpu_bussy" => L!Next \/ UNCHANGED Stage]_vars
  <1>1. SystemInv /\ SystemInv' /\ ExecutionInv /\ PlaceInv /\ PlaceInv' /\ [Next]_vars
          => (cycle' # "cpu_bussy" => L!Next \/ UNCHANGED Stage)
    BY LifecycleStep
  <1>. QED BY <1>1, LifecycleInitially, InvariantCorrect, ExecutionCorrect, PlaceInvCorrect, PTL
           DEF Spec

\* Under FIFO the three programs implement the life cycle of a process: at most the
\* multiprogramming level in memory, one in the CPU, a suspended process before a new
\* one, and no other change of state than those of the seven-state diagram.
THEOREM LifecycleCorrect ==
  ASSUME SlowMemory, ~OverlapConsoles, Algorithm = "FIFO"
  PROVE  Spec => LifecycleSpec
  <1>1. /\ SystemInv /\ SystemInv' /\ ExecutionInv /\ ExecutionInv' /\ PlaceInv /\ PlaceInv'
        /\ [Next]_vars
        => [L!Next]_Stage
    <2> SUFFICES ASSUME SystemInv, SystemInv', ExecutionInv, ExecutionInv', PlaceInv,
                        PlaceInv', [Next]_vars
                 PROVE  [L!Next]_Stage
      OBVIOUS
    <2>1. cycle' # "cpu_bussy"
      BY DEF ExecutionInv, FifoUninterrupted
    <2>. QED BY <2>1, LifecycleStep
  <1>2. [L!Next]_Stage <=> [L!Next]_[c \in Consoles |-> StageOf(c)]
    BY DEF Stage
  <1>. QED BY <1>1, <1>2, LifecycleInitially, InvariantCorrect, ExecutionCorrect,
              PlaceInvCorrect, PTL DEF Spec, LifecycleSpec, L!Spec

=============================================================================
