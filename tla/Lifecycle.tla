----------------------------- MODULE Lifecycle -----------------------------
(***************************************************************************)
(* What the schedulers promise: the seven-state diagram of a process.      *)
(* At most Level processes are in memory, at most one executes, and a      *)
(* process never seen before is admitted only when no suspended one waits. *)
(* Nothing is said of queues, semaphores, threads or messages.             *)
(***************************************************************************)
EXTENDS Naturals, FiniteSets

CONSTANTS Processes, Level

VARIABLE stage  \* stage[p]: where process p is in its life

Stages == {"off", "new", "ready", "exec", "blocked",
           "suspended_blocked", "suspended_ready", "exit", "done"}

In(s) == {p \in Processes : stage[p] \in s}

InMemory == In({"ready", "exec", "blocked", "exit"})

Move(p, from, to) ==
    /\ stage[p] = from
    /\ stage' = [stage EXCEPT ![p] = to]

Init == stage = [p \in Processes |-> "off"]

Arrive(p) == Move(p, "off", "new")

Admit(p) ==
    /\ Cardinality(InMemory) < Level
    /\ In({"suspended_ready"}) = {}
    /\ Move(p, "new", "ready")

Readmit(p) ==
    /\ Cardinality(InMemory) < Level
    /\ Move(p, "suspended_ready", "ready")

Dispatch(p) ==
    /\ In({"exec"}) = {}
    /\ Move(p, "ready", "exec")

Preempt(p) == Move(p, "exec", "ready")
Block(p) == Move(p, "exec", "blocked")
Wake(p) == Move(p, "blocked", "ready")
Suspend(p) == Move(p, "blocked", "suspended_blocked")
FinishIo(p) == Move(p, "suspended_blocked", "suspended_ready")
Exit(p) == Move(p, "exec", "exit")
Leave(p) == Move(p, "exit", "done")

\* Every step moves a process.
Next ==
    \E p \in {q \in Processes : stage'[q] # stage[q]} :
        \/ Arrive(p) \/ Admit(p) \/ Readmit(p)
        \/ Dispatch(p) \/ Preempt(p) \/ Block(p)
        \/ Wake(p) \/ Suspend(p) \/ FinishIo(p)
        \/ Exit(p) \/ Leave(p)

Spec == Init /\ [][Next]_stage

=============================================================================
