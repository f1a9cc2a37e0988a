------------------------------- MODULE Clock -------------------------------
(***************************************************************************)
(* One page replacement (memory/src/page_table.c): replace_algorithm and   *)
(* two_clock_turns, under CLOCK and CLOCK-M, frame by frame.               *)
(*                                                                         *)
(* Nothing in the memory server sets the bits of a page yet (memory_read   *)
(* and memory_write say "TODO actualizar pags"), so the search is checked  *)
(* for every value the bits could have.                                    *)
(***************************************************************************)
EXTENDS Integers

CONSTANTS FramesPerProcess,  \* MARCOS_POR_PROCESO
          MemorySizes        \* the numbers of frames the memory may have

ASSUME FramesAssumption ==
    /\ FramesPerProcess \in Nat \ {0}
    /\ MemorySizes \subseteq {n \in Nat : n >= FramesPerProcess}

\* Places in the list of the process's frames.
Frames == 0 .. FramesPerProcess - 1

VARIABLES
    replaceAlgorithm, framesInMemory,  \* configuration
    used, modified,  \* the bits of the page in each frame
    clock_hand,
    call,            \* i: calls of two_clock_turns made
    turn,            \* j: turns made in this call
    examined,        \* k: frames examined in this turn
    victim,          \* the frame replaced, or -1
    saved,           \* save_swap has been called for it
    crashed,         \* list_get was asked for a frame that is not there
    before           \* bits and hand as they were, for the properties

configuration == <<replaceAlgorithm, framesInMemory, before>>
clockVars == <<configuration, used, modified, clock_hand, call, turn, examined, victim, saved,
               crashed>>

ClockInit ==
    /\ replaceAlgorithm \in {"CLOCK", "CLOCK-M"}
    /\ framesInMemory \in MemorySizes
    /\ used \in [Frames -> BOOLEAN]
    /\ modified \in [Frames -> BOOLEAN]
    /\ clock_hand \in Frames
    /\ call = 0 /\ turn = 0 /\ examined = 0
    /\ victim = -1
    /\ saved = FALSE
    /\ crashed = FALSE
    /\ before = [used |-> used, modified |-> modified, clock_hand |-> clock_hand]

-----------------------------------------------------------------------------

Calls == IF replaceAlgorithm = "CLOCK-M" THEN 2 ELSE 1

\* A plausible bug: one turn instead of two.
Turns_One == 1

Turns == 2

Searching == victim = -1 /\ ~crashed /\ call < Calls

\* increment_clock_hand wraps at the number of frames of the memory.
IncrementClockHand == (clock_hand + 1) % framesInMemory

\* A plausible bug: the first turn of CLOCK-M takes a modified page.
Replaceable_AnyUnused == ~used[clock_hand]

\* The page at the hand is replaced, now.
Replaceable ==
    /\ ~used[clock_hand]
    /\ replaceAlgorithm = "CLOCK-M" /\ turn = 0 => ~modified[clock_hand]

\* _replace: a modified page goes to its swap file, and the new one takes the frame.
\* Where get_swap then writes (it is given the address of the entry for a frame
\* number) is left out.
TwoClockTurns_Replace ==
    /\ Searching
    /\ clock_hand \in Frames
    /\ Replaceable
    /\ victim' = clock_hand
    /\ saved' = modified[clock_hand]
    /\ modified' = [modified EXCEPT ![clock_hand] = FALSE]
    /\ clock_hand' = IncrementClockHand
    /\ UNCHANGED <<configuration, used, call, turn, examined, crashed>>

\* The hand goes on.  The first turn of CLOCK-M leaves the bits alone.
TwoClockTurns_Pass ==
    /\ Searching
    /\ clock_hand \in Frames
    /\ ~Replaceable
    /\ used' = IF replaceAlgorithm = "CLOCK-M" /\ turn = 0 THEN used
               ELSE [used EXCEPT ![clock_hand] = FALSE]
    /\ clock_hand' = IncrementClockHand
    /\ LET last_frame == examined + 1 = FramesPerProcess
           last_turn == turn + 1 = Turns
       IN  /\ examined' = IF last_frame THEN 0 ELSE examined + 1
           /\ turn' = IF ~last_frame THEN turn ELSE IF last_turn THEN 0 ELSE turn + 1
           /\ call' = IF last_frame /\ last_turn THEN call + 1 ELSE call
    /\ UNCHANGED <<configuration, modified, victim, saved, crashed>>

\* list_get returns NULL, and the frame is read through it.
TwoClockTurns_Crash ==
    /\ Searching
    /\ clock_hand \notin Frames
    /\ crashed' = TRUE
    /\ UNCHANGED <<configuration, used, modified, clock_hand, call, turn, examined, victim, saved>>

Returned == ~Searching /\ UNCHANGED clockVars

ClockNext ==
    \/ TwoClockTurns_Replace
    \/ TwoClockTurns_Pass
    \/ TwoClockTurns_Crash
    \/ Returned

ClockSpec == ClockInit /\ [][ClockNext]_clockVars

-----------------------------------------------------------------------------
(* Properties. *)

\* How far a frame is from where the hand was.
Distance(f) == (f - before.clock_hand) % FramesPerProcess

\* How little a page deserves to stay: not used before used and, under CLOCK-M,
\* not modified before modified.
Class(f) ==
    (IF before.used[f] THEN 2 ELSE 0)
    + (IF before.modified[f] /\ replaceAlgorithm = "CLOCK-M" THEN 1 ELSE 0)

\* The first frame of the lowest class, from the hand on.
Reference ==
    CHOOSE f \in Frames :
        \A g \in Frames \ {f} :
            \/ Class(f) < Class(g)
            \/ Class(f) = Class(g) /\ Distance(f) < Distance(g)

(***************************************************************************)
(* The two calls of two turns, with their conditions on the turn, choose   *)
(* the frame the textbook does: the first of the lowest class.  Its page   *)
(* is saved exactly if it had been modified.                               *)
(***************************************************************************)
VictimIsBest ==
    victim # -1 => victim = Reference /\ saved = before.modified[victim]

(***************************************************************************)
(* The search ends with a victim whatever the bits are, if the process has *)
(* all the frames of the memory.  With fewer the hand can leave the list   *)
(* of its frames; that is the only way to fail.                            *)
(***************************************************************************)
FindsVictim ==
    ~Searching => victim # -1 \/ (crashed /\ framesInMemory > FramesPerProcess)

=============================================================================
