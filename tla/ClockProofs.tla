---------------------------- MODULE ClockProofs ----------------------------
(***************************************************************************)
(* The page replacement of CLOCK and CLOCK-M ends with the victim the      *)
(* textbook chooses, for any number of frames and any bits.                *)
(*                                                                         *)
(* What a turn has found out is lost from the bits it clears, so the       *)
(* invariant says it of the bits as they were: which classes of pages are  *)
(* excluded after the turns made, and which frames of this turn the hand   *)
(* has passed.                                                             *)
(***************************************************************************)
EXTENDS Clock, TLAPS

-----------------------------------------------------------------------------
(* The inductive invariant. *)

ClockTypeOK ==
    /\ replaceAlgorithm \in {"CLOCK", "CLOCK-M"}
    /\ framesInMemory \in MemorySizes
    /\ used \in [Frames -> BOOLEAN] /\ modified \in [Frames -> BOOLEAN]
    /\ clock_hand \in Nat
    /\ call \in 0 .. 2 /\ turn \in {0, 1} /\ examined \in Frames
    /\ victim \in Frames \cup {-1}
    /\ saved \in BOOLEAN /\ crashed \in BOOLEAN
    /\ before.used \in [Frames -> BOOLEAN] /\ before.modified \in [Frames -> BOOLEAN]
    /\ before.clock_hand \in Frames

\* The hand counts the frames of a turn while it stays in the list of frames, and
\* leaves the list only if the memory has more frames.
HandCounts ==
    /\ victim = -1 /\ clock_hand \in Frames => Distance(clock_hand) = examined
    /\ framesInMemory = FramesPerProcess => clock_hand \in Frames
    /\ crashed => framesInMemory > FramesPerProcess

\* The frames that the hand has passed in this turn.
Passed == {f \in Frames : Distance(f) < examined}

\* A turn that gives a second chance: it passed used pages only, and cleared them.
Clearing ==
    /\ \A f \in Passed : before.used[f] /\ ~used[f]
    /\ \A f \in Frames \ Passed : used[f] = before.used[f]

\* Every page had been used and has lost its bit.
AllCleared == \A f \in Frames : before.used[f] /\ ~used[f]

\* CLOCK clears in its first turn and finds a page at once in its second.
ClockSearch ==
    /\ call = 0
    /\ turn = 0 => Clearing
    /\ turn = 1 => AllCleared /\ examined = 0

\* CLOCK-M looks for class 0, for class 1 while clearing, for class 2 and for class 3.
ClockMSearch ==
    /\ call < 2
    /\ call = 0 /\ turn = 0 =>
         used = before.used /\ \A f \in Passed : before.used[f] \/ before.modified[f]
    /\ call = 0 /\ turn = 1 =>
         Clearing /\ \A f \in Frames : before.used[f] \/ before.modified[f]
    /\ call = 1 /\ turn = 0 =>
         AllCleared /\ \A f \in Passed : before.modified[f]
    /\ call = 1 /\ turn = 1 =>
         AllCleared /\ examined = 0 /\ \A f \in Frames : before.modified[f]

\* What is known while the search goes on.
Search ==
    victim = -1 =>
        /\ modified = before.modified
        /\ replaceAlgorithm = "CLOCK" => ClockSearch
        /\ replaceAlgorithm = "CLOCK-M" => ClockMSearch

ClockInv == ClockTypeOK /\ HandCounts /\ Search /\ VictimIsBest

-----------------------------------------------------------------------------
(* Distances. *)

\* The distance of a frame, without the remainder.
LEMMA DistanceIs ==
  ASSUME before.clock_hand \in Frames, NEW f \in Frames
  PROVE  /\ Distance(f) = IF f >= before.clock_hand THEN f - before.clock_hand
                          ELSE f - before.clock_hand + FramesPerProcess
         /\ Distance(f) \in Frames
  <1> DEFINE h == before.clock_hand
             F == FramesPerProcess
  <1>1. F \in Nat \ {0} /\ h \in 0 .. F - 1 /\ f \in 0 .. F - 1
    BY FramesAssumption DEF Frames
  <1> HIDE DEF h, F
  <1>2. (f - h) % F = IF f >= h THEN f - h ELSE f - h + F
    BY <1>1
  <1>3. (f - h) % F \in 0 .. F - 1
    BY <1>1, <1>2
  <1>. QED BY <1>2, <1>3 DEF h, F, Distance, Frames

\* No two frames are at the same distance, and the first is where the hand was.
LEMMA DistanceInjective ==
  ASSUME before.clock_hand \in Frames, NEW f \in Frames, NEW g \in Frames,
         Distance(f) = Distance(g)
  PROVE  f = g
  <1> DEFINE h == before.clock_hand
             F == FramesPerProcess
  <1>1. F \in Nat \ {0} /\ h \in 0 .. F - 1 /\ f \in 0 .. F - 1 /\ g \in 0 .. F - 1
    BY FramesAssumption DEF Frames
  <1>2. (IF f >= h THEN f - h ELSE f - h + F) = (IF g >= h THEN g - h ELSE g - h + F)
    BY DistanceIs
  <1> HIDE DEF h, F
  <1>. QED BY <1>1, <1>2

\* increment_clock_hand takes the hand to the next distance, or back to the first.
LEMMA NextDistance ==
  ASSUME ClockTypeOK, clock_hand \in Frames
  PROVE  /\ IncrementClockHand \in Nat
         /\ framesInMemory = FramesPerProcess => IncrementClockHand \in Frames
         /\ IncrementClockHand \in Frames =>
              Distance(IncrementClockHand)
                = IF Distance(clock_hand) + 1 = FramesPerProcess THEN 0
                  ELSE Distance(clock_hand) + 1
  <1> DEFINE h == before.clock_hand
             F == FramesPerProcess
             m == framesInMemory
             c == clock_hand
             n == IncrementClockHand
  <1>1. F \in Nat \ {0} /\ h \in 0 .. F - 1 /\ c \in 0 .. F - 1
    BY FramesAssumption DEF Frames, ClockTypeOK
  <1>2. m \in Nat /\ m >= F
    BY FramesAssumption DEF ClockTypeOK
  <1>3. n = (c + 1) % m
    BY DEF IncrementClockHand
  <1>4. Distance(c) = IF c >= h THEN c - h ELSE c - h + F
    BY DistanceIs DEF ClockTypeOK
  <1>5. n \in Frames => Distance(n) = IF n >= h THEN n - h ELSE n - h + F
    BY DistanceIs DEF ClockTypeOK
  <1>6. Frames = 0 .. F - 1
    BY DEF Frames
  <1> HIDE DEF h, F, m, c, n
  <1>7. n = IF c + 1 = m THEN 0 ELSE c + 1
    BY <1>1, <1>2, <1>3
  <1>8. n \in Nat /\ (m = F => n \in Frames)
    BY <1>1, <1>2, <1>6, <1>7
  <1>9. n \in Frames => Distance(n) = IF Distance(c) + 1 = F THEN 0 ELSE Distance(c) + 1
    BY <1>1, <1>2, <1>4, <1>5, <1>6, <1>7
  <1>. QED BY <1>8, <1>9 DEF F, m, c, n
-----------------------------------------------------------------------------
(* The victim. *)

\* What Reference chooses.
Best(f) ==
    \A g \in Frames \ {f} :
        \/ Class(f) < Class(g)
        \/ Class(f) = Class(g) /\ Distance(f) < Distance(g)

\* One frame at most is the first of the lowest class.
LEMMA BestIsReference ==
  ASSUME ClockTypeOK, NEW f \in Frames, Best(f)
  PROVE  f = Reference
  <1>1. \A g \in Frames : Class(g) \in Int /\ Distance(g) \in Int
    BY DistanceIs DEF Class, ClockTypeOK, Frames
  <1>2. Reference = CHOOSE r \in Frames : Best(r)
    BY DEF Reference, Best
  <1>3. Reference \in Frames /\ Best(Reference)
    BY <1>2
  <1>4. CASE f # Reference
    <2>1. \/ Class(f) < Class(Reference)
          \/ Class(f) = Class(Reference) /\ Distance(f) < Distance(Reference)
      BY <1>3, <1>4 DEF Best
    <2>2. \/ Class(Reference) < Class(f)
          \/ Class(f) = Class(Reference) /\ Distance(Reference) < Distance(f)
      BY <1>3, <1>4 DEF Best
    <2>. QED BY <1>1, <1>3, <2>1, <2>2
  <1>. QED BY <1>4

\* Among frames of no lower class, the first whose predecessors all have a higher one.
LEMMA FirstIsBest ==
  ASSUME ClockTypeOK, NEW f \in Frames, Distance(f) = examined,
         \A g \in Passed : Class(f) < Class(g),
         \A g \in Frames : Class(f) <= Class(g)
  PROVE  Best(f)
  <1> SUFFICES ASSUME NEW g \in Frames, g # f, ~(Class(f) < Class(g))
               PROVE  Class(f) = Class(g) /\ Distance(f) < Distance(g)
    BY DEF Best
  <1>1. /\ Class(f) \in Int /\ Class(g) \in Int
        /\ Distance(f) \in Int /\ Distance(g) \in Int /\ examined \in Int
    BY DistanceIs DEF Class, ClockTypeOK, Frames
  <1>2. Class(f) = Class(g)
    BY <1>1
  <1>3. ~(Distance(g) < examined)
    BY DEF Passed
  <1>4. Distance(g) # Distance(f)
    BY DistanceInjective DEF ClockTypeOK
  <1>. QED BY <1>1, <1>2, <1>3, <1>4

\* Classes by the bits as they were.
LEMMA Classes ==
  ASSUME ClockTypeOK, NEW f \in Frames
  PROVE  /\ replaceAlgorithm = "CLOCK" => Class(f) = IF before.used[f] THEN 2 ELSE 0
         /\ replaceAlgorithm = "CLOCK-M" =>
              Class(f) = IF before.used[f] THEN IF before.modified[f] THEN 3 ELSE 2
                         ELSE IF before.modified[f] THEN 1 ELSE 0
  BY DEF Class, ClockTypeOK

\* The page that is replaced under CLOCK.
LEMMA ClockVictim ==
  ASSUME ClockTypeOK, HandCounts, ClockSearch, replaceAlgorithm = "CLOCK",
         victim = -1, clock_hand \in Frames, Replaceable
  PROVE  Best(clock_hand)
  <1>1. Distance(clock_hand) = examined
    BY DEF HandCounts
  <1>2. ~used[clock_hand]
    BY DEF Replaceable
  <1>3. clock_hand \notin Passed
    <2>1. examined \in Int
      BY DEF ClockTypeOK, Frames
    <2>. QED BY <1>1, <2>1 DEF Passed
  <1>4. \A f \in Frames : Class(f) = IF before.used[f] THEN 2 ELSE 0
    BY Classes
  <1>5. CASE turn = 0
    <2>1. Class(clock_hand) = 0 /\ \A g \in Passed : Class(g) = 2
      BY <1>2, <1>3, <1>4, <1>5 DEF ClockSearch, Clearing, Passed
    <2>2. \A g \in Frames : Class(clock_hand) <= Class(g)
      BY <1>4, <2>1
    <2>. QED BY <1>1, <2>1, <2>2, FirstIsBest
  <1>6. CASE turn = 1
    <2>1. examined = 0 /\ \A g \in Frames : Class(g) = 2
      BY <1>4, <1>6 DEF ClockSearch, AllCleared
    <2>2. Passed = {}
      BY <2>1, DistanceIs DEF Passed, ClockTypeOK, Frames
    <2>. QED BY <1>1, <2>1, <2>2, FirstIsBest
  <1>. QED BY <1>5, <1>6 DEF ClockTypeOK

\* The page that is replaced under CLOCK-M.
LEMMA ClockMVictim ==
  ASSUME ClockTypeOK, HandCounts, ClockMSearch, replaceAlgorithm = "CLOCK-M",
         modified = before.modified, victim = -1, clock_hand \in Frames, Replaceable
  PROVE  Best(clock_hand)
  <1>1. Distance(clock_hand) = examined
    BY DEF HandCounts
  <1>2. ~used[clock_hand] /\ (turn = 0 => ~before.modified[clock_hand])
    BY DEF Replaceable
  <1>3. clock_hand \notin Passed
    <2>1. examined \in Int
      BY DEF ClockTypeOK, Frames
    <2>. QED BY <1>1, <2>1 DEF Passed
  <1>4. \A f \in Frames :
          Class(f) = IF before.used[f] THEN IF before.modified[f] THEN 3 ELSE 2
                     ELSE IF before.modified[f] THEN 1 ELSE 0
    BY Classes
  <1>5. Passed \subseteq Frames
    BY DEF Passed
  <1>6. CASE call = 0 /\ turn = 0
    <2>1. Class(clock_hand) = 0 /\ \A g \in Passed : 0 < Class(g)
      BY <1>2, <1>4, <1>5, <1>6 DEF ClockMSearch
    <2>2. \A g \in Frames : Class(clock_hand) <= Class(g)
      BY <1>4, <2>1
    <2>. QED BY <1>1, <2>1, <2>2, FirstIsBest
  <1>7. CASE call = 0 /\ turn = 1
    <2>1. ~before.used[clock_hand] /\ \A g \in Passed : before.used[g]
      BY <1>2, <1>3, <1>7 DEF ClockMSearch, Clearing
    <2>2. Class(clock_hand) = 1 /\ \A g \in Passed : 1 < Class(g)
      BY <1>4, <1>5, <1>7, <2>1 DEF ClockMSearch
    <2>3. \A g \in Frames : Class(clock_hand) <= Class(g)
      BY <1>4, <1>7, <2>2 DEF ClockMSearch
    <2>. QED BY <1>1, <2>2, <2>3, FirstIsBest
  <1>8. CASE call = 1 /\ turn = 0
    <2>1. Class(clock_hand) = 2 /\ \A g \in Passed : Class(g) = 3
      BY <1>2, <1>4, <1>5, <1>8 DEF ClockMSearch, AllCleared
    <2>2. \A g \in Frames : Class(clock_hand) <= Class(g)
      BY <1>4, <1>8, <2>1 DEF ClockMSearch, AllCleared
    <2>. QED BY <1>1, <2>1, <2>2, FirstIsBest
  <1>9. CASE call = 1 /\ turn = 1
    <2>1. examined = 0 /\ \A g \in Frames : Class(g) = 3
      BY <1>4, <1>9 DEF ClockMSearch, AllCleared
    <2>2. Passed = {}
      BY <2>1, DistanceIs DEF Passed, ClockTypeOK, Frames
    <2>. QED BY <1>1, <2>1, <2>2, FirstIsBest
  <1>. QED BY <1>6, <1>7, <1>8, <1>9 DEF ClockTypeOK, ClockMSearch

-----------------------------------------------------------------------------
(* The steps. *)

\* The frame at the hand is the one that a pass adds.
LEMMA PassedGrows ==
  ASSUME ClockTypeOK, clock_hand \in Frames, Distance(clock_hand) = examined, NEW f \in Frames
  PROVE  /\ Distance(f) < examined + 1 <=> f \in Passed \/ f = clock_hand
         /\ Distance(f) < FramesPerProcess
         /\ clock_hand \notin Passed
  <1>1. /\ Distance(f) \in 0 .. FramesPerProcess - 1 /\ examined \in Int
        /\ FramesPerProcess \in Int
    <2>1. Distance(f) \in Frames
      BY DistanceIs DEF ClockTypeOK
    <2>. QED BY <2>1, FramesAssumption DEF ClockTypeOK, Frames
  <1>2. Distance(f) = Distance(clock_hand) => f = clock_hand
    BY DistanceInjective DEF ClockTypeOK
  <1>3. Distance(f) < examined + 1 <=> Distance(f) < examined \/ Distance(f) = examined
    BY <1>1
  <1>4. Distance(f) < FramesPerProcess /\ ~(Distance(clock_hand) < examined)
    BY <1>1
  <1>. QED BY <1>2, <1>3, <1>4 DEF Passed

\* A page is replaced: the search ends, with the frame Reference chooses.
LEMMA Replace_Inv ==
  ASSUME ClockInv, TwoClockTurns_Replace
  PROVE  ClockInv'
  <1>1. /\ victim = -1 /\ ~crashed /\ clock_hand \in Frames /\ Replaceable
        /\ modified = before.modified
    BY DEF TwoClockTurns_Replace, Searching, ClockInv, Search
  <1>2. Best(clock_hand)
    BY <1>1, ClockVictim, ClockMVictim DEF ClockInv, ClockTypeOK, Search
  <1>3. UNCHANGED <<replaceAlgorithm, framesInMemory, before, used, call, turn, examined, crashed>>
    BY DEF TwoClockTurns_Replace, configuration
  <1>4. /\ victim' = clock_hand /\ saved' = before.modified[clock_hand]
        /\ modified' = [modified EXCEPT ![clock_hand] = FALSE]
        /\ clock_hand' = IncrementClockHand
    BY <1>1 DEF TwoClockTurns_Replace
  <1>5. clock_hand # -1
    BY <1>1, FramesAssumption DEF Frames
  <1>6. IncrementClockHand \in Nat
         /\ (framesInMemory = FramesPerProcess => IncrementClockHand \in Frames)
    BY <1>1, NextDistance DEF ClockInv
  <1>7. ClockTypeOK'
    BY <1>1, <1>3, <1>4, <1>6 DEF ClockInv, ClockTypeOK
  <1>8. HandCounts' /\ Search'
    BY <1>1, <1>3, <1>4, <1>5, <1>6 DEF ClockInv, HandCounts, Search
  <1>9. VictimIsBest'
    <2>1. Reference' = Reference
      BY <1>3 DEF Reference, Class, Distance
    <2>2. clock_hand = Reference
      BY <1>1, <1>2, BestIsReference DEF ClockInv
    <2>. QED BY <1>3, <1>4, <2>1, <2>2 DEF VictimIsBest
  <1>. QED BY <1>7, <1>8, <1>9 DEF ClockInv

\* The hand passes a page: what the turn has found out grows by it, and with the
\* last frame of a turn what the search has excluded grows by a class.
LEMMA Pass_Inv ==
  ASSUME ClockInv, TwoClockTurns_Pass
  PROVE  ClockInv'
  <1> DEFINE F == FramesPerProcess
             last == examined + 1 = F
  <1>1. /\ victim = -1 /\ ~crashed /\ clock_hand \in Frames /\ ~Replaceable
        /\ modified = before.modified /\ Distance(clock_hand) = examined
    BY DEF TwoClockTurns_Pass, Searching, ClockInv, Search, HandCounts
  <1>2. UNCHANGED <<replaceAlgorithm, framesInMemory, before, modified, victim, saved, crashed>>
    BY DEF TwoClockTurns_Pass, configuration
  <1>3. /\ clock_hand' = IncrementClockHand
        /\ used' = IF replaceAlgorithm = "CLOCK-M" /\ turn = 0 THEN used
                   ELSE [used EXCEPT ![clock_hand] = FALSE]
    BY DEF TwoClockTurns_Pass
  <1>4. /\ F \in Nat \ {0} /\ Frames = 0 .. F - 1 /\ examined \in 0 .. F - 1
        /\ turn \in {0, 1} /\ call \in 0 .. 2
    BY FramesAssumption DEF ClockInv, ClockTypeOK, Frames
  <1>5. /\ examined' = IF last THEN 0 ELSE examined + 1
        /\ turn' = IF ~last THEN turn ELSE IF turn = 1 THEN 0 ELSE 1
        /\ call' = IF last /\ turn = 1 THEN call + 1 ELSE call
    <2>1. turn + 1 = Turns <=> turn = 1
      BY <1>4 DEF Turns
    <2>. QED BY <1>4, <2>1 DEF TwoClockTurns_Pass
  <1>6. call < 2 /\ (replaceAlgorithm = "CLOCK" => call = 0)
    BY <1>1 DEF ClockInv, ClockTypeOK, Search, ClockSearch, ClockMSearch
  <1>7. ClockTypeOK'
    <2>1. used' \in [Frames -> BOOLEAN]
      BY <1>3 DEF ClockInv, ClockTypeOK
    <2>2. clock_hand' \in Nat
      BY <1>1, <1>3, NextDistance DEF ClockInv
    <2>3. examined' \in Frames /\ turn' \in {0, 1} /\ call' \in 0 .. 2
      BY <1>4, <1>5, <1>6
    <2>. QED BY <1>2, <2>1, <2>2, <2>3 DEF ClockInv, ClockTypeOK
  <1>8. HandCounts'
    <2>1. /\ framesInMemory = F => clock_hand' \in Frames
          /\ clock_hand' \in Frames =>
               Distance(clock_hand') = IF examined + 1 = F THEN 0 ELSE examined + 1
      BY <1>1, <1>3, NextDistance DEF ClockInv
    <2>2. Distance(clock_hand)' = Distance(clock_hand')
      BY <1>2 DEF Distance
    <2>. QED BY <1>1, <1>2, <1>5, <2>1, <2>2 DEF HandCounts
  <1>9. \A f \in Frames : /\ Distance(f) < examined + 1 <=> f \in Passed \/ f = clock_hand
                          /\ Distance(f) < F
                          /\ ~(Distance(f) < 0)
                          /\ clock_hand \notin Passed
    <2>1. \A f \in Frames : ~(Distance(f) < 0)
      BY <1>4, DistanceIs DEF ClockInv, ClockTypeOK
    <2>. QED BY <1>1, <2>1, PassedGrows DEF ClockInv
  <1>10. /\ ~last => Passed' = Passed \cup {clock_hand}
         /\ last => Frames = Passed \cup {clock_hand} /\ Passed' = {}
    <2>1. Passed' = {f \in Frames : Distance(f) < examined'}
      BY <1>2 DEF Passed, Distance
    <2>2. Passed \subseteq Frames
      BY DEF Passed
    <2>. QED BY <1>1, <1>5, <1>9, <2>1, <2>2
  <1> HIDE DEF last
  <1>11. ASSUME Clearing, used[clock_hand], used' = [used EXCEPT ![clock_hand] = FALSE]
         PROVE  /\ ~last => Clearing'
                /\ last => AllCleared'
    <2>1. before.used[clock_hand]
      BY <1>1, <1>9, <1>11 DEF Clearing
    <2>2. /\ \A f \in Passed \cup {clock_hand} : before.used[f] /\ ~used'[f]
          /\ \A f \in Frames \ (Passed \cup {clock_hand}) : used'[f] = before.used[f]
      BY <1>1, <1>11, <2>1 DEF Clearing, ClockInv, ClockTypeOK, Passed
    <2>. QED BY <1>2, <1>10, <2>2 DEF Clearing, AllCleared
  <1>12. ASSUME replaceAlgorithm = "CLOCK" PROVE ClockSearch'
    <2>1. used[clock_hand] /\ used' = [used EXCEPT ![clock_hand] = FALSE]
      BY <1>1, <1>3, <1>12 DEF Replaceable
    <2>2. call = 0 /\ turn = 0 /\ Clearing
      BY <1>1, <1>4, <1>12, <2>1 DEF ClockInv, Search, ClockSearch, AllCleared
    <2>3. call' = 0
      BY <1>5, <2>2
    <2>4. turn' = 0 => ~last
      BY <1>5, <2>2
    <2>5. turn' = 1 => last /\ examined' = 0
      BY <1>5, <2>2
    <2>. QED BY <1>11, <2>1, <2>2, <2>3, <2>4, <2>5 DEF ClockSearch
  <1>13. ASSUME replaceAlgorithm = "CLOCK-M" PROVE ClockMSearch'
    <2>0. ClockMSearch
      BY <1>1, <1>13 DEF ClockInv, Search
    <2>1. CASE call = 0 /\ turn = 0
      <3>1. used' = before.used /\ (before.used[clock_hand] \/ before.modified[clock_hand])
        BY <1>1, <1>3, <1>13, <2>0, <2>1 DEF ClockMSearch, Replaceable
      <3>2. \A f \in Passed \cup {clock_hand} : before.used[f] \/ before.modified[f]
        BY <2>0, <2>1, <3>1 DEF ClockMSearch
      <3>3. CASE ~last
        <4>1. call' = 0 /\ turn' = 0
          BY <1>5, <2>1, <3>3
        <4>. QED BY <1>2, <1>10, <3>1, <3>2, <3>3, <4>1 DEF ClockMSearch
      <3>4. CASE last
        <4>1. call' = 0 /\ turn' = 1
          BY <1>5, <2>1, <3>4
        <4>2. Clearing'
          BY <1>2, <1>10, <3>1, <3>4 DEF Clearing
        <4>. QED BY <1>2, <1>10, <3>2, <3>4, <4>1, <4>2 DEF ClockMSearch
      <3>. QED BY <3>3, <3>4
    <2>2. CASE call = 0 /\ turn = 1
      <3>1. used[clock_hand] /\ used' = [used EXCEPT ![clock_hand] = FALSE]
        BY <1>1, <1>3, <2>2 DEF Replaceable
      <3>2. Clearing /\ \A f \in Frames : before.used[f] \/ before.modified[f]
        BY <2>0, <2>2 DEF ClockMSearch
      <3>3. CASE ~last
        <4>1. call' = 0 /\ turn' = 1
          BY <1>5, <2>2, <3>3
        <4>. QED BY <1>2, <1>11, <3>1, <3>2, <3>3, <4>1 DEF ClockMSearch
      <3>4. CASE last
        <4>1. call' = 1 /\ turn' = 0
          BY <1>5, <2>2, <3>4
        <4>. QED BY <1>2, <1>10, <1>11, <3>1, <3>2, <3>4, <4>1 DEF ClockMSearch
      <3>. QED BY <3>3, <3>4
    <2>3. CASE call = 1 /\ turn = 0
      <3>1. used' = used /\ AllCleared /\ before.modified[clock_hand]
        BY <1>1, <1>3, <1>13, <2>0, <2>3 DEF ClockMSearch, AllCleared, Replaceable
      <3>2. AllCleared' /\ \A f \in Passed \cup {clock_hand} : before.modified[f]
        BY <1>2, <2>0, <2>3, <3>1 DEF ClockMSearch, AllCleared
      <3>3. CASE ~last
        <4>1. call' = 1 /\ turn' = 0
          BY <1>5, <2>3, <3>3
        <4>. QED BY <1>2, <1>10, <3>2, <3>3, <4>1 DEF ClockMSearch
      <3>4. CASE last
        <4>1. call' = 1 /\ turn' = 1 /\ examined' = 0
          BY <1>5, <2>3, <3>4
        <4>. QED BY <1>2, <1>10, <3>2, <3>4, <4>1 DEF ClockMSearch
      <3>. QED BY <3>3, <3>4
    <2>4. CASE call = 1 /\ turn = 1
      BY <1>1, <2>0, <2>4 DEF ClockMSearch, AllCleared, Replaceable
    <2>. QED BY <1>4, <2>0, <2>1, <2>2, <2>3, <2>4 DEF ClockMSearch
  <1>14. Search' /\ VictimIsBest'
    BY <1>1, <1>2, <1>12, <1>13 DEF Search, VictimIsBest
  <1>. QED BY <1>7, <1>8, <1>14 DEF ClockInv

\* The hand has left the list of frames.
LEMMA Crash_Inv ==
  ASSUME ClockInv, TwoClockTurns_Crash
  PROVE  ClockInv'
  <1>1. /\ UNCHANGED <<replaceAlgorithm, framesInMemory, before, used, modified, clock_hand, call,
                       turn, examined, victim, saved>>
        /\ crashed' = TRUE /\ clock_hand \notin Frames
    BY DEF TwoClockTurns_Crash, configuration
  <1>2. framesInMemory > FramesPerProcess
    <2>1. framesInMemory # FramesPerProcess
      BY <1>1 DEF ClockInv, HandCounts
    <2>2. framesInMemory \in Nat /\ framesInMemory >= FramesPerProcess /\ FramesPerProcess \in Nat
      BY FramesAssumption DEF ClockInv, ClockTypeOK
    <2>. QED BY <2>1, <2>2
  <1>3. ClockTypeOK' /\ HandCounts'
    BY <1>1, <1>2 DEF ClockInv, ClockTypeOK, HandCounts
  <1>4. Search' /\ VictimIsBest'
    BY <1>1 DEF ClockInv, Search, ClockSearch, ClockMSearch, Clearing, AllCleared, Passed,
       Distance, VictimIsBest, Reference, Class
  <1>. QED BY <1>3, <1>4 DEF ClockInv

\* The search starts with every frame ahead of the hand.
LEMMA ClockInitially == ClockInit => ClockInv
  <1> SUFFICES ASSUME ClockInit PROVE ClockInv
    OBVIOUS
  <1>1. FramesPerProcess \in Nat \ {0} /\ 0 \in Frames /\ -1 \notin Frames
    BY FramesAssumption DEF Frames
  <1>2. /\ before.used = used /\ before.modified = modified /\ before.clock_hand = clock_hand
        /\ clock_hand \in Frames /\ victim = -1 /\ ~crashed
        /\ call = 0 /\ turn = 0 /\ examined = 0
    BY DEF ClockInit
  <1>3. ClockTypeOK
    <2>1. clock_hand \in Nat
      BY <1>1, <1>2 DEF Frames
    <2>2. /\ before.used \in [Frames -> BOOLEAN] /\ before.modified \in [Frames -> BOOLEAN]
          /\ before.clock_hand \in Frames
      BY <1>2 DEF ClockInit
    <2>3. call \in 0 .. 2 /\ turn \in {0, 1} /\ examined \in Frames
      BY <1>1, <1>2
    <2>. QED BY <1>2, <2>1, <2>2, <2>3 DEF ClockInit, ClockTypeOK
  <1>4. Distance(clock_hand) = 0
    <2>1. Distance(clock_hand) = clock_hand - clock_hand
      BY <1>2, DistanceIs, FramesAssumption DEF Frames
    <2>. QED BY <1>2, <2>1 DEF Frames
  <1>5. Passed = {}
    BY <1>2, <1>3, DistanceIs, FramesAssumption DEF Passed, ClockTypeOK, Frames
  <1>6. HandCounts /\ Search
    BY <1>2, <1>4, <1>5 DEF HandCounts, Search, ClockSearch, ClockMSearch, Clearing
  <1>. QED BY <1>2, <1>3, <1>6 DEF ClockInv, VictimIsBest

\* ClockInv is an invariant, for any number of frames.
THEOREM ClockInvCorrect == ClockSpec => []ClockInv
  <1>1. ClockInv /\ [ClockNext]_clockVars => ClockInv'
    <2> SUFFICES ASSUME ClockInv, [ClockNext]_clockVars PROVE ClockInv'
      OBVIOUS
    <2>1. CASE UNCHANGED clockVars
      BY <2>1 DEF ClockInv, ClockTypeOK, HandCounts, Search, ClockSearch, ClockMSearch, Clearing,
         AllCleared, Passed, Distance, VictimIsBest, Reference, Class, clockVars, configuration
    <2>. QED BY <2>1, Replace_Inv, Pass_Inv, Crash_Inv DEF ClockNext, Returned
  <1>. QED BY <1>1, ClockInitially, PTL DEF ClockSpec

\* The frame that replace_algorithm gives up is the first of the lowest class from the
\* hand on, and its page is saved exactly if it had been modified: for any number of
\* frames, any bits and either algorithm.
THEOREM VictimCorrect == ClockSpec => []VictimIsBest
  <1>1. ClockInv => VictimIsBest
    BY DEF ClockInv
  <1>. QED BY <1>1, ClockInvCorrect, PTL

\* replace_algorithm never ends without a victim, except through a hand that has left
\* the frames of a process that has fewer than the memory.
THEOREM FindsVictimCorrect == ClockSpec => []FindsVictim
  <1>1. ClockInv => FindsVictim
    BY DEF ClockInv, ClockTypeOK, Search, ClockSearch, ClockMSearch, HandCounts, FindsVictim,
       Searching, Calls
  <1>. QED BY <1>1, ClockInvCorrect, PTL


=============================================================================
