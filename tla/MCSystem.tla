------------------------------ MODULE MCSystem ------------------------------
(***************************************************************************)
(* Small instances of System.  Sizes are in bytes, against pages of 10.    *)
(***************************************************************************)
EXTENDS System, TLC

CONSTANTS c1, c2, c3

\* Three lives: with one I/O, with an instruction before it, with none.
ThreePrograms ==
    c1 :> <<"I/O", "EXIT">> @@ c2 :> <<"NO_OP", "I/O", "EXIT">> @@ c3 :> <<"EXIT">>

\* The two that can be suspended have no second-level table; c3 has one.
ThreeSizes == c1 :> 5 @@ c2 :> 0 @@ c3 :> 25

TwoPrograms == c1 :> <<"I/O", "EXIT">> @@ c2 :> <<"NO_OP", "I/O", "EXIT">>
SmallSizes == c1 :> 5 @@ c2 :> 5

\* For SRT: c3 uses its memory.
MixedPrograms ==
    c1 :> <<"NO_OP", "EXIT">> @@ c2 :> <<"I/O", "EXIT">> @@ c3 :> <<"WRITE", "EXIT">>
MixedSizes == c1 :> 5 @@ c2 :> 25 @@ c3 :> 5
=============================================================================
