------------------------------ MODULE MCWorker ------------------------------
(* A small instance of Worker: two frames; an unedited edit, one that       *)
(* differs from it in the finish alone, and one with fills to make.         *)
EXTENDS Worker, TLC

CONSTANTS A, B, Neutral, Bright, Healed

MCDevelopOf == [e \in Edits |-> IF e = Healed THEN "healed" ELSE "neutral"]
MCFills1    == [e \in Edits |-> IF e = Healed THEN 1 ELSE 0]
MCFills     == [e \in Edits |-> IF e = Healed THEN 2 ELSE 0]

(* The frames are interchangeable; sound for the runs without liveness. *)
FramesAlike == Permutations(Files)
=============================================================================
