----------------------------- MODULE NewestWins -----------------------------
(***************************************************************************)
(* What the editor's worker promises of the develops the window asks for   *)
(* (greycard-engine/src/worker/mod.rs: "one job at a time, the newest      *)
(* develop winning"), whatever else it does between them.                  *)
(*                                                                         *)
(* Asks are numbered.  Taking one always takes the newest; those passed    *)
(* over are never heard of again.  What is taken is done before another is *)
(* taken, the newest ask is taken in the end, and leaving is the only way  *)
(* out of that.                                                            *)
(***************************************************************************)
EXTENDS Naturals

VARIABLES
    asked,    \* the newest ask
    taken,    \* the ask last taken
    settled,  \* the ask last done with
    left      \* the asker has left

vars == <<asked, taken, settled, left>>

Init == asked = 0 /\ taken = 0 /\ settled = 0 /\ left = FALSE

Ask == ~left /\ asked' = asked + 1 /\ UNCHANGED <<taken, settled, left>>

Take ==
    /\ ~left /\ taken = settled /\ taken < asked
    /\ taken' = asked
    /\ UNCHANGED <<asked, settled, left>>

Settle == settled < taken /\ settled' = taken /\ UNCHANGED <<asked, taken, left>>

Leave == ~left /\ left' = TRUE /\ UNCHANGED <<asked, taken, settled>>

Next == Ask \/ Take \/ Settle \/ Leave

Spec == Init /\ [][Next]_vars

FairSpec == Spec /\ WF_vars(Take) /\ WF_vars(Settle)
=============================================================================
