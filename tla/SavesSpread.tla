----------------------------- MODULE SavesSpread -----------------------------
(***************************************************************************)
(* What machines that share an archive promise of the saves of one frame   *)
(* (greycard-edit/src/sync.rs: a copy that knows the other's latest        *)
(* revision goes over it, of two that do not know each other a join is     *)
(* made).  However copies go over each other, each place comes to know     *)
(* more saves and never fewer, and a save it did not make it has from the  *)
(* archive, where a machine that knew it put it.                           *)
(***************************************************************************)
CONSTANTS Machines,
          First      \* the save that every place starts from

VARIABLES known,     \* the saves that each machine's copy knows
          there      \* the saves that the archive's copy knows

vars == <<known, there>>

Init == known = [m \in Machines |-> {First}] /\ there \in {{}, {First}}

Learns(m, saves) == known' = [known EXCEPT ![m] = @ \cup saves] /\ UNCHANGED there

\* A machine saves its frame.
Save(m) == \E save \in known'[m] : Learns(m, {save})

\* It takes what is on the archive, or was there when it looked.
Take(m) == Learns(m, known'[m] \cap there)

\* It joins its copy with what is, or was, on the archive, and saves the join.
Join(m) == \E save \in known'[m] : Learns(m, {save} \cup (known'[m] \cap there))

\* It puts on the archive a copy of its own, its present one or an earlier.
Put(m) == there \subseteq there' /\ there' \subseteq known[m] /\ UNCHANGED known

Next == \E m \in Machines : Save(m) \/ Take(m) \/ Join(m) \/ Put(m)
Spec == Init /\ [][Next]_vars
=============================================================================
