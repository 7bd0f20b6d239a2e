------------------------------ MODULE MCCopies ------------------------------
(* The instances of Copies that TLC checks.                                *)
EXTENDS Copies

\* An order of the hashes that is not the order they were made in.
MCHashRank(h) == 17 * (h \div 17) + ((5 * h) % 17)

MCPreset == <<0, 1>>
MCLooks == <<{MCPreset}, {MCPreset, <<2, 1>>}>>
MCRatings == <<{1}, {0}>>
MCActs == <<3, 2>>
MCSkew == <<0, 1>>

\* Three machines with true clocks; the second only rates.
MCLooksOfThree == <<{MCPreset}, {}, {MCPreset}>>
MCRatingsOfThree == [m \in Machines |-> {0, 1}]
MCActsOfThree == <<2, 2, 1>>
MCNoSkew == [m \in Machines |-> 0]
=============================================================================
