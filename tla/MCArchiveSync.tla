--------------------------- MODULE MCArchiveSync ---------------------------
(* Small instances of ArchiveSync: two machines that share one archive.     *)
EXTENDS ArchiveSync, TLC

CONSTANTS A, B

(* The machines are interchangeable; sound for the run without liveness.    *)
MachinesAlike == Permutations(Machines)
=============================================================================
