----------------------------- MODULE MCPrefetch -----------------------------
(* Small instances of Prefetch: a strip of two frames, and one of three.    *)
EXTENDS Prefetch, TLC

CONSTANTS A, B, C, T1, T2, T3, T4

Two == (A :> <<B>>) @@ (B :> <<A>>)
Three == (A :> <<B>>) @@ (B :> <<C, A>>) @@ (C :> <<B>>)

(* The threads are interchangeable, and the frames of a strip of two; sound *)
(* for the run without liveness.                                            *)
Alike == Permutations(Threads) \cup Permutations(Files)
=============================================================================
