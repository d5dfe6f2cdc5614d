----------------------------- MODULE MCAsrBridge -----------------------------
(* Symmetry for the safety runs of AsrBridge.                               *)
EXTENDS AsrBridge, TLC

Symmetry == Permutations(Thread) \cup Permutations(Addr) \cup Permutations(Fst)
            \cup Permutations(Desc) \cup Permutations(Port)
=============================================================================
