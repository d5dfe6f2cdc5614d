--------------------------- MODULE DecoderHandoff ----------------------------
(***************************************************************************)
(* What initialize and loadFST promise about the decoding graph: there is  *)
(* one decoder at most, an utterance is decoded with the graph that was    *)
(* loaded when it began and keeps it until it ends, and the graph is       *)
(* replaced only after the decoder that may use it has gone.               *)
(*                                                                         *)
(* loaded and used are sets of at most one graph.                          *)
(***************************************************************************)
CONSTANT Fst

VARIABLES
  running,   \* a decoder thread exists
  stopping,  \* a reload has asked it to go
  loaded,    \* the graph in memory
  used       \* the graph the current utterance refers to

vars == <<running, stopping, loaded, used>>

Init ==
  /\ running = FALSE
  /\ stopping = FALSE
  /\ loaded = {}
  /\ used = {}

Start ==
  /\ ~running /\ ~stopping
  /\ running' = TRUE
  /\ UNCHANGED <<stopping, loaded, used>>

BeginUtterance ==
  /\ running /\ used = {}
  /\ used' = loaded
  /\ UNCHANGED <<running, stopping, loaded>>

EndUtterance ==
  /\ used' = {}
  /\ UNCHANGED <<running, stopping, loaded>>

AskToStop ==
  /\ stopping' = TRUE
  /\ UNCHANGED <<running, loaded, used>>

Stop ==
  /\ running /\ stopping /\ used = {}
  /\ running' = FALSE
  /\ UNCHANGED <<stopping, loaded, used>>

Unload ==
  /\ stopping /\ ~running
  /\ loaded' = {}
  /\ UNCHANGED <<running, stopping, used>>

Load ==
  /\ stopping /\ ~running /\ loaded = {}
  /\ \E f \in Fst : loaded' = {f}
  /\ UNCHANGED <<running, stopping, used>>

Resume ==
  /\ stopping /\ ~running
  /\ stopping' = FALSE
  /\ UNCHANGED <<running, loaded, used>>

Next ==
  \/ Start \/ BeginUtterance \/ EndUtterance
  \/ AskToStop \/ Stop \/ Unload \/ Load \/ Resume

Spec == Init /\ [][Next]_vars
=============================================================================
