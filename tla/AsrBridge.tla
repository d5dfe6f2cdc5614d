------------------------------ MODULE AsrBridge ------------------------------
(***************************************************************************)
(* The decoder's life cycle in asrbridge_online.cc: the platform thread    *)
(* runs initialize and loadFST, the decoder thread runs thr_func, and they *)
(* meet only through the globals terminateDecoder and inputServer, which   *)
(* are neither atomic nor locked.  loadFST stops the decoder by setting    *)
(* the flag and killing its server, waits until the decoder has deleted    *)
(* the server and cleared the pointer, replaces the graph and starts the   *)
(* next decoder.                                                           *)
(***************************************************************************)
EXTENDS InputServer, Naturals, FiniteSets

CONSTANT Fst    \* addresses a decoding graph can be loaded at

ASSUME BridgeAssumption ==
  /\ Main \notin Thread
  /\ None \notin Addr \cup Fst \cup Desc \cup Port
  /\ Port \cap {"free", "client", "other"} = {}

VARIABLES
  terminateDecoder,
  inputServer,
  outputAccepted,  \* outputServer's client_desc_ # -1; nothing resets it
  decode_fst,
  fsts,            \* the graphs that are allocated
  graph,           \* the graph each thread's ddecoder refers to
  input_port,      \* input_port_num_actual (the output port is set with it)
  reported         \* the port the last successful initialize reply named

fstVars == <<decode_fst, fsts, graph>>
portVars == <<input_port, reported>>
bridgeVars == <<terminateDecoder, inputServer, outputAccepted,
                decode_fst, fsts, graph, input_port, reported>>
vars == <<serverVars, bridgeVars>>

MainLabels == {"idle", "initStart", "stop", "wait", "unload", "open", "relisten",
               "loadStart"} \cup DisconnectLabels \cup KillLabels
ThreadLabels == {"none", "loop", "sleep", "acceptOut", "accepted", "decode", "chunk",
                 "eos", "ended", "delete", "free", "clear"} \cup MethodLabels

Init ==
  /\ up = TRUE
  /\ pc = [a \in Actor |-> IF a = Main THEN "idle" ELSE "none"]
  /\ this = [a \in Actor |-> None]
  /\ ret = [a \in Actor |-> "none"]
  /\ heap = {}
  /\ server_desc = [s \in Addr |-> None]
  /\ client_desc = [s \in Addr |-> None]
  /\ fd = [d \in Desc |-> "free"]
  /\ terminateDecoder = FALSE
  /\ inputServer = None
  /\ outputAccepted = FALSE
  /\ decode_fst = None
  /\ fsts = {}
  /\ graph = [t \in Thread |-> None]
  /\ input_port = None
  /\ reported = None

Active(t) == pc[t] # "none"

Throw == Die /\ UNCHANGED bridgeVars

-----------------------------------------------------------------------------
(* The platform thread: initialize                                          *)

\* Both ports are known: the configuration goes back without further checks.
InitializeAgain ==
  /\ pc[Main] = "idle"
  /\ input_port # None
  /\ reported' = input_port
  /\ UNCHANGED <<serverVars, terminateDecoder, inputServer, outputAccepted,
                 fstVars, input_port>>

\* First call: read the models, listen on a port of the kernel's choice.  Every
\* failure is a KALDI_ERR, and so is what the catch clauses do with it.
InitializeFirst ==
  /\ pc[Main] = "idle"
  /\ input_port = None
  /\ \/ \E obj \in Addr, d \in Desc, p \in Port :
          /\ Listen(obj, d, p)
          /\ inputServer' = obj
          /\ input_port' = p
          /\ Goto(Main, "initStart")
          /\ UNCHANGED <<up, this, ret, terminateDecoder, outputAccepted,
                         fstVars, reported>>
     \/ Throw

\* start_decoder_thread, the last call of initialize and of loadFST.  When
\* pthread_create fails initialize replies with the ports it was entered with,
\* -1 and -1, and the channel handler drops the code loadFST returns.
StartDecoder ==
  /\ pc[Main] \in {"initStart", "loadStart"}
  /\ \/ \E t \in Thread :
          /\ pc[t] = "none"
          /\ pc' = [pc EXCEPT ![t] = "loop", ![Main] = "idle"]
          /\ reported' = IF pc[Main] = "initStart" THEN input_port ELSE reported
     \/ Goto(Main, "idle") /\ UNCHANGED reported
  /\ UNCHANGED <<up, this, ret, heap, server_desc, client_desc, fd,
                 terminateDecoder, inputServer, outputAccepted, fstVars, input_port>>

-----------------------------------------------------------------------------
(* The platform thread: loadFST                                             *)

\* Callers have had a successful initialize reply, as the API demands.
CallLoadFST ==
  /\ pc[Main] = "idle"
  /\ reported # None
  /\ terminateDecoder' = TRUE
  /\ Goto(Main, "stop")
  /\ UNCHANGED <<up, this, ret, heap, server_desc, client_desc, fd,
                 inputServer, outputAccepted, fstVars, portVars>>

\* inputServer->Kill() on whatever the pointer holds by now.
StopServer ==
  /\ pc[Main] = "stop"
  /\ \/ /\ inputServer # None
        /\ Call(Main, inputServer, "disconnect", "kill")
        /\ UNCHANGED <<up, heap, server_desc, client_desc, fd, bridgeVars>>
     \/ inputServer = None /\ Throw

\* Mutant: loadFST waits until the flag is up, not until the decoder has gone.
FlagIsUp == terminateDecoder

\* while (inputServer) sleep
DecoderGone == inputServer = None

WaitForDecoder ==
  /\ pc[Main] = "wait"
  /\ DecoderGone
  /\ Goto(Main, "unload")
  /\ UNCHANGED <<up, this, ret, heap, server_desc, client_desc, fd, bridgeVars>>

UnloadFST ==
  /\ pc[Main] = "unload"
  /\ fsts' = fsts \ {decode_fst}
  /\ Goto(Main, "open")
  /\ UNCHANGED <<up, this, ret, heap, server_desc, client_desc, fd, terminateDecoder,
                 inputServer, outputAccepted, decode_fst, graph, portVars>>

\* openFST throws on a bad header, an unknown arc type or an unreadable body.
OpenFST ==
  /\ pc[Main] = "open"
  /\ \/ /\ \E f \in Fst \ fsts : decode_fst' = f /\ fsts' = fsts \cup {f}
        /\ Goto(Main, "relisten")
        /\ UNCHANGED <<up, this, ret, heap, server_desc, client_desc, fd,
                       terminateDecoder, inputServer, outputAccepted, graph, portVars>>
     \/ Throw

\* Mutant: Listen(0), as in initialize.
AnyPort == Port

\* Listen(input_port_num_actual)
SamePort == {input_port}

\* A new server on the port of the old one, and the flag comes down.
Relisten ==
  /\ pc[Main] = "relisten"
  /\ \/ \E obj \in Addr, d \in Desc, p \in SamePort :
          /\ Listen(obj, d, p)
          /\ inputServer' = obj
          /\ input_port' = p
          /\ terminateDecoder' = FALSE
          /\ Goto(Main, "loadStart")
          /\ UNCHANGED <<up, this, ret, outputAccepted, fstVars, reported>>
     \/ Throw

-----------------------------------------------------------------------------
(* The decoder thread: thr_func                                             *)

LoopHead(t) ==
  /\ pc[t] = "loop"
  /\ Goto(t, IF terminateDecoder THEN "delete" ELSE "acceptOut")
  /\ UNCHANGED <<up, this, ret, heap, server_desc, client_desc, fd, bridgeVars>>

Sleep(t) ==
  /\ pc[t] = "sleep"
  /\ Goto(t, "loop")
  /\ UNCHANGED <<up, this, ret, heap, server_desc, client_desc, fd, bridgeVars>>

\* outputServer->Accept(): only this thread ever uses that server, so the call
\* is one step; once a client is accepted it is returned for ever.
AcceptOutput(t) ==
  /\ pc[t] = "acceptOut"
  /\ \/ /\ inputServer # None
        /\ outputAccepted' = TRUE
        /\ Call(t, inputServer, "accept", "none")
        /\ UNCHANGED <<up, heap, server_desc, client_desc, fd, terminateDecoder,
                       inputServer, fstVars, portVars>>
     \/ /\ ~outputAccepted
        /\ Goto(t, "sleep")
        /\ UNCHANGED <<up, this, ret, heap, server_desc, client_desc, fd, bridgeVars>>
     \/ (inputServer = None \/ ~outputAccepted) /\ Throw

\* Without a graph go round again; otherwise build the utterance's decoder.
CheckFST(t) ==
  /\ pc[t] = "accepted"
  /\ Goto(t, IF decode_fst = None THEN "sleep" ELSE "decode")
  /\ graph' = [graph EXCEPT ![t] = decode_fst]
  /\ UNCHANGED <<up, this, ret, heap, server_desc, client_desc, fd, terminateDecoder,
                 inputServer, outputAccepted, decode_fst, fsts, portVars>>

\* while (!terminateDecoder) inputServer->ReadChunk(...)
DecodeLoop(t) ==
  /\ pc[t] = "decode"
  /\ \/ /\ terminateDecoder
        /\ Goto(t, "ended")
        /\ UNCHANGED <<up, this, ret, heap, server_desc, client_desc, fd, bridgeVars>>
     \/ /\ ~terminateDecoder /\ inputServer # None
        /\ Call(t, inputServer, "read", "none")
        /\ UNCHANGED <<up, heap, server_desc, client_desc, fd, bridgeVars>>
     \/ ~terminateDecoder /\ inputServer = None /\ Throw

\* The chunk goes through the feature pipeline and the decoder; transcripts and
\* endpoints are DecodeSession's subject.
DecodeChunk(t) ==
  /\ pc[t] = "chunk"
  /\ Goto(t, IF terminateDecoder THEN "ended" ELSE "decode")
  /\ UNCHANGED <<up, this, ret, heap, server_desc, client_desc, fd, bridgeVars>>

\* End of stream: final transcript, then inputServer->Disconnect().
EndOfAudio(t) ==
  /\ pc[t] = "eos"
  /\ \/ /\ terminateDecoder
        /\ Goto(t, "ended")
        /\ UNCHANGED <<up, this, ret, heap, server_desc, client_desc, fd, bridgeVars>>
     \/ /\ ~terminateDecoder /\ inputServer # None
        /\ Call(t, inputServer, "disconnect", "ended")
        /\ UNCHANGED <<up, heap, server_desc, client_desc, fd, bridgeVars>>
     \/ ~terminateDecoder /\ inputServer = None /\ Throw

\* Mutant: the utterance decoder outlives its utterance.
EndUtteranceKeepsGraph(t) ==
  /\ pc[t] = "ended"
  /\ Goto(t, "loop")
  /\ UNCHANGED <<up, this, ret, heap, server_desc, client_desc, fd, bridgeVars>>

\* feature_pipeline and ddecoder go out of scope; back to the outer loop.
EndUtterance(t) ==
  /\ pc[t] = "ended"
  /\ graph' = [graph EXCEPT ![t] = None]
  /\ Goto(t, "loop")
  /\ UNCHANGED <<up, this, ret, heap, server_desc, client_desc, fd, terminateDecoder,
                 inputServer, outputAccepted, decode_fst, fsts, portVars>>

\* delete(inputServer): the destructor calls Kill; deleting nullptr does nothing.
DeleteServer(t) ==
  /\ pc[t] = "delete"
  /\ IF inputServer # None
     THEN Call(t, inputServer, "disconnect", "kill")
     ELSE Goto(t, "clear") /\ UNCHANGED <<this, ret>>
  /\ UNCHANGED <<up, heap, server_desc, client_desc, fd, bridgeVars>>

FreeServer(t) ==
  /\ pc[t] = "free"
  /\ heap' = heap \ {this[t]}
  /\ Goto(t, "clear")
  /\ UNCHANGED <<up, this, ret, server_desc, client_desc, fd, bridgeVars>>

\* Mutant: the decoder leaves without clearing the pointer.
LeaveWithoutClearing(t) ==
  /\ pc[t] = "clear"
  /\ Goto(t, "none")
  /\ UNCHANGED <<up, this, ret, heap, server_desc, client_desc, fd, bridgeVars>>

\* inputServer = nullptr; return: what loadFST waits for.
ClearServerPtr(t) ==
  /\ pc[t] = "clear"
  /\ inputServer' = None
  /\ Goto(t, "none")
  /\ UNCHANGED <<up, this, ret, heap, server_desc, client_desc, fd,
                 terminateDecoder, outputAccepted, fstVars, portVars>>

-----------------------------------------------------------------------------

\* Calls the Dart side may make at any time, or never.
PlatformCall == InitializeFirst \/ InitializeAgain \/ CallLoadFST

\* What the platform thread does by itself once a call has begun.
PlatformStep ==
  \/ StartDecoder \/ StopServer \/ WaitForDecoder \/ UnloadFST \/ OpenFST \/ Relisten
  \/ (KillStep(Main) \/ FreedAccess(Main)) /\ UNCHANGED bridgeVars

DecoderStep(t) ==
  \/ LoopHead(t) \/ Sleep(t) \/ AcceptOutput(t) \/ CheckFST(t) \/ DecodeLoop(t)
  \/ DecodeChunk(t) \/ EndOfAudio(t) \/ EndUtterance(t)
  \/ DeleteServer(t) \/ FreeServer(t) \/ ClearServerPtr(t)
  \/ (KillStep(t) \/ AcceptStep(t) \/ ReadStep(t) \/ FreedAccess(t)) /\ UNCHANGED bridgeVars

Environment ==
  /\ OtherOpens \/ OtherCloses \/ \E a \in Actor : FreedReused(a)
  /\ UNCHANGED bridgeVars

Next == up /\ (PlatformCall \/ PlatformStep \/ (\E t \in Thread : DecoderStep(t)) \/ Environment)

Spec == Init /\ [][Next]_vars

\* The operating system runs every thread that can run; nobody has to call.
FairSpec ==
  /\ Spec
  /\ WF_vars(up /\ PlatformStep)
  /\ \A t \in Thread : WF_vars(up /\ DecoderStep(t))

-----------------------------------------------------------------------------
(* Properties                                                               *)

TypeOK ==
  /\ up \in BOOLEAN /\ terminateDecoder \in BOOLEAN /\ outputAccepted \in BOOLEAN
  /\ pc \in [Actor -> MainLabels \cup ThreadLabels]
  /\ pc[Main] \in MainLabels /\ \A t \in Thread : pc[t] \in ThreadLabels
  /\ this \in [Actor -> Addr \cup {None}]
  /\ ret \in [Actor -> {"none", "kill", "chunk", "eos", "ended"}]
  /\ heap \subseteq Addr
  /\ inputServer \in Addr \cup {None}
  /\ server_desc \in [Addr -> Desc \cup {None}]
  /\ client_desc \in [Addr -> Desc \cup {None}]
  /\ fd \in [Desc -> DescState]
  /\ decode_fst \in Fst \cup {None} /\ fsts \subseteq Fst
  /\ graph \in [Thread -> Fst \cup {None}]
  /\ input_port \in Port \cup {None} /\ reported \in Port \cup {None}

\* Whatever the order of reloads, failed thread creations and retries, two
\* threads never run thr_func together: it uses the models, the graph and both
\* servers without a lock.
OneDecoder == \A t, u \in Thread : Active(t) /\ Active(u) => t = u

\* The utterance decoder refers to the graph by reference: loadFST deletes and
\* replaces the graph only when no utterance uses it.
FstSafe == \A t \in Thread : graph[t] # None => graph[t] = decode_fst /\ graph[t] \in fsts

\* While a decoder thread lives, the object behind inputServer is allocated and
\* is the one whose method it executes, although loadFST may be replacing it.
DecoderOwnsServer ==
  \A t \in Thread : Active(t) /\ pc[t] # "clear" =>
    /\ inputServer \in heap
    /\ pc[t] \in MethodLabels \cup {"free"} => this[t] = inputServer

\* Every socket of the input side is held by the server that is in use: no
\* reload and no interleaving of Kill with Accept or ReadChunk leaks one.
DescriptorsOwned ==
  \A d \in Desc :
    /\ fd[d] \in Port => inputServer # None /\ server_desc[inputServer] = d
    /\ fd[d] = "client" => inputServer # None /\ client_desc[inputServer] = d

\* The Dart side caches the port of the first reply for ever: whatever listens
\* for audio later, after any number of reloads, listens there.
PortHonoured == \A d \in Desc : fd[d] \in Port => input_port = fd[d] /\ reported \in {None, fd[d]}

\* A descriptor of another part of the process is closed in one place only: during
\* a reload the platform thread and the decoder thread are both past the test of
\* Disconnect, or of Kill, on one server; the first has closed the member and not yet
\* cleared it, and the second closes the same number again.  The other way is a
\* Kill of loadFST that outlives the server.
ForeignCloseOnlyInReload ==
  [][\A d \in Desc : fd[d] = "other" /\ fd'[d] = "free" /\ pc' # pc =>
       /\ terminateDecoder
       /\ \E a, b \in Actor :
            /\ pc'[a] # pc[a]
            /\ \/ this[a] \notin heap
               \/ /\ this[a] = this[b]
                  /\ \/ pc[a] = "closeClient" /\ pc[b] = "clearClient"
                     \/ pc[a] = "closeServer" /\ pc[b] = "clearServer"]_vars

\* What Accept and ReadChunk use is an open descriptor that their server holds, with
\* or without a reload.  A reload makes two exceptions and no third: loadFST has
\* cleared the member by now (FD_SET(-1), accept(-1) and read(-1)), or it is between
\* its close() and the clearing (EBADF, or a number that belongs to somebody else).
UsesOpenDescriptors ==
  \A t \in Thread :
    /\ pc[t] \in {"select", "acceptClient"} =>
         \/ server_desc[this[t]] \in {d \in Desc : fd[d] \in Port}
         \/ /\ terminateDecoder
            /\ \/ server_desc[this[t]] = None
               \/ pc[Main] = "clearServer" /\ this[Main] = this[t]
    /\ pc[t] \in {"selectData", "selectMore", "poll", "readData"} =>
         \/ client_desc[this[t]] \in {d \in Desc : fd[d] = "client"}
         \/ /\ terminateDecoder
            /\ \/ client_desc[this[t]] = None
               \/ pc[Main] = "clearClient" /\ this[Main] = this[t]

\* loadFST, waiting for a decoder thread that exists, gets past its wait loop:
\* every path through Accept, ReadChunk and the decode loop sees the flag.
LoadFSTReturns == pc[Main] = "wait" /\ (\E t \in Thread : Active(t)) ~> pc[Main] # "wait" \/ ~up

\* initialize "is safe to call a number of times": a reply with ports means that
\* somebody decodes what is sent to them, unless a reload is under way.
RepliedPortsAreServed == pc[Main] = "idle" /\ reported # None => \E t \in Thread : Active(t)

\* loadFST, called after a successful initialize, stops a server that exists.
KillTargetAllocated ==
  /\ pc[Main] = "stop" => inputServer # None
  /\ pc[Main] \in DisconnectLabels \cup KillLabels => this[Main] \in heap

\* The bridge implements the hand-over of the graph between the two threads.
Handoff == INSTANCE DecoderHandoff WITH
  running <- \E t \in Thread : Active(t),
  stopping <- terminateDecoder,
  loaded <- {decode_fst} \cap fsts,
  used <- {graph[t] : t \in Thread} \ {None}

\* Every step of the two threads is a step of DecoderHandoff: a graph is replaced
\* after the utterances that refer to it and before the next decoder starts.
ImplementsHandoff == Handoff!Spec
=============================================================================
