--------------------------- MODULE AsrBridgeProofs ---------------------------
(***************************************************************************)
(* The inductive invariant of AsrBridge and what follows from it, for any  *)
(* number of thread ids, addresses, graphs, descriptors and ports.         *)
(*                                                                         *)
(* OneDecoder alone is not inductive: loadFST starts a decoder because it  *)
(* has seen inputServer = None, so the invariant says who may hold that    *)
(* pointer, where the platform thread may be while it is null, and what a  *)
(* decoder at each label still has to give back before it clears it.       *)
(***************************************************************************)
EXTENDS AsrBridge, TLAPS

NoDecoder == \A t \in Thread : ~Active(t)

\* Labels at which thr_func is inside the block that declares ddecoder.
InUtterance(t) ==
  \/ pc[t] \in {"decode", "chunk", "eos", "ended"} \cup ReadLabels
  \/ pc[t] \in DisconnectLabels /\ ret[t] \in {"chunk", "eos", "ended"}

\* Only a living decoder clears inputServer, and it frees the object first.
PointerHeld ==
  \A t \in Thread : Active(t) =>
    /\ inputServer # None
    /\ pc[t] # "clear" => inputServer \in heap

MethodOnServer ==
  \A t \in Thread : pc[t] \in MethodLabels \cup {"free"} => this[t] = inputServer

\* loadFST between its wait loop and the new server, and both calls just before
\* start_decoder_thread.
MainAlone ==
  /\ pc[Main] \in {"unload", "open", "relisten"} => inputServer = None
  /\ pc[Main] \in {"initStart", "loadStart"} => inputServer \in heap /\ NoDecoder
  /\ input_port = None => inputServer = None /\ pc[Main] = "idle" /\ reported = None

\* Where Disconnect returns, and that Kill has an object.
Returns ==
  /\ pc[Main] \in DisconnectLabels => ret[Main] = "kill"
  /\ \A t \in Thread : pc[t] \in DisconnectLabels => ret[t] # "none"
  /\ pc[Main] \in MethodLabels => this[Main] # None

GraphHeld ==
  /\ \A t \in Thread : graph[t] # None => graph[t] = decode_fst /\ InUtterance(t)
  /\ pc[Main] # "open" /\ decode_fst # None => decode_fst \in fsts
  /\ pc[Main] = "open" => decode_fst \notin fsts

IInv ==
  /\ TypeOK /\ OneDecoder /\ PointerHeld /\ MethodOnServer
  /\ MainAlone /\ Returns /\ GraphHeld

LEMMA InitIInv == Init => IInv
  <1> SUFFICES ASSUME Init PROVE IInv OBVIOUS
  <1> USE BridgeAssumption DEF Init, Actor
  <1>1. TypeOK BY DEF TypeOK, MainLabels, ThreadLabels, DescState
  <1>2. OneDecoder /\ PointerHeld BY DEF OneDecoder, PointerHeld, Active
  <1>3. MethodOnServer /\ Returns
    BY DEF MethodOnServer, Returns, MethodLabels, DisconnectLabels, KillLabels,
       AcceptLabels, ReadLabels
  <1>4. MainAlone BY DEF MainAlone
  <1>5. GraphHeld BY DEF GraphHeld
  <1> QED BY <1>1, <1>2, <1>3, <1>4, <1>5 DEF IInv

\* The end of the process moves nothing.
LEMMA CrashIInv == ASSUME IInv, Throw PROVE IInv'
  <1> USE DEF Throw, Die, bridgeVars, IInv, Active
  <1>1. TypeOK' BY DEF TypeOK
  <1>2. OneDecoder' /\ PointerHeld' BY DEF OneDecoder, PointerHeld
  <1>3. MethodOnServer' /\ Returns' BY DEF MethodOnServer, Returns
  <1>4. MainAlone' BY DEF MainAlone, NoDecoder
  <1>5. GraphHeld' BY DEF GraphHeld, InUtterance
  <1> QED BY <1>1, <1>2, <1>3, <1>4, <1>5

\* initialize and loadFST.  Two facts carry it: inputServer is null after the
\* wait loop, so nobody decodes, and Listen allocates the next server.
LEMMA PlatformIInv ==
  ASSUME IInv,
         \/ PlatformCall \/ StartDecoder \/ StopServer \/ WaitForDecoder
         \/ UnloadFST \/ OpenFST \/ Relisten
  PROVE  IInv'
  <1> USE BridgeAssumption DEF Actor, IInv, TypeOK, OneDecoder, PointerHeld, MethodOnServer,
      MainAlone, Returns, GraphHeld, Active, NoDecoder, InUtterance, Goto, Call,
      serverVars, bridgeVars, fstVars, portVars, DescState, MainLabels, ThreadLabels,
      MethodLabels, DisconnectLabels, KillLabels, AcceptLabels, ReadLabels
  <1>1. CASE InitializeFirst
    <2>1. CASE Throw BY <2>1, CrashIInv
    <2>2. CASE ~Throw BY <1>1, <2>2 DEF InitializeFirst, Listen
    <2> QED BY <2>1, <2>2
  <1>2. CASE InitializeAgain BY <1>2 DEF InitializeAgain
  <1>3. CASE CallLoadFST BY <1>3 DEF CallLoadFST
  <1>4. CASE StartDecoder BY <1>4 DEF StartDecoder
  <1>5. CASE StopServer
    <2>1. CASE Throw BY <2>1, CrashIInv
    <2>2. CASE ~Throw BY <1>5, <2>2 DEF StopServer
    <2> QED BY <2>1, <2>2
  <1>6. CASE WaitForDecoder BY <1>6 DEF WaitForDecoder, DecoderGone
  <1>7. CASE UnloadFST BY <1>7 DEF UnloadFST
  <1>8. CASE OpenFST
    <2>1. CASE Throw BY <2>1, CrashIInv
    <2>2. CASE ~Throw BY <1>8, <2>2 DEF OpenFST
    <2> QED BY <2>1, <2>2
  <1>9. CASE Relisten
    <2>1. CASE Throw BY <2>1, CrashIInv
    <2>2. CASE ~Throw
      <3>a. PICK obj \in Addr, d \in Desc :
              /\ pc[Main] = "relisten" /\ Listen(obj, d, input_port)
              /\ inputServer' = obj /\ terminateDecoder' = FALSE /\ Goto(Main, "loadStart")
              /\ input_port' = input_port
              /\ UNCHANGED <<up, this, ret, outputAccepted, fstVars, reported>>
        BY <1>9, <2>2 DEF Relisten, SamePort
      <3>1. TypeOK'
        <4>1. input_port \in Port
          <5>1. input_port # None BY <3>a
          <5> QED BY <5>1
        <4> HIDE DEF OneDecoder, PointerHeld, MethodOnServer, MainAlone, Returns, GraphHeld
        <4>2. pc' \in [Actor -> MainLabels \cup ThreadLabels] /\ pc'[Main] \in MainLabels
              /\ \A t \in Thread : pc'[t] \in ThreadLabels
          BY <3>a
        <4>3. /\ heap' \subseteq Addr /\ inputServer' \in Addr
              /\ server_desc' \in [Addr -> Desc \cup {None}]
              /\ client_desc' \in [Addr -> Desc \cup {None}]
              /\ fd' \in [Desc -> DescState]
          BY <3>a, <4>1 DEF Listen
        <4> QED BY <3>a, <4>1, <4>2, <4>3
      <3>2. OneDecoder' BY <3>a DEF Listen
      <3>3. PointerHeld' BY <3>a DEF Listen
      <3>4. MethodOnServer' BY <3>a DEF Listen
      <3>5. MainAlone' BY <3>a DEF Listen
      <3>6. Returns' BY <3>a DEF Listen
      <3>7. GraphHeld' BY <3>a DEF Listen
      <3> QED BY <3>1, <3>2, <3>3, <3>4, <3>5, <3>6, <3>7
    <2> QED BY <2>1, <2>2
  <1> QED BY <1>1, <1>2, <1>3, <1>4, <1>5, <1>6, <1>7, <1>8, <1>9 DEF PlatformCall

\* thr_func outside the methods of the server.
LEMMA DecoderIInv ==
  ASSUME IInv, NEW t \in Thread,
         \/ LoopHead(t) \/ Sleep(t) \/ AcceptOutput(t) \/ CheckFST(t) \/ DecodeLoop(t)
         \/ DecodeChunk(t) \/ EndOfAudio(t) \/ EndUtterance(t)
         \/ DeleteServer(t) \/ FreeServer(t) \/ ClearServerPtr(t)
  PROVE  IInv'
  <1> USE BridgeAssumption DEF Actor, IInv, TypeOK, OneDecoder, PointerHeld, MethodOnServer,
      MainAlone, Returns, GraphHeld, Active, NoDecoder, InUtterance, Goto, Call,
      serverVars, bridgeVars, fstVars, portVars, DescState, MainLabels, ThreadLabels,
      MethodLabels, DisconnectLabels, KillLabels, AcceptLabels, ReadLabels
  <1>1. CASE LoopHead(t) BY <1>1 DEF LoopHead
  <1>2. CASE Sleep(t) BY <1>2 DEF Sleep
  <1>3. CASE AcceptOutput(t)
    <2>1. CASE Throw BY <2>1, CrashIInv
    <2>2. CASE /\ pc[t] = "acceptOut" /\ Call(t, inputServer, "accept", "none")
               /\ inputServer # None /\ outputAccepted' = TRUE
               /\ UNCHANGED <<up, heap, server_desc, client_desc, fd, terminateDecoder,
                              inputServer, fstVars, portVars>>
      <3>1. TypeOK' BY <2>2
      <3>2. OneDecoder' BY <2>2
      <3>3. PointerHeld' BY <2>2
      <3>4. MethodOnServer' BY <2>2
      <3>5. MainAlone' BY <2>2
      <3>6. Returns' BY <2>2
      <3>7. GraphHeld' BY <2>2
      <3> QED BY <3>1, <3>2, <3>3, <3>4, <3>5, <3>6, <3>7
    <2>3. CASE /\ pc[t] = "acceptOut" /\ Goto(t, "sleep")
               /\ UNCHANGED <<up, this, ret, heap, server_desc, client_desc, fd, bridgeVars>>
      BY <2>3
    <2> HIDE DEF IInv, TypeOK
    <2> QED BY <1>3, <2>1, <2>2, <2>3 DEF AcceptOutput
  <1>4. CASE CheckFST(t) BY <1>4 DEF CheckFST
  <1>5. CASE DecodeLoop(t)
    <2>1. CASE Throw BY <2>1, CrashIInv
    <2>2. CASE ~Throw BY <1>5, <2>2 DEF DecodeLoop
    <2> QED BY <2>1, <2>2
  <1>6. CASE DecodeChunk(t) BY <1>6 DEF DecodeChunk
  <1>7. CASE EndOfAudio(t)
    <2>1. CASE Throw BY <2>1, CrashIInv
    <2>2. CASE ~Throw BY <1>7, <2>2 DEF EndOfAudio
    <2> QED BY <2>1, <2>2
  <1>8. CASE EndUtterance(t) BY <1>8 DEF EndUtterance
  <1>9. CASE DeleteServer(t) BY <1>9 DEF DeleteServer
  <1>10. CASE FreeServer(t) BY <1>10 DEF FreeServer
  <1>11. CASE ClearServerPtr(t) BY <1>11 DEF ClearServerPtr
  <1> QED BY <1>1, <1>2, <1>3, <1>4, <1>5, <1>6, <1>7, <1>8, <1>9, <1>10, <1>11

\* Disconnect and Kill, in either thread: they touch the object's members and
\* the descriptor table only.
LEMMA KillIInv ==
  ASSUME IInv, NEW a \in Actor, KillStep(a), UNCHANGED bridgeVars
  PROVE  IInv'
  <1>u. UNCHANGED bridgeVars OBVIOUS
  <1> USE BridgeAssumption DEF Actor, IInv, TypeOK, OneDecoder, PointerHeld, MethodOnServer,
      MainAlone, Returns, GraphHeld, Active, NoDecoder, InUtterance, Goto, Call,
      serverVars, bridgeVars, fstVars, portVars, DescState, MainLabels, ThreadLabels,
      MethodLabels, DisconnectLabels, KillLabels, AcceptLabels, ReadLabels
  <1>1. CASE DisconnectTest(a) BY <1>u, <1>1 DEF DisconnectTest
  <1>2. CASE CloseClient(a) BY <1>u, <1>2 DEF CloseClient, Close
  <1>3. CASE ClearClient(a) BY <1>u, <1>3 DEF ClearClient
  <1>4. CASE KillTest(a) BY <1>u, <1>4 DEF KillTest, KillReturn
  <1>5. CASE CloseServer(a) BY <1>u, <1>5 DEF CloseServer, Close
  <1>6. CASE ClearServer(a) BY <1>u, <1>6 DEF ClearServer, KillReturn
  <1> QED BY <1>1, <1>2, <1>3, <1>4, <1>5, <1>6 DEF KillStep

\* Accept and ReadChunk, in a decoder thread.
LEMMA AcceptReadIInv ==
  ASSUME IInv, NEW a \in Thread, AcceptStep(a) \/ ReadStep(a), UNCHANGED bridgeVars
  PROVE  IInv'
  <1>u. UNCHANGED bridgeVars OBVIOUS
  <1> USE BridgeAssumption DEF Actor, IInv, TypeOK, OneDecoder, PointerHeld, MethodOnServer,
      MainAlone, Returns, GraphHeld, Active, NoDecoder, InUtterance, Goto, Call,
      serverVars, bridgeVars, fstVars, portVars, DescState, MainLabels, ThreadLabels,
      MethodLabels, DisconnectLabels, KillLabels, AcceptLabels, ReadLabels
  <1>1. CASE AcceptTest(a) BY <1>u, <1>1 DEF AcceptTest
  <1>2. CASE AcceptListening(a) BY <1>u, <1>2 DEF AcceptListening
  <1>3. CASE AcceptSelect(a)
    <2>1. CASE Die BY <1>u, <2>1, CrashIInv DEF Throw
    <2>2. CASE ~Die BY <1>u, <1>3, <2>2 DEF AcceptSelect
    <2> QED BY <2>1, <2>2
  <1>4. CASE AcceptClient(a)
    <2>1. CASE Die BY <1>u, <2>1, CrashIInv DEF Throw
    <2>2. CASE ~Die BY <1>u, <1>4, <2>2 DEF AcceptClient
    <2> QED BY <2>1, <2>2
  <1>5. CASE ReadTest(a) BY <1>u, <1>5 DEF ReadTest
  <1>6. CASE ReadSelect(a)
    <2>1. CASE Die BY <1>u, <2>1, CrashIInv DEF Throw
    <2>2. CASE ~Die BY <1>u, <1>6, <2>2 DEF ReadSelect
    <2> QED BY <2>1, <2>2
  <1>7. CASE ReadPoll(a) BY <1>u, <1>7 DEF ReadPoll
  <1>8. CASE ReadData(a) BY <1>u, <1>8 DEF ReadData
  <1> QED BY <1>1, <1>2, <1>3, <1>4, <1>5, <1>6, <1>7, <1>8 DEF AcceptStep, ReadStep

LEMMA EnvironmentIInv == ASSUME IInv, Environment PROVE IInv'
  <1> USE BridgeAssumption DEF Actor, IInv, TypeOK, OneDecoder, PointerHeld, MethodOnServer,
      MainAlone, Returns, GraphHeld, Active, NoDecoder, InUtterance, Goto, Call,
      serverVars, bridgeVars, fstVars, portVars, DescState, MainLabels, ThreadLabels,
      MethodLabels, DisconnectLabels, KillLabels, AcceptLabels, ReadLabels
  <1>1. CASE OtherOpens BY <1>1 DEF OtherOpens, Environment
  <1>2. CASE OtherCloses BY <1>2 DEF OtherCloses, Environment
  <1>3. ASSUME NEW a \in Actor, FreedReused(a) PROVE IInv' BY <1>3 DEF FreedReused, Environment
  <1> QED BY <1>1, <1>2, <1>3 DEF Environment

\* The invariant is inductive.
THEOREM Inductive == Spec => []IInv
  <1>1. Init => IInv BY InitIInv
  <1>2. IInv /\ [Next]_vars => IInv'
    <2> SUFFICES ASSUME IInv, [Next]_vars PROVE IInv' OBVIOUS
    <2>1. CASE PlatformCall BY <2>1, PlatformIInv
    <2>2. CASE PlatformStep
      <3>1. Main \in Actor BY DEF Actor
      <3>2. CASE FreedAccess(Main) /\ UNCHANGED bridgeVars
        BY <3>2, CrashIInv DEF FreedAccess, Throw
      <3>3. CASE KillStep(Main) /\ UNCHANGED bridgeVars BY <3>1, <3>3, KillIInv
      <3> QED BY <2>2, <3>2, <3>3, PlatformIInv DEF PlatformStep
    <2>3. ASSUME NEW t \in Thread, DecoderStep(t) PROVE IInv'
      <3>1. t \in Actor BY DEF Actor
      <3>2. CASE FreedAccess(t) /\ UNCHANGED bridgeVars
        BY <3>2, CrashIInv DEF FreedAccess, Throw
      <3>3. CASE KillStep(t) /\ UNCHANGED bridgeVars BY <3>1, <3>3, KillIInv
      <3>4. CASE (AcceptStep(t) \/ ReadStep(t)) /\ UNCHANGED bridgeVars
        BY <3>4, AcceptReadIInv
      <3> QED BY <2>3, <3>2, <3>3, <3>4, DecoderIInv DEF DecoderStep
    <2>4. CASE Environment BY <2>4, EnvironmentIInv
    <2>5. CASE UNCHANGED vars
      BY <2>5 DEF vars, serverVars, bridgeVars, IInv, TypeOK, OneDecoder, PointerHeld,
         MethodOnServer, MainAlone, Returns, GraphHeld, Active, NoDecoder, InUtterance
    <2> QED BY <2>1, <2>2, <2>3, <2>4, <2>5 DEF Next
  <1> QED BY <1>1, <1>2, PTL DEF Spec

\* Every variable keeps its type.
THEOREM TypeCorrect == Spec => []TypeOK
  <1>1. IInv => TypeOK BY DEF IInv
  <1> QED BY <1>1, Inductive, PTL

\* At most one thread ever runs thr_func, whatever the order of initialize,
\* loadFST, failed thread creations and retries.
THEOREM OneDecoderAlways == Spec => []OneDecoder
  <1>1. IInv => OneDecoder BY DEF IInv
  <1> QED BY <1>1, Inductive, PTL

\* An utterance's graph is never deleted or replaced under it: a thread in an
\* utterance holds inputServer, and loadFST touches the graph only when that
\* pointer is null.
THEOREM FstSafeAlways == Spec => []FstSafe
  <1>1. IInv => FstSafe
    <2> SUFFICES ASSUME IInv, NEW t \in Thread, graph[t] # None
                 PROVE  graph[t] = decode_fst /\ graph[t] \in fsts
      BY DEF FstSafe
    <2>1. graph[t] = decode_fst /\ InUtterance(t) BY DEF IInv, GraphHeld
    <2>2. Active(t)
      BY <2>1 DEF InUtterance, Active, ReadLabels, DisconnectLabels
    <2>3. pc[Main] # "open" BY <2>2 DEF IInv, PointerHeld, MainAlone
    <2> QED BY <2>1, <2>3 DEF IInv, GraphHeld
  <1> QED BY <1>1, Inductive, PTL

\* The object a decoder thread calls is allocated and is the current server.
THEOREM DecoderOwnsServerAlways == Spec => []DecoderOwnsServer
  <1>1. IInv => DecoderOwnsServer
    BY DEF IInv, PointerHeld, MethodOnServer, DecoderOwnsServer
  <1> QED BY <1>1, Inductive, PTL

-----------------------------------------------------------------------------
(* The flag                                                                  *)

\* The flag is up exactly during a reload, and a decoder that is on its way out
\* has seen it: it cannot come down again before that decoder has gone.
FlagHeld ==
  /\ (terminateDecoder <=> pc[Main] \notin {"idle", "initStart", "loadStart"})
  /\ \A t \in Thread :
       \/ pc[t] \in {"delete", "free", "clear"} \cup KillLabels
       \/ pc[t] \in DisconnectLabels /\ ret[t] = "kill"
       => terminateDecoder

\* The methods do not touch the flag: a thread enters Kill only from the delete
\* that follows the outer loop.
LEMMA MethodsFlag ==
  ASSUME IInv, FlagHeld, UNCHANGED bridgeVars, NEW a \in Actor,
         \/ KillStep(a) \/ FreedAccess(a) \/ FreedReused(a)
         \/ a \in Thread /\ (AcceptStep(a) \/ ReadStep(a))
  PROVE  FlagHeld'
  <1> USE BridgeAssumption DEF IInv, FlagHeld, TypeOK, Actor, bridgeVars, Goto,
      DisconnectLabels, KillLabels
  <1>1. CASE UNCHANGED <<pc, ret>> BY <1>1
  <1>2. CASE a = Main /\ KillStep(a)
    BY <1>2
    DEF KillStep, DisconnectTest, CloseClient, ClearClient, KillTest, CloseServer,
        ClearServer, KillReturn, Returns
  <1>3. CASE a \in Thread /\ KillStep(a)
    BY <1>3
    DEF KillStep, DisconnectTest, CloseClient, ClearClient, KillTest, CloseServer,
        ClearServer, KillReturn
  <1>4. CASE a \in Thread /\ AcceptStep(a)
    BY <1>4
    DEF AcceptStep, AcceptTest, AcceptListening, AcceptSelect, AcceptClient, Die
  <1>5. CASE a \in Thread /\ ReadStep(a)
    BY <1>5 DEF ReadStep, ReadTest, ReadSelect, ReadPoll, ReadData, Die
  <1>6. CASE FreedAccess(a) \/ FreedReused(a)
    BY <1>1, <1>6 DEF FreedAccess, FreedReused, Die
  <1> QED BY <1>2, <1>3, <1>4, <1>5, <1>6 DEF Actor

LEMMA PlatformFlag ==
  ASSUME IInv, FlagHeld,
         \/ PlatformCall \/ StartDecoder \/ StopServer \/ WaitForDecoder
         \/ UnloadFST \/ OpenFST \/ Relisten
  PROVE  FlagHeld'
  <1> USE BridgeAssumption DEF IInv, FlagHeld, TypeOK, Actor, Goto, DisconnectLabels, KillLabels
  <1>c. CASE Throw BY <1>c DEF Throw, Die, bridgeVars
  <1>1. CASE InitializeFirst \/ InitializeAgain
    BY <1>c, <1>1 DEF InitializeFirst, InitializeAgain, serverVars
  <1>2. CASE CallLoadFST BY <1>2 DEF CallLoadFST
  <1>3. CASE StartDecoder BY <1>3 DEF StartDecoder
  <1>4. CASE StopServer BY <1>c, <1>4 DEF StopServer, Call, bridgeVars
  <1>5. CASE WaitForDecoder \/ UnloadFST
    BY <1>5 DEF WaitForDecoder, UnloadFST, bridgeVars
  <1>6. CASE OpenFST BY <1>c, <1>6 DEF OpenFST
  <1>7. CASE Relisten
    <2>1. NoDecoder BY <1>7 DEF Relisten, Throw, MainAlone, PointerHeld, NoDecoder
    <2> QED BY <1>c, <1>7, <2>1 DEF Relisten, NoDecoder, Active
  <1> QED BY <1>1, <1>2, <1>3, <1>4, <1>5, <1>6, <1>7 DEF PlatformCall

LEMMA DecoderFlag ==
  ASSUME IInv, FlagHeld, NEW t \in Thread,
         \/ LoopHead(t) \/ Sleep(t) \/ AcceptOutput(t) \/ CheckFST(t) \/ DecodeLoop(t)
         \/ DecodeChunk(t) \/ EndOfAudio(t) \/ EndUtterance(t)
         \/ DeleteServer(t) \/ FreeServer(t) \/ ClearServerPtr(t)
  PROVE  FlagHeld'
  <1> USE BridgeAssumption DEF IInv, FlagHeld, TypeOK, Actor, Goto, Call,
      DisconnectLabels, KillLabels, bridgeVars
  <1>c. CASE Throw BY <1>c DEF Throw, Die
  <1>1. CASE LoopHead(t) \/ Sleep(t) BY <1>1 DEF LoopHead, Sleep
  <1>2. CASE AcceptOutput(t) BY <1>c, <1>2 DEF AcceptOutput
  <1>3. CASE CheckFST(t) \/ EndUtterance(t) BY <1>3 DEF CheckFST, EndUtterance
  <1>4. CASE DecodeLoop(t) \/ DecodeChunk(t) BY <1>c, <1>4 DEF DecodeLoop, DecodeChunk
  <1>5. CASE EndOfAudio(t) BY <1>c, <1>5 DEF EndOfAudio
  <1>6. CASE DeleteServer(t) BY <1>6 DEF DeleteServer
  <1>7. CASE FreeServer(t) \/ ClearServerPtr(t) BY <1>7 DEF FreeServer, ClearServerPtr
  <1> QED BY <1>1, <1>2, <1>3, <1>4, <1>5, <1>6, <1>7

-----------------------------------------------------------------------------
(* The bridge implements DecoderHandoff: each step of either thread is a     *)
(* step of the abstract specification or leaves its variables alone.         *)

running == \E t \in Thread : Active(t)
used == {graph[t] : t \in Thread} \ {None}
loaded == {decode_fst} \cap fsts

\* A thread that moves between two labels of thr_func, or the platform thread
\* between any two of its own, leaves running as it was.
LEMMA MoveKeepsRunning ==
  ASSUME TypeOK, NEW a \in Actor, NEW l, Goto(a, l),
         a \in Thread => Active(a) /\ l # "none"
  PROVE  running' = running
  BY BridgeAssumption DEF TypeOK, Goto, running, Active, Actor

\* The methods of the server are steps of the concrete level only.
LEMMA MethodsStutter ==
  ASSUME IInv, UNCHANGED bridgeVars, NEW a \in Actor,
         \/ KillStep(a) \/ FreedAccess(a) \/ FreedReused(a)
         \/ a \in Thread /\ (AcceptStep(a) \/ ReadStep(a))
  PROVE  UNCHANGED <<running, terminateDecoder, loaded, used>>
  <1>1. CASE UNCHANGED pc BY <1>1 DEF running, used, loaded, Active, bridgeVars
  <1>2. CASE ~UNCHANGED pc
    <2>1. ret[a] # "none" \/ a = Main \/ pc[a] \notin DisconnectLabels
      BY DEF IInv, Returns, Actor
    <2>2. \E l : Goto(a, l) /\ (a \in Thread => Active(a) /\ l # "none")
      <3> USE BridgeAssumption DEF DisconnectLabels, Active
      <3>1. CASE KillStep(a)
        BY <1>2, <2>1, <3>1 DEF KillStep, DisconnectTest, CloseClient, ClearClient, KillTest,
           CloseServer, ClearServer, KillReturn
      <3>2. CASE AcceptStep(a)
        BY <1>2, <3>2 DEF AcceptStep, AcceptTest, AcceptListening, AcceptSelect, AcceptClient, Die
      <3>3. CASE ReadStep(a)
        BY <1>2, <3>3 DEF ReadStep, ReadTest, ReadSelect, ReadPoll, ReadData, Die
      <3>4. CASE FreedAccess(a) \/ FreedReused(a)
        BY <1>2, <3>4 DEF FreedAccess, FreedReused, Die
      <3> QED BY <3>1, <3>2, <3>3, <3>4
    <2> QED BY <2>2, MoveKeepsRunning DEF IInv, used, loaded, bridgeVars
  <1> QED BY <1>1, <1>2

LEMMA PlatformImplements ==
  ASSUME IInv, FlagHeld,
         \/ PlatformCall \/ StartDecoder \/ StopServer \/ WaitForDecoder
         \/ UnloadFST \/ OpenFST \/ Relisten
  PROVE  Handoff!Next \/ UNCHANGED Handoff!vars
  <1> USE DEF IInv
  <1>m. Main \in Actor /\ Main \notin Thread BY BridgeAssumption DEF Actor
  <1>c. CASE Throw
    BY <1>c DEF Throw, Die, bridgeVars, Handoff!vars, Active
  <1>1. CASE PlatformCall
    <2>1. CASE InitializeFirst \/ InitializeAgain
      BY <1>m, <1>c, <2>1, MoveKeepsRunning
      DEF InitializeFirst, InitializeAgain, Handoff!vars, fstVars, serverVars, Active, running
    <2>2. CASE CallLoadFST
      BY <1>m, <2>2, MoveKeepsRunning
      DEF CallLoadFST, fstVars, Handoff!Next, Handoff!AskToStop, running
    <2> QED BY <1>1, <2>1, <2>2 DEF PlatformCall
  <1>2. CASE StartDecoder
    <2>1. CASE Goto(Main, "idle") /\ UNCHANGED <<terminateDecoder, fstVars>>
      BY <1>m, <2>1, MoveKeepsRunning DEF Handoff!vars, fstVars, running
    <2>2. ASSUME NEW t \in Thread, pc' = [pc EXCEPT ![t] = "loop", ![Main] = "idle"]
          PROVE  running'
      BY <1>m, <2>2 DEF TypeOK, running, Active, Actor
    <2>3. ~running /\ ~terminateDecoder
      BY <1>2 DEF StartDecoder, MainAlone, NoDecoder, FlagHeld, running
    <2> QED
      BY <1>2, <2>1, <2>2, <2>3
      DEF StartDecoder, running, fstVars, Handoff!Next, Handoff!Start
  <1>3. CASE StopServer \/ WaitForDecoder
    BY <1>m, <1>c, <1>3, MoveKeepsRunning
    DEF StopServer, WaitForDecoder, Call, Goto, Handoff!vars, bridgeVars, running
  <1>4. CASE UnloadFST
    <2>1. terminateDecoder /\ ~running
      BY <1>4 DEF UnloadFST, MainAlone, FlagHeld, PointerHeld, running
    <2>2. running' = running BY <1>m, <1>4, MoveKeepsRunning DEF UnloadFST
    <2>3. loaded' = {} BY <1>4 DEF UnloadFST, loaded
    <2> QED
      BY <1>4, <2>1, <2>2, <2>3
      DEF UnloadFST, running, loaded, Handoff!Next, Handoff!Unload
  <1>5. CASE OpenFST /\ ~Throw
    <2>1. terminateDecoder /\ ~running
      BY <1>5 DEF OpenFST, MainAlone, FlagHeld, PointerHeld, running
    <2>2. running' = running BY <1>m, <1>5, MoveKeepsRunning DEF OpenFST
    <2>3. PICK f \in Fst \ fsts : decode_fst' = f /\ fsts' = fsts \cup {f}
      BY <1>5 DEF OpenFST
    <2>4. loaded' = {f} BY <2>3 DEF loaded
    <2>5. loaded = {} BY <1>5 DEF OpenFST, GraphHeld, loaded
    <2> QED
      BY <1>5, <2>1, <2>2, <2>4, <2>5
      DEF OpenFST, running, loaded, Handoff!Next, Handoff!Load
  <1>6. CASE Relisten /\ ~Throw
    <2>1. terminateDecoder /\ ~running
      BY <1>6 DEF Relisten, MainAlone, FlagHeld, PointerHeld, running
    <2>2. running' = running BY <1>m, <1>6, MoveKeepsRunning DEF Relisten
    <2> QED
      BY <1>6, <2>1, <2>2 DEF Relisten, fstVars, running, Handoff!Next, Handoff!Resume
  <1> QED BY <1>c, <1>1, <1>2, <1>3, <1>4, <1>5, <1>6

LEMMA DecoderImplements ==
  ASSUME IInv, FlagHeld, NEW t \in Thread,
         \/ LoopHead(t) \/ Sleep(t) \/ AcceptOutput(t) \/ CheckFST(t) \/ DecodeLoop(t)
         \/ DecodeChunk(t) \/ EndOfAudio(t) \/ EndUtterance(t)
         \/ DeleteServer(t) \/ FreeServer(t) \/ ClearServerPtr(t)
  PROVE  Handoff!Next \/ UNCHANGED Handoff!vars
  <1> USE DEF IInv
  <1>a. t \in Actor BY DEF Actor
  <1>c. CASE Throw
    BY <1>c DEF Throw, Die, bridgeVars, Handoff!vars, Active
  <1>1. CASE \/ LoopHead(t) \/ Sleep(t) \/ AcceptOutput(t) \/ DecodeLoop(t)
             \/ DecodeChunk(t) \/ EndOfAudio(t) \/ DeleteServer(t) \/ FreeServer(t)
    BY <1>a, <1>c, <1>1, MoveKeepsRunning
    DEF LoopHead, Sleep, AcceptOutput, DecodeLoop, DecodeChunk, EndOfAudio, DeleteServer,
        FreeServer, Call, Goto, bridgeVars, fstVars, Handoff!vars, running, Active
  <1>2. CASE CheckFST(t)
    <2>1. running /\ running' = running
      BY <1>a, <1>2, MoveKeepsRunning DEF CheckFST, Goto, running, Active
    <2>2. used = {}
      BY <1>2 DEF CheckFST, GraphHeld, InUtterance, OneDecoder, Active, used,
         ReadLabels, DisconnectLabels
    <2>3. used' = loaded
      <3>1. \A u \in Thread : u # t => graph[u] = None BY <2>2 DEF used
      <3>2. graph' = [graph EXCEPT ![t] = decode_fst] /\ UNCHANGED <<decode_fst, fsts>>
        BY <1>2 DEF CheckFST
      <3>3. used' = {decode_fst} \ {None} BY <3>1, <3>2 DEF used, TypeOK
      <3>4. pc[Main] # "open"
        BY <1>2 DEF CheckFST, Active, PointerHeld, MainAlone
      <3> QED BY <3>2, <3>3, <3>4, BridgeAssumption DEF loaded, GraphHeld, TypeOK
    <2> QED
      BY <1>2, <2>1, <2>2, <2>3
      DEF CheckFST, running, used, loaded, Handoff!Next, Handoff!BeginUtterance
  <1>3. CASE EndUtterance(t)
    <2>1. running' = running
      BY <1>a, <1>3, MoveKeepsRunning DEF EndUtterance, Goto, Active
    <2>2. used' = {}
      <3>1. \A u \in Thread : u # t => graph[u] = None
        BY <1>3 DEF EndUtterance, GraphHeld, InUtterance, OneDecoder, Active, ReadLabels,
           DisconnectLabels
      <3> QED BY <1>3, <3>1 DEF EndUtterance, used, TypeOK
    <2> QED
      BY <1>3, <2>1, <2>2
      DEF EndUtterance, running, used, Handoff!Next, Handoff!EndUtterance
  <1>4. CASE ClearServerPtr(t)
    <2>1. running /\ ~running'
      <3>1. \A u \in Thread : Active(u) => u = t
        BY <1>4 DEF ClearServerPtr, OneDecoder, Active
      <3> QED BY <1>4, <1>a, <3>1 DEF ClearServerPtr, Goto, Active, running, TypeOK
    <2>2. terminateDecoder BY <1>4 DEF ClearServerPtr, FlagHeld
    <2>3. used = {}
      BY <1>4 DEF ClearServerPtr, GraphHeld, InUtterance, OneDecoder, Active, used,
         ReadLabels, DisconnectLabels
    <2> QED
      BY <1>4, <2>1, <2>2, <2>3
      DEF ClearServerPtr, running, used, fstVars, Handoff!Next, Handoff!Stop
  <1> QED BY <1>1, <1>2, <1>3, <1>4

\* The flag invariant, on top of the first one.
THEOREM FlagAlways == Spec => []FlagHeld
  <1>1. Init => FlagHeld
    BY BridgeAssumption DEF Init, FlagHeld, Actor, KillLabels, DisconnectLabels
  <1>2. IInv /\ FlagHeld /\ [Next]_vars => FlagHeld'
    <2> SUFFICES ASSUME IInv, FlagHeld, [Next]_vars PROVE FlagHeld' OBVIOUS
    <2>1. CASE PlatformCall \/ PlatformStep
      BY <2>1, PlatformFlag, MethodsFlag DEF PlatformStep, Actor
    <2>2. ASSUME NEW t \in Thread, DecoderStep(t) PROVE FlagHeld'
      BY <2>2, DecoderFlag, MethodsFlag DEF DecoderStep, Actor
    <2>3. CASE Environment
      <3>1. CASE OtherOpens \/ OtherCloses
        BY <2>3, <3>1 DEF Environment, OtherOpens, OtherCloses, bridgeVars, FlagHeld
      <3> QED BY <2>3, <3>1, MethodsFlag DEF Environment
    <2>4. CASE UNCHANGED vars BY <2>4 DEF vars, serverVars, bridgeVars, FlagHeld
    <2> QED BY <2>1, <2>2, <2>3, <2>4 DEF Next
  <1> QED BY <1>1, <1>2, Inductive, PTL DEF Spec

\* The bridge hands the decoding graph over as DecoderHandoff specifies.
THEOREM BridgeImplementsHandoff == Spec => ImplementsHandoff
  <1>1. Init => Handoff!Init
    BY BridgeAssumption DEF Init, Handoff!Init, Active, Actor
  <1>2. IInv /\ FlagHeld /\ [Next]_vars => [Handoff!Next]_Handoff!vars
    <2> SUFFICES ASSUME IInv, FlagHeld, [Next]_vars
                 PROVE  Handoff!Next \/ UNCHANGED Handoff!vars
      OBVIOUS
    <2>m. ASSUME UNCHANGED <<running, terminateDecoder, loaded, used>>
          PROVE  UNCHANGED Handoff!vars
      BY <2>m DEF running, loaded, used, Handoff!vars
    <2>1. CASE PlatformCall \/ PlatformStep
      BY <2>1, <2>m, PlatformImplements, MethodsStutter DEF PlatformStep, Actor
    <2>2. ASSUME NEW t \in Thread, DecoderStep(t)
          PROVE  Handoff!Next \/ UNCHANGED Handoff!vars
      BY <2>2, <2>m, DecoderImplements, MethodsStutter DEF DecoderStep, Actor
    <2>3. CASE Environment
      <3>1. CASE OtherOpens \/ OtherCloses
        BY <2>3, <2>m, <3>1
        DEF Environment, OtherOpens, OtherCloses, bridgeVars, running, loaded, used, Active
      <3> QED BY <2>3, <2>m, <3>1, MethodsStutter DEF Environment
    <2>4. CASE UNCHANGED vars
      BY <2>4, <2>m DEF vars, serverVars, bridgeVars, running, loaded, used, Active
    <2> QED BY <2>1, <2>2, <2>3, <2>4 DEF Next
  <1> QED
    BY <1>1, <1>2, Inductive, FlagAlways, PTL DEF Spec, ImplementsHandoff, Handoff!Spec

=============================================================================
