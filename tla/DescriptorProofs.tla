--------------------------- MODULE DescriptorProofs ---------------------------
(***************************************************************************)
(* The descriptors of the input server: DescriptorsOwned, PortHonoured,    *)
(* UsesOpenDescriptors and ForeignCloseOnlyInReload for any number of      *)
(* thread ids, addresses, descriptors and ports.                           *)
(*                                                                         *)
(* DescriptorsOwned is in danger where Kill on the platform thread clears  *)
(* a member between the decoder's accept() and its own Disconnect.  What   *)
(* excludes it is where the decoder can be by then: past its loop head it  *)
(* has seen the flag, and before it Accept returns a client that is not    *)
(* yet forgotten (AcceptingAlone).  The pointer inputServer is cleared     *)
(* when nothing is left to own (NoClientLeft, NoPortLeft).  What a member  *)
(* holds is open except between its close and its clearing (ServerOpen,    *)
(* ClientOpen), and while the flag is down no other thread is there to     *)
(* clear it (ServerHeld, ClientHeld).                                      *)
(***************************************************************************)
EXTENDS AsrBridgeProofs

NoClient == \A d \in Desc : fd[d] # "client"
NoPort == \A d \in Desc : fd[d] \notin Port

\* No other server is allocated, and this one until the decoder that deletes it
\* clears the pointer.
HeldAllocated ==
  /\ heap \subseteq {inputServer}
  /\ inputServer \in heap \cup {None} \/ \E t \in Thread : pc[t] = "clear"
  /\ \A t \in Thread : pc[t] = "clear" => heap = {}

\* loadFST kills the server behind the pointer, as long as there is one.
KillOnServer == pc[Main] \in DisconnectLabels \cup KillLabels => inputServer \in {this[Main], None}

\* After a close of the client, and from Kill on in the destructor, none is left.
NoClientLeft ==
  /\ \A a \in Actor : pc[a] = "clearClient" => NoClient
  /\ \A t \in Thread : pc[t] \in KillLabels \cup {"free", "clear"} => NoClient

NoPortLeft ==
  /\ \A a \in Actor : pc[a] = "clearServer" => NoPort
  /\ \A t \in Thread : pc[t] \in {"free", "clear"} => NoPort

\* A decoder that accepts has no client and the platform thread is not closing one.
AcceptingAlone ==
  \A t \in Thread :
    /\ pc[t] \in {"listening", "select", "acceptClient"} =>
         client_desc[inputServer] = None /\ pc[Main] \notin {"closeClient", "clearClient"}
    /\ pc[t] \in {"acceptOut", "accept"} /\ pc[Main] \in {"closeClient", "clearClient"} =>
         client_desc[inputServer] # None

PortKept ==
  /\ reported \in {None, input_port}
  /\ \A d \in Desc : fd[d] \in Port => fd[d] = input_port

Owned ==
  /\ DescriptorsOwned /\ HeldAllocated /\ KillOnServer
  /\ NoClientLeft /\ NoPortLeft /\ AcceptingAlone /\ PortKept

OwnedInv == IInv /\ FlagHeld /\ Owned

\* The listening socket is open, except between its close and the clearing of the member.
ServerOpen ==
  inputServer \in heap /\ server_desc[inputServer] # None =>
    /\ fd[server_desc[inputServer]] # "client"
    /\ (\A a \in Actor : pc[a] # "clearServer") => fd[server_desc[inputServer]] \in Port

\* So is the client.
ClientOpen ==
  inputServer \in heap /\ client_desc[inputServer] # None =>
    /\ fd[client_desc[inputServer]] \notin Port
    /\ (\A a \in Actor : pc[a] # "clearClient") => fd[client_desc[inputServer]] = "client"

\* Outside a reload nobody clears a member behind the decoder's back.
ServerHeld == ~terminateDecoder /\ inputServer # None => server_desc[inputServer] # None

ClientHeld ==
  ~terminateDecoder =>
    \A t \in Thread : pc[t] \in {"selectData", "selectMore", "poll", "readData", "closeClient"} =>
      client_desc[inputServer] # None

OpenInv == ServerOpen /\ ClientOpen /\ ServerHeld /\ ClientHeld


-----------------------------------------------------------------------------
(* What is owned stays owned                                                *)

\* Nothing is owned before initialize.
LEMMA InitOwned == ASSUME Init PROVE Owned
  <1>1. DescriptorsOwned /\ PortKept
    BY BridgeAssumption DEF Init, DescriptorsOwned, PortKept
  <1>2. HeldAllocated /\ KillOnServer
    BY DEF Init, HeldAllocated, KillOnServer, DisconnectLabels, KillLabels, Actor
  <1>3. NoClientLeft /\ NoPortLeft /\ AcceptingAlone
    BY BridgeAssumption DEF Init, NoClientLeft, NoPortLeft, AcceptingAlone, KillLabels, Actor
  <1> QED BY <1>1, <1>2, <1>3 DEF Owned

\* The end of the process moves nothing.
LEMMA CrashOwned == ASSUME OwnedInv, Throw PROVE Owned'
  BY DEF Throw, Die, bridgeVars, OwnedInv, Owned, DescriptorsOwned, HeldAllocated, KillOnServer,
     NoClientLeft, NoPortLeft, AcceptingAlone, PortKept, NoClient, NoPort

\* initialize and loadFST: a server is made when nothing is owned.
LEMMA PlatformOwned ==
  ASSUME OwnedInv,
         \/ PlatformCall \/ StartDecoder \/ StopServer \/ WaitForDecoder
         \/ UnloadFST \/ OpenFST \/ Relisten
  PROVE  Owned'
  <1>i. IInv /\ FlagHeld /\ Owned BY DEF OwnedInv
  <1>c. CASE Throw BY <1>c, CrashOwned
  <1> USE BridgeAssumption DEF Owned, DescriptorsOwned, HeldAllocated, KillOnServer,
      NoClientLeft, NoPortLeft, AcceptingAlone, PortKept, NoClient, NoPort,
      IInv, TypeOK, OneDecoder, PointerHeld, MethodOnServer, MainAlone, Returns,
      FlagHeld, Active, NoDecoder, Actor, Goto, Call, serverVars, bridgeVars, fstVars,
      portVars, MethodLabels, DisconnectLabels, KillLabels, AcceptLabels, ReadLabels
  <1>1. CASE InitializeFirst /\ ~Throw BY <1>i, <1>1 DEF InitializeFirst, Listen
  <1>2. CASE InitializeAgain BY <1>i, <1>2 DEF InitializeAgain
  <1>3. CASE CallLoadFST BY <1>i, <1>3 DEF CallLoadFST
  <1>4. CASE StartDecoder BY <1>i, <1>4 DEF StartDecoder
  <1>5. CASE StopServer /\ ~Throw
    <2>1. /\ inputServer # None /\ Call(Main, inputServer, "disconnect", "kill")
          /\ UNCHANGED <<up, heap, server_desc, client_desc, fd, bridgeVars>>
      BY <1>5 DEF StopServer
    <2>2. DescriptorsOwned' /\ PortKept' BY <1>i, <2>1
    <2>3. HeldAllocated' BY <1>i, <2>1
    <2>4. KillOnServer' BY <1>i, <2>1
    <2>5. NoClientLeft' /\ NoPortLeft' BY <1>i, <2>1
    <2>6. AcceptingAlone' BY <1>i, <2>1
    <2> HIDE DEF DescriptorsOwned, PortKept, HeldAllocated, KillOnServer, NoClientLeft,
                 NoPortLeft, AcceptingAlone
    <2> QED BY <2>2, <2>3, <2>4, <2>5, <2>6
  <1>6. CASE WaitForDecoder \/ UnloadFST BY <1>i, <1>6 DEF WaitForDecoder, UnloadFST
  <1>7. CASE OpenFST /\ ~Throw BY <1>i, <1>7 DEF OpenFST
  <1>8. CASE Relisten /\ ~Throw BY <1>i, <1>8 DEF Relisten, SamePort, Listen
  <1> HIDE DEF Owned, IInv, FlagHeld
  <1> QED BY <1>c, <1>1, <1>2, <1>3, <1>4, <1>5, <1>6, <1>7, <1>8 DEF PlatformCall

\* thr_func outside the methods of the server.
LEMMA DecoderOwned ==
  ASSUME OwnedInv, NEW t \in Thread,
         \/ LoopHead(t) \/ Sleep(t) \/ AcceptOutput(t) \/ CheckFST(t) \/ DecodeLoop(t)
         \/ DecodeChunk(t) \/ EndOfAudio(t) \/ EndUtterance(t)
         \/ DeleteServer(t) \/ FreeServer(t) \/ ClearServerPtr(t)
  PROVE  Owned'
  <1>i. IInv /\ FlagHeld /\ Owned BY DEF OwnedInv
  <1>c. CASE Throw BY <1>c, CrashOwned
  <1> USE BridgeAssumption DEF Owned, DescriptorsOwned, HeldAllocated, KillOnServer,
      NoClientLeft, NoPortLeft, AcceptingAlone, PortKept, NoClient, NoPort,
      IInv, TypeOK, OneDecoder, PointerHeld, MethodOnServer, MainAlone, Returns,
      FlagHeld, Active, NoDecoder, Actor, Goto, Call, serverVars, bridgeVars, fstVars,
      portVars, MethodLabels, DisconnectLabels, KillLabels, AcceptLabels, ReadLabels
  <1>1. CASE LoopHead(t) BY <1>i, <1>1 DEF LoopHead
  <1>2. CASE Sleep(t) BY <1>i, <1>2 DEF Sleep
  <1>3. CASE AcceptOutput(t) /\ ~Throw BY <1>i, <1>3 DEF AcceptOutput
  <1>4. CASE CheckFST(t) BY <1>i, <1>4 DEF CheckFST
  <1>5. CASE DecodeLoop(t) /\ ~Throw BY <1>i, <1>5 DEF DecodeLoop
  <1>6. CASE DecodeChunk(t) BY <1>i, <1>6 DEF DecodeChunk
  <1>7. CASE EndOfAudio(t) /\ ~Throw BY <1>i, <1>7 DEF EndOfAudio
  <1>8. CASE EndUtterance(t) BY <1>i, <1>8 DEF EndUtterance
  <1>9. CASE DeleteServer(t) BY <1>i, <1>9 DEF DeleteServer
  <1>10. CASE FreeServer(t) BY <1>i, <1>10 DEF FreeServer
  <1>11. CASE ClearServerPtr(t) BY <1>i, <1>11 DEF ClearServerPtr
  <1> HIDE DEF Owned, IInv, FlagHeld
  <1> QED BY <1>c, <1>1, <1>2, <1>3, <1>4, <1>5, <1>6, <1>7, <1>8, <1>9, <1>10, <1>11

\* Disconnect and Kill, in either thread.
LEMMA KillOwned ==
  ASSUME OwnedInv, NEW a \in Actor, KillStep(a), UNCHANGED bridgeVars
  PROVE  Owned'
  <1>i. IInv /\ FlagHeld /\ Owned /\ UNCHANGED bridgeVars BY DEF OwnedInv
  <1> USE BridgeAssumption DEF Owned, DescriptorsOwned, HeldAllocated, KillOnServer,
      NoClientLeft, NoPortLeft, AcceptingAlone, PortKept, NoClient, NoPort,
      IInv, TypeOK, OneDecoder, PointerHeld, MethodOnServer, MainAlone, Returns,
      FlagHeld, Active, NoDecoder, Actor, Goto, Call, serverVars, bridgeVars, fstVars,
      portVars, MethodLabels, DisconnectLabels, KillLabels, AcceptLabels, ReadLabels
  <1>1. CASE DisconnectTest(a) BY <1>i, <1>1 DEF DisconnectTest
  <1>2. CASE CloseClient(a) BY <1>i, <1>2 DEF CloseClient, Close
  <1>3. CASE ClearClient(a) BY <1>i, <1>3 DEF ClearClient
  <1>4. CASE KillTest(a) BY <1>i, <1>4 DEF KillTest, KillReturn
  <1>5. CASE CloseServer(a) BY <1>i, <1>5 DEF CloseServer, Close
  <1>6. CASE ClearServer(a) BY <1>i, <1>6 DEF ClearServer, KillReturn
  <1> HIDE DEF Owned, IInv, FlagHeld
  <1> QED BY <1>1, <1>2, <1>3, <1>4, <1>5, <1>6 DEF KillStep

\* Accept and ReadChunk, in a decoder thread.
LEMMA AcceptReadOwned ==
  ASSUME OwnedInv, NEW a \in Thread, AcceptStep(a) \/ ReadStep(a), UNCHANGED bridgeVars
  PROVE  Owned'
  <1>i. IInv /\ FlagHeld /\ Owned /\ UNCHANGED bridgeVars BY DEF OwnedInv
  <1>c. CASE Die BY <1>i, <1>c, CrashOwned DEF Throw
  <1> USE BridgeAssumption DEF Owned, DescriptorsOwned, HeldAllocated, KillOnServer,
      NoClientLeft, NoPortLeft, AcceptingAlone, PortKept, NoClient, NoPort,
      IInv, TypeOK, OneDecoder, PointerHeld, MethodOnServer, MainAlone, Returns,
      FlagHeld, Active, NoDecoder, Actor, Goto, Call, serverVars, bridgeVars, fstVars,
      portVars, MethodLabels, DisconnectLabels, KillLabels, AcceptLabels, ReadLabels
  <1>1. CASE AcceptTest(a) BY <1>i, <1>1 DEF AcceptTest
  <1>2. CASE AcceptListening(a) BY <1>i, <1>2 DEF AcceptListening
  <1>3. CASE AcceptSelect(a) /\ ~Die BY <1>i, <1>3 DEF AcceptSelect
  <1>4. CASE AcceptClient(a) /\ ~Die BY <1>i, <1>4 DEF AcceptClient
  <1>5. CASE ReadTest(a) BY <1>i, <1>5 DEF ReadTest
  <1>6. CASE ReadSelect(a) /\ ~Die BY <1>i, <1>6 DEF ReadSelect
  <1>7. CASE ReadPoll(a) BY <1>i, <1>7 DEF ReadPoll
  <1>8. CASE ReadData(a) BY <1>i, <1>8 DEF ReadData
  <1> HIDE DEF Owned, IInv, FlagHeld
  <1> QED BY <1>c, <1>1, <1>2, <1>3, <1>4, <1>5, <1>6, <1>7, <1>8 DEF AcceptStep, ReadStep

\* The rest of the process, and the new owner of freed memory.
LEMMA EnvironmentOwned ==
  ASSUME OwnedInv, Environment
  PROVE  Owned'
  <1>i. IInv /\ FlagHeld /\ Owned /\ UNCHANGED bridgeVars BY DEF OwnedInv, Environment
  <1> USE BridgeAssumption DEF Owned, DescriptorsOwned, HeldAllocated, KillOnServer,
      NoClientLeft, NoPortLeft, AcceptingAlone, PortKept, NoClient, NoPort,
      IInv, TypeOK, OneDecoder, PointerHeld, MethodOnServer, MainAlone, Returns,
      FlagHeld, Active, NoDecoder, Actor, Goto, Call, serverVars, bridgeVars, fstVars,
      portVars, MethodLabels, DisconnectLabels, KillLabels, AcceptLabels, ReadLabels
  <1>1. CASE OtherOpens BY <1>i, <1>1 DEF OtherOpens
  <1>2. CASE OtherCloses BY <1>i, <1>2 DEF OtherCloses
  <1>3. ASSUME NEW a \in Actor, FreedReused(a) PROVE Owned' BY <1>i, <1>3 DEF FreedReused
  <1> HIDE DEF Owned, IInv, FlagHeld
  <1> QED BY <1>1, <1>2, <1>3 DEF Environment

\* Every step keeps what is owned.
LEMMA OwnedKept == ASSUME OwnedInv, IInv', FlagHeld', [Next]_vars PROVE Owned'
  <1>1. CASE PlatformCall BY <1>1, PlatformOwned
  <1>2. CASE PlatformStep
    <2>1. Main \in Actor BY DEF Actor
    <2>2. CASE FreedAccess(Main) /\ UNCHANGED bridgeVars
      BY <2>2, CrashOwned DEF FreedAccess, Throw
    <2>3. CASE KillStep(Main) /\ UNCHANGED bridgeVars BY <2>1, <2>3, KillOwned
    <2> QED BY <1>2, <2>2, <2>3, PlatformOwned DEF PlatformStep
  <1>3. ASSUME NEW t \in Thread, DecoderStep(t) PROVE Owned'
    <2>1. t \in Actor BY DEF Actor
    <2>2. CASE FreedAccess(t) /\ UNCHANGED bridgeVars
      BY <2>2, CrashOwned DEF FreedAccess, Throw
    <2>3. CASE KillStep(t) /\ UNCHANGED bridgeVars BY <2>1, <2>3, KillOwned
    <2>4. CASE (AcceptStep(t) \/ ReadStep(t)) /\ UNCHANGED bridgeVars BY <2>4, AcceptReadOwned
    <2> QED BY <1>3, <2>2, <2>3, <2>4, DecoderOwned DEF DecoderStep
  <1>4. CASE Environment BY <1>4, EnvironmentOwned
  <1>5. CASE UNCHANGED vars
    BY <1>5 DEF vars, serverVars, bridgeVars, OwnedInv, Owned, DescriptorsOwned, HeldAllocated,
       KillOnServer, NoClientLeft, NoPortLeft, AcceptingAlone, PortKept, NoClient, NoPort
  <1> QED BY <1>1, <1>2, <1>3, <1>4, <1>5 DEF Next

-----------------------------------------------------------------------------
(* What the server holds is open                                            *)

\* The end of the process moves nothing.
LEMMA CrashOpen == ASSUME OpenInv, Throw PROVE OpenInv'
  BY DEF Throw, Die, bridgeVars, OpenInv, ServerOpen, ClientOpen, ServerHeld, ClientHeld

\* The flag goes up before Kill and comes down with a new server that listens.
LEMMA PlatformOpen ==
  ASSUME OwnedInv, OpenInv,
         \/ PlatformCall \/ StartDecoder \/ StopServer \/ WaitForDecoder
         \/ UnloadFST \/ OpenFST \/ Relisten
  PROVE  OpenInv'
  <1>i. IInv /\ FlagHeld /\ Owned BY DEF OwnedInv
  <1>c. CASE Throw BY <1>c, CrashOpen
  <1> USE BridgeAssumption DEF OpenInv, ServerOpen, ClientOpen, ServerHeld, ClientHeld,
      Owned, DescriptorsOwned, NoClientLeft, NoPortLeft, AcceptingAlone, NoClient, NoPort,
      HeldAllocated, KillOnServer, IInv, TypeOK, OneDecoder, PointerHeld, MethodOnServer,
      MainAlone, Returns, FlagHeld, Active, NoDecoder, Actor, Goto, Call, serverVars, bridgeVars, fstVars,
      portVars, MethodLabels, DisconnectLabels, KillLabels, AcceptLabels, ReadLabels
  <1>1. CASE InitializeFirst /\ ~Throw BY <1>i, <1>1 DEF InitializeFirst, Listen
  <1>2. CASE InitializeAgain BY <1>i, <1>2 DEF InitializeAgain
  <1>3. CASE CallLoadFST BY <1>i, <1>3 DEF CallLoadFST
  <1>4. CASE StartDecoder BY <1>i, <1>4 DEF StartDecoder
  <1>5. CASE StopServer /\ ~Throw
    <2>1. /\ inputServer # None /\ Call(Main, inputServer, "disconnect", "kill")
          /\ UNCHANGED <<up, heap, server_desc, client_desc, fd, bridgeVars>>
      BY <1>5 DEF StopServer
    <2>2. pc[Main] = "stop" /\ \A a \in Actor \ {Main} : pc'[a] = pc[a]
      BY <1>i, <1>5, <2>1 DEF StopServer
    <2>3. ServerOpen' BY <1>i, <2>1, <2>2
    <2>4. ClientOpen' BY <1>i, <2>1, <2>2
    <2>5. ServerHeld' /\ ClientHeld' BY <1>i, <2>1, <2>2
    <2> HIDE DEF ServerOpen, ClientOpen, ServerHeld, ClientHeld
    <2> QED BY <2>3, <2>4, <2>5
  <1>7. CASE WaitForDecoder \/ UnloadFST BY <1>i, <1>7 DEF WaitForDecoder, UnloadFST
  <1>8. CASE OpenFST /\ ~Throw BY <1>i, <1>8 DEF OpenFST
  <1>6. CASE Relisten /\ ~Throw BY <1>i, <1>6 DEF Relisten, SamePort, Listen
  <1> HIDE DEF OpenInv, IInv, FlagHeld
  <1> QED BY <1>c, <1>1, <1>2, <1>3, <1>4, <1>5, <1>6, <1>7, <1>8 DEF PlatformCall

\* thr_func outside the methods of the server.
LEMMA DecoderOpen ==
  ASSUME OwnedInv, OpenInv, NEW t \in Thread,
         \/ LoopHead(t) \/ Sleep(t) \/ AcceptOutput(t) \/ CheckFST(t) \/ DecodeLoop(t)
         \/ DecodeChunk(t) \/ EndOfAudio(t) \/ EndUtterance(t)
         \/ DeleteServer(t) \/ FreeServer(t) \/ ClearServerPtr(t)
  PROVE  OpenInv'
  <1>i. IInv /\ FlagHeld /\ Owned BY DEF OwnedInv
  <1>c. CASE Throw BY <1>c, CrashOpen
  <1> USE BridgeAssumption DEF OpenInv, ServerOpen, ClientOpen, ServerHeld, ClientHeld,
      Owned, DescriptorsOwned, NoClientLeft, NoPortLeft, AcceptingAlone, NoClient, NoPort,
      HeldAllocated, KillOnServer, IInv, TypeOK, OneDecoder, PointerHeld, MethodOnServer,
      MainAlone, Returns, FlagHeld, Active, NoDecoder, Actor, Goto, Call, serverVars, bridgeVars, fstVars,
      portVars, MethodLabels, DisconnectLabels, KillLabels, AcceptLabels, ReadLabels
  <1>1. CASE LoopHead(t) \/ Sleep(t) BY <1>i, <1>1 DEF LoopHead, Sleep
  <1>2. CASE AcceptOutput(t) /\ ~Throw BY <1>i, <1>2 DEF AcceptOutput
  <1>3. CASE CheckFST(t) \/ EndUtterance(t) BY <1>i, <1>3 DEF CheckFST, EndUtterance
  <1>4. CASE DecodeLoop(t) /\ ~Throw BY <1>i, <1>4 DEF DecodeLoop
  <1>5. CASE DecodeChunk(t) BY <1>i, <1>5 DEF DecodeChunk
  <1>6. CASE EndOfAudio(t) /\ ~Throw BY <1>i, <1>6 DEF EndOfAudio
  <1>7. CASE DeleteServer(t) BY <1>i, <1>7 DEF DeleteServer
  <1>8. CASE FreeServer(t) BY <1>i, <1>8 DEF FreeServer
  <1>9. CASE ClearServerPtr(t) BY <1>i, <1>9 DEF ClearServerPtr
  <1> HIDE DEF OpenInv, IInv, FlagHeld
  <1> QED BY <1>c, <1>1, <1>2, <1>3, <1>4, <1>5, <1>6, <1>7, <1>8, <1>9

\* A close leaves a stale number behind only until the clearing that follows it.
LEMMA KillOpen ==
  ASSUME OwnedInv, OpenInv, NEW a \in Actor, KillStep(a), UNCHANGED bridgeVars
  PROVE  OpenInv'
  <1>i. IInv /\ FlagHeld /\ Owned /\ UNCHANGED bridgeVars BY DEF OwnedInv
  <1> USE BridgeAssumption DEF OpenInv, ServerOpen, ClientOpen, ServerHeld, ClientHeld,
      Owned, DescriptorsOwned, NoClientLeft, NoPortLeft, AcceptingAlone, NoClient, NoPort,
      HeldAllocated, KillOnServer, IInv, TypeOK, OneDecoder, PointerHeld, MethodOnServer,
      MainAlone, Returns, FlagHeld, Active, NoDecoder, Actor, Goto, Call, serverVars, bridgeVars, fstVars,
      portVars, MethodLabels, DisconnectLabels, KillLabels, AcceptLabels, ReadLabels
  <1>1. CASE DisconnectTest(a) BY <1>i, <1>1 DEF DisconnectTest
  <1>2. CASE CloseClient(a) BY <1>i, <1>2 DEF CloseClient, Close
  <1>3. CASE ClearClient(a) BY <1>i, <1>3 DEF ClearClient
  <1>4. CASE KillTest(a) BY <1>i, <1>4 DEF KillTest, KillReturn
  <1>5. CASE CloseServer(a) BY <1>i, <1>5 DEF CloseServer, Close
  <1>6. CASE ClearServer(a) BY <1>i, <1>6 DEF ClearServer, KillReturn
  <1> HIDE DEF OpenInv, IInv, FlagHeld
  <1> QED BY <1>1, <1>2, <1>3, <1>4, <1>5, <1>6 DEF KillStep

\* Accept keeps the client it opened, and ReadChunk leaves it open.
LEMMA AcceptReadOpen ==
  ASSUME OwnedInv, OpenInv, NEW a \in Thread, AcceptStep(a) \/ ReadStep(a), UNCHANGED bridgeVars
  PROVE  OpenInv'
  <1>i. IInv /\ FlagHeld /\ Owned /\ UNCHANGED bridgeVars BY DEF OwnedInv
  <1>c. CASE Die BY <1>i, <1>c, CrashOpen DEF Throw
  <1> USE BridgeAssumption DEF OpenInv, ServerOpen, ClientOpen, ServerHeld, ClientHeld,
      Owned, DescriptorsOwned, NoClientLeft, NoPortLeft, AcceptingAlone, NoClient, NoPort,
      HeldAllocated, KillOnServer, IInv, TypeOK, OneDecoder, PointerHeld, MethodOnServer,
      MainAlone, Returns, FlagHeld, Active, NoDecoder, Actor, Goto, Call, serverVars, bridgeVars, fstVars,
      portVars, MethodLabels, DisconnectLabels, KillLabels, AcceptLabels, ReadLabels
  <1>1. CASE AcceptTest(a) \/ AcceptListening(a) BY <1>i, <1>1 DEF AcceptTest, AcceptListening
  <1>2. CASE AcceptSelect(a) /\ ~Die BY <1>i, <1>2 DEF AcceptSelect
  <1>3. CASE AcceptClient(a) /\ ~Die BY <1>i, <1>3 DEF AcceptClient
  <1>4. CASE ReadTest(a) BY <1>i, <1>4 DEF ReadTest
  <1>5. CASE ReadSelect(a) /\ ~Die BY <1>i, <1>5 DEF ReadSelect
  <1>6. CASE ReadPoll(a) BY <1>i, <1>6 DEF ReadPoll
  <1>7. CASE ReadData(a) BY <1>i, <1>7 DEF ReadData
  <1> HIDE DEF OpenInv, IInv, FlagHeld
  <1> QED BY <1>c, <1>1, <1>2, <1>3, <1>4, <1>5, <1>6, <1>7 DEF AcceptStep, ReadStep

\* Others close descriptors of their own only.
LEMMA EnvironmentOpen ==
  ASSUME OwnedInv, OpenInv, Environment
  PROVE  OpenInv'
  <1>i. IInv /\ FlagHeld /\ Owned /\ UNCHANGED bridgeVars BY DEF OwnedInv, Environment
  <1> USE BridgeAssumption DEF OpenInv, ServerOpen, ClientOpen, ServerHeld, ClientHeld,
      Owned, DescriptorsOwned, NoClientLeft, NoPortLeft, AcceptingAlone, NoClient, NoPort,
      HeldAllocated, KillOnServer, IInv, TypeOK, OneDecoder, PointerHeld, MethodOnServer,
      MainAlone, Returns, FlagHeld, Active, NoDecoder, Actor, Goto, Call, serverVars, bridgeVars, fstVars,
      portVars, MethodLabels, DisconnectLabels, KillLabels, AcceptLabels, ReadLabels
  <1>1. CASE OtherOpens BY <1>i, <1>1 DEF OtherOpens
  <1>2. CASE OtherCloses BY <1>i, <1>2 DEF OtherCloses
  <1>3. ASSUME NEW a \in Actor, FreedReused(a) PROVE OpenInv' BY <1>i, <1>3 DEF FreedReused
  <1> HIDE DEF OpenInv, IInv, FlagHeld
  <1> QED BY <1>1, <1>2, <1>3 DEF Environment

\* Every step keeps open what the server holds.
LEMMA OpenKept == ASSUME OwnedInv, OpenInv, [Next]_vars PROVE OpenInv'
  <1>1. CASE PlatformCall BY <1>1, PlatformOpen
  <1>2. CASE PlatformStep
    <2>1. Main \in Actor BY DEF Actor
    <2>2. CASE FreedAccess(Main) /\ UNCHANGED bridgeVars
      BY <2>2, CrashOpen DEF FreedAccess, Throw
    <2>3. CASE KillStep(Main) /\ UNCHANGED bridgeVars BY <2>1, <2>3, KillOpen
    <2> QED BY <1>2, <2>2, <2>3, PlatformOpen DEF PlatformStep
  <1>3. ASSUME NEW t \in Thread, DecoderStep(t) PROVE OpenInv'
    <2>1. t \in Actor BY DEF Actor
    <2>2. CASE FreedAccess(t) /\ UNCHANGED bridgeVars
      BY <2>2, CrashOpen DEF FreedAccess, Throw
    <2>3. CASE KillStep(t) /\ UNCHANGED bridgeVars BY <2>1, <2>3, KillOpen
    <2>4. CASE (AcceptStep(t) \/ ReadStep(t)) /\ UNCHANGED bridgeVars BY <2>4, AcceptReadOpen
    <2> QED BY <1>3, <2>2, <2>3, <2>4, DecoderOpen DEF DecoderStep
  <1>4. CASE Environment BY <1>4, EnvironmentOpen
  <1>5. CASE UNCHANGED vars
    BY <1>5 DEF vars, serverVars, bridgeVars, OpenInv, ServerOpen, ClientOpen, ServerHeld, ClientHeld
  <1> QED BY <1>1, <1>2, <1>3, <1>4, <1>5 DEF Next

\* The inductive invariant of the four theorems.
LEMMA DescriptorInvariance == Spec => [](OwnedInv /\ OpenInv)
  <1>1. Init => Owned BY InitOwned
  <1>2. Init => OpenInv BY DEF Init, OpenInv, ServerOpen, ClientOpen, ServerHeld, ClientHeld, Actor
  <1>3. IInv /\ FlagHeld /\ Owned /\ OpenInv /\ IInv' /\ FlagHeld' /\ [Next]_vars => Owned' /\ OpenInv'
    BY OwnedKept, OpenKept DEF OwnedInv
  <1>4. OwnedInv <=> IInv /\ FlagHeld /\ Owned BY DEF OwnedInv
  <1> QED BY <1>1, <1>2, <1>3, <1>4, Inductive, FlagAlways, PTL DEF Spec

-----------------------------------------------------------------------------
(* Theorems                                                                 *)

\* Every socket of the input side is held by the server in use, whatever Kill and the
\* decoder do to its members: none is leaked.
THEOREM DescriptorsOwnedAlways == Spec => []DescriptorsOwned
  <1>1. OwnedInv => DescriptorsOwned BY DEF OwnedInv, Owned
  <1> QED BY <1>1, DescriptorInvariance, PTL

\* After any number of reloads audio is awaited on the port of the first reply.
THEOREM PortHonouredAlways == Spec => []PortHonoured
  <1>1. OwnedInv => PortHonoured BY DEF OwnedInv, Owned, PortKept, PortHonoured
  <1> QED BY <1>1, DescriptorInvariance, PTL

\* The decoder uses open descriptors of its own, but for the two moments of a reload
\* that the property names.
THEOREM UsesOpenDescriptorsAlways == Spec => []UsesOpenDescriptors
  <1>1. OwnedInv /\ OpenInv => UsesOpenDescriptors
    <2> SUFFICES ASSUME OwnedInv, OpenInv, NEW t \in Thread
                 PROVE  /\ pc[t] \in {"select", "acceptClient"} =>
                             \/ server_desc[this[t]] \in {d \in Desc : fd[d] \in Port}
                             \/ /\ terminateDecoder
                                /\ \/ server_desc[this[t]] = None
                                   \/ pc[Main] = "clearServer" /\ this[Main] = this[t]
                        /\ pc[t] \in {"selectData", "selectMore", "poll", "readData"} =>
                             \/ client_desc[this[t]] \in {d \in Desc : fd[d] = "client"}
                             \/ /\ terminateDecoder
                                /\ \/ client_desc[this[t]] = None
                                   \/ pc[Main] = "clearClient" /\ this[Main] = this[t]
      BY DEF UsesOpenDescriptors
    <2> USE BridgeAssumption
    <2>1. ASSUME pc[t] \in MethodLabels, pc[t] \notin {"clearClient", "clearServer"}
          PROVE  /\ this[t] = inputServer /\ inputServer \in heap /\ inputServer # None
                 /\ server_desc[inputServer] \in Desc \cup {None}
                 /\ client_desc[inputServer] \in Desc \cup {None}
                 /\ \A a \in Actor : pc[a] \in {"clearClient", "clearServer"} =>
                      a = Main /\ this[Main] = inputServer
      BY <2>1 DEF OwnedInv, Owned, KillOnServer, IInv, TypeOK, OneDecoder, PointerHeld, MethodOnServer,
         Active, Actor, MethodLabels, DisconnectLabels, KillLabels, AcceptLabels, ReadLabels
    <2>2. CASE pc[t] \in {"select", "acceptClient"}
      BY <2>1, <2>2 DEF OwnedInv, FlagHeld, OpenInv, ServerOpen, ServerHeld, MethodLabels, AcceptLabels
    <2>3. CASE pc[t] \in {"selectData", "selectMore", "poll", "readData"}
      BY <2>1, <2>3 DEF OwnedInv, FlagHeld, OpenInv, ClientOpen, ClientHeld, MethodLabels, ReadLabels
    <2> QED BY <2>2, <2>3
  <1> QED BY <1>1, DescriptorInvariance, PTL

\* A descriptor of another part of the process is closed by the second of two closes
\* of one member, or by the method of a server that is gone.
THEOREM ForeignCloseOnlyInReloadAlways == Spec => ForeignCloseOnlyInReload
  <1> DEFINE SecondClose(a) ==
        /\ terminateDecoder
        /\ \/ this[a] \notin heap
           \/ \E b \in Actor :
                /\ this[a] = this[b]
                /\ \/ pc[a] = "closeClient" /\ pc[b] = "clearClient"
                   \/ pc[a] = "closeServer" /\ pc[b] = "clearServer"
  <1>1. OwnedInv /\ OpenInv /\ [Next]_vars =>
          [\A d \in Desc : fd[d] = "other" /\ fd'[d] = "free" /\ pc' # pc =>
             /\ terminateDecoder
             /\ \E a, b \in Actor :
                  /\ pc'[a] # pc[a]
                  /\ \/ this[a] \notin heap
                     \/ /\ this[a] = this[b]
                        /\ \/ pc[a] = "closeClient" /\ pc[b] = "clearClient"
                           \/ pc[a] = "closeServer" /\ pc[b] = "clearServer"]_vars
    <2> SUFFICES ASSUME OwnedInv, OpenInv, Next, NEW d \in Desc,
                        fd[d] = "other", fd'[d] = "free", pc' # pc
                 PROVE  \E a \in Actor : pc'[a] # pc[a] /\ SecondClose(a)
      BY DEF vars
    <2> HIDE DEF SecondClose
    <2> USE BridgeAssumption
    <2>s. ASSUME NEW a \in Actor, pc[a] \in {"closeClient", "closeServer"}, this[a] \in heap
          PROVE  /\ this[a] = inputServer
                 /\ server_desc[inputServer] \in Desc \cup {None}
                 /\ client_desc[inputServer] \in Desc \cup {None}
                 /\ \A b \in Actor : pc[b] \in {"clearClient", "clearServer"} => this[b] = inputServer
      BY <2>s DEF OwnedInv, Owned, KillOnServer, HeldAllocated, IInv, TypeOK, OneDecoder, PointerHeld,
         MethodOnServer, MainAlone, Returns, FlagHeld, Active, NoDecoder, Actor, MethodLabels,
         DisconnectLabels, KillLabels, AcceptLabels, ReadLabels
    <2>f. ASSUME NEW a \in Actor, CloseClient(a) \/ CloseServer(a)
          PROVE  /\ pc[a] \in {"closeClient", "closeServer"}
                 /\ pc'[a] # pc[a]
      BY <2>f DEF CloseClient, CloseServer, Goto, OwnedInv, IInv, TypeOK
    <2>1. ASSUME NEW a \in Actor, CloseClient(a) PROVE pc'[a] # pc[a] /\ SecondClose(a)
      <3>1. d = client_desc[this[a]] BY <2>1 DEF CloseClient, Close, OwnedInv, IInv, TypeOK
      <3>2. CASE this[a] \notin heap
        BY <2>1, <2>f, <3>2 DEF SecondClose, CloseClient, OwnedInv, FlagHeld, Owned, HeldAllocated,
           IInv, PointerHeld, MethodOnServer, Active, Actor, MethodLabels, DisconnectLabels
      <3>3. CASE this[a] \in heap
        <4>1. \E b \in Actor : pc[b] = "clearClient" /\ this[b] = this[a]
          BY <2>1, <2>s, <3>1, <3>3 DEF OpenInv, ClientOpen, CloseClient
        <4>2. terminateDecoder
          BY <2>1, <4>1 DEF CloseClient, OwnedInv, FlagHeld, IInv, OneDecoder, Active, Actor, DisconnectLabels
        <4> QED BY <2>1, <2>f, <4>1, <4>2 DEF SecondClose, CloseClient
      <3> QED BY <3>2, <3>3
    <2>2. ASSUME NEW a \in Actor, CloseServer(a) PROVE pc'[a] # pc[a] /\ SecondClose(a)
      <3>1. d = server_desc[this[a]] BY <2>2 DEF CloseServer, Close, OwnedInv, IInv, TypeOK
      <3>2. terminateDecoder
        BY <2>2 DEF CloseServer, OwnedInv, FlagHeld, Actor, KillLabels
      <3>3. CASE this[a] \notin heap BY <2>2, <2>f, <3>2, <3>3 DEF SecondClose
      <3>4. CASE this[a] \in heap
        <4>1. \E b \in Actor : pc[b] = "clearServer" /\ this[b] = this[a]
          BY <2>2, <2>s, <3>1, <3>4 DEF OpenInv, ServerOpen, CloseServer
        <4> QED BY <2>2, <2>f, <3>2, <4>1 DEF SecondClose, CloseServer
      <3> QED BY <3>3, <3>4
    <2>3. ASSUME NEW c \in Actor, KillStep(c)
          PROVE  \E a \in Actor : pc'[a] # pc[a] /\ SecondClose(a)
      BY <2>1, <2>2, <2>3 DEF KillStep, DisconnectTest, ClearClient, KillTest, ClearServer
    <2>t. d \in Desc /\ fd \in [Desc -> DescState]
      BY DEF OwnedInv, IInv, TypeOK
    <2>4. CASE PlatformCall
      <3>1. CASE InitializeFirst
        BY <2>t, <3>1 DEF InitializeFirst, Listen, Throw, Die
      <3> QED BY <2>4, <3>1 DEF PlatformCall, InitializeAgain, CallLoadFST, serverVars
    <2>5. CASE PlatformStep
      <3>1. CASE Relisten
        BY <2>t, <3>1 DEF Relisten, Listen, Throw, Die
      <3>2. CASE StartDecoder \/ StopServer \/ WaitForDecoder \/ UnloadFST \/ OpenFST
        BY <3>2 DEF StartDecoder, StopServer, WaitForDecoder, UnloadFST, OpenFST, Throw, Die
      <3>3. CASE KillStep(Main) \/ FreedAccess(Main)
        BY <2>3, <3>3 DEF FreedAccess, Die, Actor
      <3> QED BY <2>5, <3>1, <3>2, <3>3 DEF PlatformStep
    <2>6. ASSUME NEW t \in Thread, DecoderStep(t)
          PROVE  \E a \in Actor : pc'[a] # pc[a] /\ SecondClose(a)
      <3>1. CASE AcceptClient(t)
        BY <2>t, <3>1 DEF AcceptClient, Die
      <3>2. CASE AcceptTest(t) \/ AcceptListening(t) \/ AcceptSelect(t) \/ ReadTest(t) \/ ReadPoll(t)
        BY <3>2 DEF AcceptTest, AcceptListening, AcceptSelect, ReadTest, ReadPoll, Die
      <3>3. CASE ReadSelect(t) \/ ReadData(t)
        BY <3>3 DEF ReadSelect, ReadData, Die
      <3>4. CASE KillStep(t) \/ FreedAccess(t)
        BY <2>3, <3>4 DEF FreedAccess, Die, Actor
      <3>5. CASE \/ LoopHead(t) \/ Sleep(t) \/ AcceptOutput(t) \/ CheckFST(t) \/ DecodeLoop(t)
                 \/ DecodeChunk(t) \/ EndOfAudio(t) \/ EndUtterance(t)
                 \/ DeleteServer(t) \/ FreeServer(t) \/ ClearServerPtr(t)
        BY <3>5 DEF LoopHead, Sleep, AcceptOutput, CheckFST, DecodeLoop, DecodeChunk,
           EndOfAudio, EndUtterance, DeleteServer, FreeServer, ClearServerPtr, Throw, Die
      <3> QED
        BY <2>6, <3>1, <3>2, <3>3, <3>4, <3>5 DEF DecoderStep, AcceptStep, ReadStep
    <2>7. CASE Environment
      BY <2>7 DEF Environment, OtherOpens, OtherCloses, FreedReused
    <2> QED BY <2>4, <2>5, <2>6, <2>7 DEF Next
  <1> QED BY <1>1, DescriptorInvariance, PTL DEF Spec, ForeignCloseOnlyInReload

=============================================================================
