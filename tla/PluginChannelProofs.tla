-------------------------- MODULE PluginChannelProofs --------------------------
(***************************************************************************)
(* PluginChannel keeps its type, AnsweredGraphIsUsed and                   *)
(* GoodGraphIsOpened, for any calls and any number of files.               *)
(*                                                                         *)
(* An answer says nothing about graphs by itself: what ties them is the    *)
(* order in which calls are taken.  Calls made stand once in `made`        *)
(* (Listed), answered ones before the one that is handled (Answered), and  *)
(* a graph in memory is that of a call taken, never older than an answered *)
(* reload (GraphsTaken, GraphsInForce).  Stages says where in a reload     *)
(* there is no decoder.  For the files, FilesCounted bounds the leak by    *)
(* the calls of initialize that have opened theirs.                        *)
(***************************************************************************)
EXTENDS PluginChannel, FiniteSetTheorems, TLAPS

\* A call is in the channel once, if it was made.
Listed ==
  /\ \A i, j \in 1 .. Len(made) : made[i] = made[j] => i = j
  /\ \A i \in 1 .. Len(made) : method[made[i]] # "none"

\* The handler has the call it says it has.
Handled ==
  /\ pc # "idle" => taken \in 1 .. Len(made)
  /\ pc = "models" => Initializes(Current)
  /\ pc \in {"stream", "kill", "wait", "open", "relisten"} => Loads(Current)

\* Answered calls were taken, and the one that is handled is not answered.
Answered ==
  \A k \in Call : answer[k] # "none" =>
    \E i \in 1 .. taken : made[i] = k /\ (pc # "idle" => i < taken)

\* Where in a call there is no decoder, and what is loaded there.
Stages ==
  /\ used # {} => running
  /\ pc \in {"open", "relisten"} => ~running
  /\ pc = "relisten" => loaded = {Current}
  /\ pc = "start" /\ Loads(Current) => ~running /\ loaded = {Current}

\* Graphs in memory were brought by calls taken.
GraphsTaken == \A g \in loaded \cup used : \E i \in 1 .. taken : made[i] = g

\* AnsweredGraphIsUsed, of the graph in memory too.
GraphsInForce ==
  \A g \in loaded \cup used, k \in Call :
    Loads(k) /\ answer[k] # "none" => g = k \/ After(g, k)

ChannelInv == TypeOK /\ Listed /\ Handled /\ Answered /\ Stages /\ GraphsTaken /\ GraphsInForce

\* Calls of initialize made, and those that have opened their two streams.
Initializing == {k \in Call : Initializes(k)}
Opened == {k \in Initializing : answer[k] # "none" \/ (pc = "start" /\ k = Current)}

FilesCounted ==
  /\ IsFiniteSet(Initializing)
  /\ leaked <= 2 * Cardinality(Opened)

\* The stream of a reload is open unless its file is bad or there was no room for it.
StreamOpened ==
  pc \in {"kill", "wait", "open"} /\ ~fstStream => Current \in damaged \/ MaxFiles <= leaked

FilesInv == ChannelInv /\ FilesCounted /\ StreamOpened

-----------------------------------------------------------------------------

\* The application makes a call: what was made stays where it was.
LEMMA InvokeMade ==
  ASSUME made \in Seq(Call), NEW k \in Call, made' = Append(made, k)
  PROVE  /\ made' \in Seq(Call)
         /\ Len(made') = Len(made) + 1
         /\ made'[Len(made) + 1] = k
         /\ \A i \in 1 .. Len(made) : made'[i] = made[i]
OBVIOUS

\* A call of the application keeps ChannelInv.
LEMMA InvokeKeeps ==
  ASSUME ChannelInv, NEW k \in Call, Invoke(k)
  PROVE  ChannelInv'
<1> USE DEF ChannelInv, vars, handoffVars, callVars, fileVars, portVars
<1>1. made' = Append(made, k) /\ made \in Seq(Call)
  BY DEF Invoke, TypeOK
<1>2. /\ made' \in Seq(Call)
      /\ Len(made') = Len(made) + 1
      /\ made'[Len(made) + 1] = k
      /\ \A i \in 1 .. Len(made) : made'[i] = made[i]
  BY <1>1, InvokeMade
<1>3. Len(made) \in Nat /\ taken \in 0 .. Len(made)
  BY DEF TypeOK
<1>4. \A i \in 1 .. Len(made) : made[i] \in Call /\ made[i] # k
  BY <1>1 DEF Listed, Invoke
<1>5. \A j \in Call : j # k => method'[j] = method[j]
  BY DEF Invoke, TypeOK
<1>6. TypeOK'
  BY <1>2, <1>3 DEF TypeOK, Invoke
<1>7. Listed'
  BY <1>2, <1>3, <1>4, <1>5 DEF Listed, Invoke, TypeOK
<1>8. taken # 0 => Current' = Current /\ Current # k
  BY <1>2, <1>3, <1>4 DEF Current, Invoke
<1>9. Handled'
  BY <1>2, <1>3, <1>4, <1>5, <1>8 DEF Handled, Invoke, Current, Initializes, Loads
<1>10. Answered'
  BY <1>2, <1>3 DEF Answered, Invoke
<1>11. Stages'
  BY <1>3, <1>4, <1>5, <1>8 DEF Stages, Invoke, Loads, Handled, Current
<1>12. GraphsTaken'
  BY <1>2, <1>3 DEF GraphsTaken, Invoke
<1>13. answer[k] = "none"
  BY <1>3, <1>4 DEF Answered, TypeOK
<1>14. \A g, j \in Call : After(g, j) => After(g, j)'
  BY <1>2, <1>3 DEF After
<1>15. GraphsInForce'
  BY <1>5, <1>13, <1>14 DEF GraphsInForce, Invoke, Loads, TypeOK
<1> QED
  BY <1>6, <1>7, <1>9, <1>10, <1>11, <1>12, <1>15

\* Taking a call from the channel keeps it.
LEMMA TakeKeeps ==
  ASSUME ChannelInv, TakeCall
  PROVE  ChannelInv'
<1> USE DEF ChannelInv, handoffVars, callVars, fileVars, portVars
<1>1. /\ Len(made) \in Nat /\ taken \in 0 .. Len(made)
      /\ taken' = taken + 1 /\ taken < Len(made)
      /\ made' = made /\ method' = method /\ answer' = answer
  BY DEF TakeCall, TypeOK
<1>2. taken + 1 \in 1 .. Len(made) /\ made[taken + 1] \in Call /\ Current' = made[taken + 1]
  BY <1>1 DEF TypeOK, Current
<1>3. TypeOK'
  BY <1>1 DEF TypeOK, TakeCall
<1>4. Listed'
  BY <1>1 DEF Listed
<1>5. method[made[taken + 1]] \in {"initialize", "loadFSTFromAsset", "loadFSTFromFile"}
  BY <1>2 DEF Listed, TypeOK
<1>6. Handled'
  BY <1>1, <1>2, <1>5 DEF Handled, TakeCall, Initializes, Loads
<1>7. Answered'
  BY <1>1 DEF Answered, TakeCall
<1>8. Stages'
  BY DEF Stages, TakeCall
<1>9. GraphsTaken'
  BY <1>1 DEF GraphsTaken, TakeCall
<1>10. GraphsInForce'
  BY <1>1 DEF GraphsInForce, TakeCall, Loads, After
<1> QED
  BY <1>3, <1>4, <1>6, <1>7, <1>8, <1>9, <1>10

\* The call that is handled is a call, is not answered and follows all that are.
LEMMA CurrentLast ==
  ASSUME ChannelInv, pc # "idle"
  PROVE  /\ taken \in 1 .. Len(made) /\ Current \in Call /\ Current = made[taken]
         /\ answer[Current] = "none"
         /\ \A k \in Call : answer[k] # "none" => After(Current, k)
<1> USE DEF ChannelInv
<1>1. taken \in 1 .. Len(made) /\ Current \in Call /\ Current = made[taken]
  BY DEF Handled, Current, TypeOK
<1>2. \A k \in Call : answer[k] # "none" => \E i \in 1 .. taken : made[i] = k /\ i < taken
  BY DEF Answered
<1>3. answer[Current] = "none"
  BY <1>1, <1>2 DEF Listed
<1>4. \A k \in Call : answer[k] # "none" => After(Current, k)
  BY <1>1, <1>2 DEF After
<1> QED
  BY <1>1, <1>3, <1>4

\* What stays when a step only handles the current call: the order of the calls.
LEMMA CallsStand ==
  ASSUME ChannelInv, UNCHANGED <<made, method, taken>>
  PROVE  /\ Listed' /\ Current' = Current
         /\ \A k \in Call : Loads(k)' = Loads(k) /\ Initializes(k)' = Initializes(k)
         /\ \A g, k \in Call : After(g, k)' = After(g, k)
  BY DEF ChannelInv, Listed, Current, Loads, Initializes, After

\* An answer to a reload whose graph is in memory, or to an initialize.
LEMMA AnswerKeeps ==
  ASSUME ChannelInv, pc \in {"models", "start"},
         UNCHANGED <<made, method, taken, loaded, used>>,
         NEW value \in {"ports", "exception", "null"}, Answer(value)
  PROVE  Answered' /\ GraphsTaken' /\ GraphsInForce' /\ answer' \in [Call -> {"none", "ports", "exception", "null"}]
<1> USE DEF ChannelInv
<1>1. /\ taken \in 1 .. Len(made) /\ Current \in Call /\ Current = made[taken]
      /\ answer[Current] = "none"
  BY CurrentLast
<1>2. pc' = "idle" /\ answer' = [answer EXCEPT ![Current] = value]
      /\ answer' \in [Call -> {"none", "ports", "exception", "null"}]
  BY <1>1 DEF Answer, TypeOK
<1>3. Answered'
  BY <1>1, <1>2 DEF Answered, TypeOK
<1>4. GraphsTaken'
  BY DEF GraphsTaken
<1>5. ASSUME NEW g \in loaded \cup used, NEW k \in Call, Loads(k), answer'[k] # "none"
      PROVE  g = k \/ After(g, k)
  <2>1. CASE k # Current
    BY <1>2, <1>5, <2>1 DEF GraphsInForce, TypeOK
  <2>2. CASE k = Current
    <3>1. pc = "start"
      BY <1>5, <2>2 DEF Handled, Loads, Initializes
    <3> QED
      BY <1>5, <2>2, <3>1 DEF Stages
  <2> QED
    BY <2>1, <2>2
<1>6. GraphsInForce'
  BY <1>5 DEF GraphsInForce, Loads, After
<1> QED
  BY <1>2, <1>3, <1>4, <1>6

\* Every step of the handler on the current call keeps ChannelInv.
LEMMA HandlerKeeps ==
  ASSUME ChannelAssumption, ChannelInv, Handler
  PROVE  ChannelInv'
<1> USE DEF ChannelInv, handoffVars, callVars, fileVars, portVars
<1>1. CASE TakeCall
  BY <1>1, TakeKeeps
<1>2. ASSUME UNCHANGED <<made, method, taken, answer>>, pc # "idle"
      PROVE  Answered'
  BY <1>2 DEF Answered
<1>3. ASSUME UNCHANGED <<made, method, taken, answer>>, loaded' \subseteq loaded, used' = used
      PROVE  GraphsTaken' /\ GraphsInForce'
  BY <1>3 DEF GraphsTaken, GraphsInForce, Loads, After
<1>4. ASSUME up' = FALSE, UNCHANGED <<handoffVars, callVars, taken, pc, answer, fileVars, portVars>>
      PROVE  ChannelInv'
  <2>1. TypeOK'
    BY <1>4 DEF TypeOK
  <2>2. Listed' /\ Handled' /\ Answered'
    BY <1>4 DEF Listed, Handled, Answered, Current, Loads, Initializes
  <2>3. Stages'
    BY <1>4 DEF Stages, Current, Loads
  <2>4. GraphsTaken' /\ GraphsInForce'
    BY <1>4 DEF GraphsTaken, GraphsInForce, Loads, After
  <2> QED
    BY <2>1, <2>2, <2>3, <2>4
<1>5. CASE InitializeAgain
  <2>1. Answered' /\ GraphsTaken' /\ GraphsInForce' /\ answer' \in [Call -> {"none", "ports", "exception", "null"}]
    BY <1>5, AnswerKeeps DEF InitializeAgain
  <2>2. Listed' /\ Current' = Current
    BY <1>5, CallsStand DEF InitializeAgain
  <2>3. TypeOK'
    BY <1>5, <2>1, ChannelAssumption DEF TypeOK, InitializeAgain, Answer, FilesLeft, ChannelAssumption
  <2> QED
    BY <1>5, <2>1, <2>2, <2>3 DEF InitializeAgain, Answer, Handled, Stages
<1>6. CASE InitializeFirst
  <2>1. CASE Throw
    BY <1>4, <2>1 DEF Throw
  <2>2. CASE ~Throw
    <3>1. Answered' /\ GraphsTaken' /\ GraphsInForce'
      BY <1>2, <1>3, <1>6, <2>2 DEF InitializeFirst
    <3>2. Listed' /\ Current' = Current /\ \A k \in Call : Loads(k)' = Loads(k)
      BY <1>6, <2>2, CallsStand DEF InitializeFirst
    <3>3. TypeOK'
      <4>1. FilesLeft >= 2 /\ leaked' = leaked + 2 /\ fstStream' = fstStream
        BY <1>6, <2>2 DEF InitializeFirst
      <4>2. leaked' \in Nat /\ leaked' + (IF fstStream' THEN 1 ELSE 0) <= MaxFiles
        BY <4>1, ChannelAssumption DEF TypeOK, FilesLeft, ChannelAssumption
      <4>3. /\ ports' = TRUE /\ pc' = "start"
             /\ UNCHANGED <<handoffVars, up, callVars, taken, answer, fstStream, orphaned>>
        BY <1>6, <2>2 DEF InitializeFirst
      <4> QED
        BY <4>2, <4>3 DEF TypeOK
    <3>4. Initializes(Current) /\ ~Loads(Current)
      BY <1>6 DEF InitializeFirst, Handled, Initializes, Loads
    <3>5. Current \in Call
      BY <1>6, CurrentLast DEF InitializeFirst
    <3> QED
      BY <1>6, <2>2, <3>1, <3>2, <3>3, <3>4, <3>5 DEF InitializeFirst, Handled, Stages
  <2> QED
    BY <2>1, <2>2
<1>7. CASE OpenStream
  <2>1. Answered' /\ GraphsTaken' /\ GraphsInForce'
    BY <1>2, <1>3, <1>7 DEF OpenStream, Handoff!AskToStop, AnswerLater
  <2>2. Listed' /\ Current' = Current /\ Loads(Current)'
    BY <1>7, CallsStand, CurrentLast DEF OpenStream, AnswerLater, Handled
  <2>3. TypeOK'
    BY <1>7 DEF TypeOK, OpenStream, Handoff!AskToStop, DeleteStream, AnswerLater
  <2> QED
    BY <1>7, <2>1, <2>2, <2>3 DEF OpenStream, Handled, Stages, Handoff!AskToStop
<1>8. CASE WaitForDecoder
  <2>1. Answered' /\ GraphsTaken' /\ GraphsInForce'
    BY <1>2, <1>3, <1>8 DEF WaitForDecoder, Handoff!Unload
  <2>2. Listed' /\ Current' = Current /\ Loads(Current)'
    BY <1>8, CallsStand, CurrentLast DEF WaitForDecoder, Handled
  <2>3. TypeOK'
    BY <1>8 DEF TypeOK, WaitForDecoder, Handoff!Unload
  <2> QED
    BY <1>8, <2>1, <2>2, <2>3 DEF WaitForDecoder, Handled, Stages, Handoff!Unload
<1>9. CASE OpenFST
  <2>1. CASE Throw
    BY <1>4, <2>1 DEF Throw
  <2>2. CASE ~Throw
    <3>1. /\ pc = "open" /\ pc' = "relisten" /\ ~running
          /\ loaded' = {Current} /\ used' = used /\ used = {}
          /\ UNCHANGED <<made, method, taken, answer>>
      BY <1>9, <2>2 DEF OpenFST, Handoff!Load, Stages
    <3>2. /\ taken \in 1 .. Len(made) /\ Current \in Call /\ Current = made[taken]
          /\ \A k \in Call : answer[k] # "none" => After(Current, k)
      BY <3>1, CurrentLast
    <3>3. Listed' /\ Current' = Current /\ Loads(Current)' /\ \A g, k \in Call : After(g, k)' = After(g, k)
      BY <3>1, <3>2, CallsStand DEF Handled
    <3>4. Answered'
      BY <1>2, <3>1
    <3>5. GraphsTaken'
      BY <3>1, <3>2 DEF GraphsTaken
    <3>6. GraphsInForce'
      BY <3>1, <3>2, <3>3 DEF GraphsInForce
    <3>7. TypeOK'
      BY <1>9, <2>2, <3>1, <3>2 DEF TypeOK, OpenFST, Handoff!Load
    <3> QED
      BY <1>9, <2>2, <3>1, <3>2, <3>3, <3>4, <3>5, <3>6, <3>7 DEF OpenFST, Handled, Stages, Handoff!Load
  <2> QED
    BY <2>1, <2>2
<1>12. CASE KillServer
  <2>1. CASE Throw
    BY <1>4, <2>1 DEF Throw
  <2>2. CASE ~Throw
    <3>1. /\ pc = "kill" /\ pc' = "wait"
          /\ UNCHANGED <<handoffVars, up, callVars, taken, answer, fileVars, portVars>>
      BY <1>12, <2>2 DEF KillServer
    <3>2. Answered' /\ GraphsTaken' /\ GraphsInForce'
      BY <1>2, <1>3, <3>1
    <3>3. Listed' /\ Current' = Current /\ Loads(Current)'
      BY <3>1, CallsStand, CurrentLast DEF Handled
    <3>4. TypeOK'
      BY <3>1 DEF TypeOK
    <3> QED
      BY <3>1, <3>2, <3>3, <3>4 DEF Handled, Stages
  <2> QED
    BY <2>1, <2>2
<1>13. CASE Relisten /\ Throw
  BY <1>4, <1>13 DEF Throw
<1>10. CASE Relisten /\ ~Throw
  <2>a. /\ pc = "relisten" /\ LowerFlag /\ pc' = "start"
        /\ UNCHANGED <<up, callVars, taken, answer, fileVars, portVars>>
    BY <1>10 DEF Relisten
  <2>1. Answered' /\ GraphsTaken' /\ GraphsInForce'
    BY <1>2, <1>3, <1>10 DEF Relisten, LowerFlag, Handoff!Resume
  <2>2. Listed' /\ Current' = Current /\ Loads(Current)'
    BY <1>10, CallsStand, CurrentLast DEF Relisten, Handled
  <2>3. TypeOK'
    BY <2>a DEF TypeOK, LowerFlag, Handoff!Resume
  <2> QED
    BY <1>10, <2>1, <2>2, <2>3 DEF Relisten, Handled, Stages, LowerFlag, Handoff!Resume
<1>11. CASE StartDecoder
  <2>1. \E value \in {"ports", "exception", "null"} : Answer(value)
    BY <1>11 DEF StartDecoder
  <2>2. pc = "start" /\ UNCHANGED <<made, method, taken, loaded, used>>
    BY <1>11 DEF StartDecoder, Handoff!Start
  <2>3. Answered' /\ GraphsTaken' /\ GraphsInForce' /\ answer' \in [Call -> {"none", "ports", "exception", "null"}]
    BY <2>1, <2>2, AnswerKeeps
  <2>4. Listed' /\ pc' = "idle"
    BY <2>1, <2>2, CallsStand DEF Answer
  <2>5. TypeOK'
    BY <1>11, <2>2, <2>3, <2>4 DEF TypeOK, StartDecoder, Handoff!Start
  <2>6. Stages'
    BY <1>11, <2>2, <2>4 DEF StartDecoder, Stages, Handoff!Start
  <2> QED
    BY <2>3, <2>4, <2>5, <2>6 DEF Handled
<1> QED
  BY <1>1, <1>5, <1>6, <1>7, <1>8, <1>9, <1>10, <1>11, <1>12, <1>13 DEF Handler

\* A step of the decoder keeps it: it uses graphs in memory only.
LEMMA DecoderKeeps ==
  ASSUME ChannelInv, Decoder
  PROVE  ChannelInv'
<1> USE DEF ChannelInv, channelVars, callVars, fileVars, portVars
<1>1. /\ UNCHANGED <<made, method, taken, answer, pc, damaged, leaked, fstStream, ports, orphaned>>
      /\ up' \in {up, FALSE}
  BY DEF Decoder, BeginUtterance, EndUtterance, Stop, DecoderThrows, Throw
<1>2. loaded' = loaded /\ used' \subseteq loaded \cup used
  BY DEF Decoder, BeginUtterance, EndUtterance, Stop, Handoff!BeginUtterance, Handoff!EndUtterance,
     Handoff!Stop, DecoderThrows, Throw, handoffVars
<1>3. running' \in BOOLEAN /\ stopping' = stopping /\ (running' => running) /\ (used' # {} => running')
  BY DEF Decoder, BeginUtterance, EndUtterance, Stop, Handoff!BeginUtterance,
     Handoff!EndUtterance, Handoff!Stop, DecoderThrows, Throw, handoffVars, Stages, TypeOK
<1>4. TypeOK'
  BY <1>1, <1>2, <1>3 DEF TypeOK
<1>5. Listed' /\ Handled' /\ Answered'
  BY <1>1 DEF Listed, Handled, Answered, Current, Loads, Initializes
<1>6. Stages'
  BY <1>1, <1>2, <1>3 DEF Stages, Current, Loads
<1>7. GraphsTaken' /\ GraphsInForce'
  BY <1>1, <1>2 DEF GraphsTaken, GraphsInForce, Loads, After
<1> QED
  BY <1>4, <1>5, <1>6, <1>7

\* The initial state.
LEMMA InitHolds ==
  ASSUME ChannelAssumption, Init
  PROVE  FilesInv
<1> USE DEF Init, Handoff!Init
<1>1. TypeOK
  <2>1. made \in Seq(Call) /\ Len(made) = 0 /\ taken = 0
    OBVIOUS
  <2>2. leaked \in Nat /\ leaked + (IF fstStream THEN 1 ELSE 0) <= MaxFiles
    BY ChannelAssumption DEF ChannelAssumption
  <2>3. taken \in 0 .. Len(made)
    BY <2>1
  <2>4. /\ method \in [Call -> {"none", "initialize", "loadFSTFromAsset", "loadFSTFromFile"}]
        /\ answer \in [Call -> {"none", "ports", "exception", "null"}]
    OBVIOUS
  <2> QED
    BY <2>1, <2>2, <2>3, <2>4 DEF TypeOK
<1>2. Listed /\ Handled /\ Answered /\ Stages /\ GraphsTaken /\ GraphsInForce
  BY DEF Listed, Handled, Answered, Stages, GraphsTaken, GraphsInForce
<1>3. Initializing = {} /\ Opened = {}
  BY DEF Initializing, Opened, Initializes
<1>4. FilesCounted
  BY <1>3, FS_EmptySet DEF FilesCounted
<1> QED
  BY <1>1, <1>2, <1>4 DEF FilesInv, ChannelInv, StreamOpened

\* The type, the order of the calls and the graphs: kept by every step.
LEMMA ChannelKept ==
  ASSUME ChannelAssumption, ChannelInv, [Next]_vars
  PROVE  ChannelInv'
<1>1. CASE Handler
  BY <1>1, HandlerKeeps
<1>2. CASE Decoder
  BY <1>2, DecoderKeeps
<1>3. ASSUME NEW k \in Call, Invoke(k) PROVE ChannelInv'
  BY <1>3, InvokeKeeps
<1>4. CASE UNCHANGED vars
  BY <1>4 DEF vars, handoffVars, callVars, fileVars, portVars, ChannelInv, TypeOK, Listed, Handled,
    Answered, Stages, GraphsTaken, GraphsInForce, Current, Loads, Initializes, After
<1> QED
  BY <1>1, <1>2, <1>3, <1>4 DEF Next

\* A step that opens no stream of an initialize and leaks no file.
LEMMA SameCount ==
  ASSUME FilesCounted, leaked' = leaked, Initializing' = Initializing, Opened' = Opened
  PROVE  FilesCounted'
BY DEF FilesCounted

\* An initialize that opens its streams: the count grows by one, the leak by two at most.
LEMMA OneMoreOpened ==
  ASSUME FilesCounted, leaked \in Nat, leaked' \in Nat, leaked' <= leaked + 2, NEW k,
         k \notin Opened, Initializing' = Initializing, Opened' = Opened \cup {k}
  PROVE  FilesCounted'
<1>1. IsFiniteSet(Opened) /\ Cardinality(Opened) \in Nat
  BY FS_Subset, FS_CardinalityType DEF FilesCounted, Opened
<1>2. Cardinality(Opened') = Cardinality(Opened) + 1
  BY <1>1, FS_AddElement
<1> QED
  BY <1>1, <1>2 DEF FilesCounted

\* The leak grows only with the calls of initialize.
LEMMA CountKept ==
  ASSUME ChannelAssumption, ChannelInv, ChannelInv', FilesCounted, [Next]_vars
  PROVE  FilesCounted'
<1> USE DEF handoffVars, callVars, fileVars, portVars
<1>1. ASSUME pc # "idle"
      PROVE  Current \in Call /\ answer[Current] = "none"
  BY <1>1, CurrentLast
<1>2. ASSUME NEW k \in Call, Invoke(k)
      PROVE  FilesCounted'
  <2>1. /\ UNCHANGED <<leaked, answer, pc, taken>> /\ made' = Append(made, k)
        /\ method[k] = "none" /\ \A j \in Call : j # k => method'[j] = method[j]
    BY <1>2 DEF Invoke, ChannelInv, TypeOK
  <2>2. answer[k] = "none" /\ (pc = "start" => Current' = Current /\ Current # k)
    BY <2>1, <1>1, InvokeMade DEF ChannelInv, Answered, Listed, Handled, Current, TypeOK
  <2>3. Opened' = Opened
    BY <2>1, <2>2 DEF Opened, Initializing, Initializes
  <2>4. Initializing' \in {Initializing, Initializing \cup {k}}
    BY <2>1 DEF Initializing, Initializes
  <2>5. IsFiniteSet(Initializing')
    BY <2>4, FS_AddElement DEF FilesCounted
  <2> QED
    BY <2>1, <2>3, <2>5 DEF FilesCounted
<1>3. CASE InitializeAgain
  <2>1. /\ Initializes(Current) /\ answer' = [answer EXCEPT ![Current] = "ports"] /\ pc = "models" /\ pc' = "idle"
        /\ UNCHANGED <<made, taken, method>>
    BY <1>3 DEF InitializeAgain, Answer, ChannelInv, Handled
  <2>2. leaked' <= leaked + 2 /\ leaked \in Nat /\ leaked' \in Nat
    BY <1>3, ChannelAssumption DEF InitializeAgain, ChannelInv, TypeOK, FilesLeft, ChannelAssumption
  <2>3. Initializing' = Initializing /\ Current \notin Opened /\ Opened' = Opened \cup {Current}
    BY <2>1, <1>1 DEF Initializing, Opened, Initializes, Current, ChannelInv, TypeOK
  <2> QED
    BY <2>2, <2>3, OneMoreOpened
<1>4. CASE InitializeFirst /\ ~Throw
  <2>1. /\ Initializes(Current) /\ pc = "models" /\ pc' = "start"
        /\ UNCHANGED <<made, taken, method, answer>>
    BY <1>4 DEF InitializeFirst, ChannelInv, Handled
  <2>2. leaked' <= leaked + 2 /\ leaked \in Nat /\ leaked' \in Nat
    BY <1>4 DEF InitializeFirst, ChannelInv, TypeOK
  <2>3. Initializing' = Initializing /\ Current \notin Opened /\ Opened' = Opened \cup {Current}
    BY <2>1, <1>1 DEF Initializing, Opened, Initializes, Current
  <2> QED
    BY <2>2, <2>3, OneMoreOpened
<1>5. CASE StartDecoder
  <2>1. \E value : answer' = [answer EXCEPT ![Current] = value] /\ value # "none"
    BY <1>5 DEF StartDecoder, Answer
  <2>2. pc = "start" /\ pc' = "idle" /\ UNCHANGED <<made, taken, method, leaked>>
    BY <1>5 DEF StartDecoder, Answer
  <2>3. Initializing' = Initializing /\ Opened' = Opened
    BY <2>1, <2>2, <1>1 DEF Initializing, Opened, Initializes, Current, ChannelInv, TypeOK
  <2> QED
    BY <2>2, <2>3, SameCount
<1>6. CASE Throw
  BY <1>6, SameCount DEF Throw, Initializing, Opened, Initializes, Current
<1>7. CASE OpenStream \/ (KillServer /\ ~Throw) \/ WaitForDecoder \/ (OpenFST /\ ~Throw) \/ TakeCall
  <2>1. pc # "start" /\ pc' # "start" /\ UNCHANGED <<made, method, answer, leaked>>
    BY <1>7 DEF OpenStream, AnswerLater, DeleteStream, KillServer, WaitForDecoder, OpenFST, TakeCall,
       Initializes
  <2> QED
    BY <2>1, SameCount DEF Initializing, Opened, Initializes
<1>8. CASE Relisten /\ ~Throw
  <2>1. ~Initializes(Current) /\ pc # "start" /\ UNCHANGED <<made, taken, method, answer, leaked>>
    BY <1>8 DEF Relisten, ChannelInv, Handled, Loads, Initializes
  <2> QED
    BY <2>1, SameCount DEF Initializing, Opened, Initializes, Current
<1>9. CASE Decoder
  BY <1>9, SameCount DEF Decoder, BeginUtterance, EndUtterance, Stop, DecoderThrows, Throw, channelVars,
     Initializing, Opened, Initializes, Current
<1>10. CASE UNCHANGED vars
  BY <1>10, SameCount DEF vars, Initializing, Opened, Initializes, Current
<1> QED
  BY <1>2, <1>3, <1>4, <1>5, <1>6, <1>7, <1>8, <1>9, <1>10 DEF Next, Handler

\* The stream of a reload.
LEMMA StreamKept ==
  ASSUME ChannelAssumption, ChannelInv, StreamOpened, [Next]_vars
  PROVE  StreamOpened'
<1> USE DEF handoffVars, callVars, fileVars, portVars
<1>1. ASSUME NEW k \in Call, Invoke(k)
      PROVE  StreamOpened'
  <2>1. pc \in {"kill", "wait", "open"} => Current' = Current
    BY <1>1, InvokeMade DEF Invoke, ChannelInv, Handled, Current, TypeOK
  <2> QED
    BY <1>1, <2>1 DEF Invoke, StreamOpened
<1>2. CASE OpenStream
  <2>1. ~fstStream' => Current \in damaged \/ ~(MaxFiles > leaked)
    BY <1>2 DEF OpenStream, DeleteStream
  <2>2. ~(MaxFiles > leaked) => MaxFiles <= leaked
    BY ChannelAssumption DEF ChannelInv, TypeOK, ChannelAssumption
  <2>3. UNCHANGED <<damaged, leaked, made, taken>>
    BY <1>2 DEF OpenStream, DeleteStream
  <2> QED
    BY <2>1, <2>2, <2>3 DEF StreamOpened, Current
<1>3. CASE Decoder
  BY <1>3 DEF Decoder, BeginUtterance, EndUtterance, Stop, DecoderThrows, Throw, channelVars,
     StreamOpened, Current
<1>4. CASE WaitForDecoder \/ (KillServer /\ ~Throw)
  BY <1>4 DEF WaitForDecoder, KillServer, StreamOpened, Current
<1>5. CASE TakeCall \/ InitializeAgain \/ (InitializeFirst /\ ~Throw) \/ (OpenFST /\ ~Throw)
           \/ (Relisten /\ ~Throw) \/ StartDecoder
  <2>1. pc' \notin {"kill", "wait", "open"}
    BY <1>5 DEF TakeCall, InitializeAgain, InitializeFirst, OpenFST, Relisten, StartDecoder, Answer
  <2> QED
    BY <2>1 DEF StreamOpened
<1>6. CASE Throw
  BY <1>6 DEF Throw, StreamOpened, Current
<1>7. CASE UNCHANGED vars
  BY <1>7 DEF vars, StreamOpened, Current
<1> QED
  BY <1>1, <1>2, <1>3, <1>4, <1>5, <1>6, <1>7 DEF Next, Handler

LEMMA FilesKept == ChannelAssumption /\ FilesInv /\ [Next]_vars => FilesInv'
<1> SUFFICES ASSUME ChannelAssumption, FilesInv, [Next]_vars
             PROVE  FilesInv'
  OBVIOUS
<1>1. ChannelInv'
  BY ChannelKept DEF FilesInv
<1>2. FilesCounted'
  BY <1>1, CountKept DEF FilesInv
<1>3. StreamOpened'
  BY StreamKept DEF FilesInv
<1> QED
  BY <1>1, <1>2, <1>3 DEF FilesInv

LEMMA Invariance == Spec => []FilesInv
<1>1. Init => FilesInv
  BY ChannelAssumption, InitHolds
<1> QED
  BY <1>1, ChannelAssumption, FilesKept, PTL DEF Spec

-----------------------------------------------------------------------------
(* Theorems                                                                 *)

\* Every variable has its type, and no more files are open than the process may have.
THEOREM TypeCorrect == Spec => []TypeOK
<1>1. FilesInv => TypeOK
  BY DEF FilesInv, ChannelInv
<1> QED
  BY <1>1, Invariance, PTL

\* No utterance is decoded with a graph older than an answered reload.
THEOREM AnsweredGraphIsUsedAlways == Spec => []AnsweredGraphIsUsed
<1>1. FilesInv => AnsweredGraphIsUsed
  BY DEF FilesInv, ChannelInv, GraphsInForce, AnsweredGraphIsUsed
<1> QED
  BY <1>1, Invariance, PTL

\* Reloads leak nothing: a good graph's stream is open when openFST reads it, unless the
\* calls of initialize have used up the files.
THEOREM GoodGraphIsOpenedAlways == Spec => []GoodGraphIsOpened
<1>1. ASSUME FilesInv, ChannelAssumption, pc = "open", ~fstStream, Current \notin damaged
      PROVE  2 * Initializations + 1 > MaxFiles
  <2> DEFINE n == Cardinality(Initializing)
  <2>1. n \in Nat /\ Cardinality(Opened) \in Nat /\ Cardinality(Opened) <= n
    <3>1. Opened \subseteq Initializing /\ IsFiniteSet(Initializing)
      BY <1>1 DEF FilesInv, FilesCounted, Opened
    <3> QED
      BY <3>1, FS_Subset, FS_CardinalityType
  <2>2. leaked \in Nat /\ MaxFiles \in Nat /\ leaked <= 2 * Cardinality(Opened) /\ MaxFiles <= leaked
    BY <1>1 DEF FilesInv, ChannelInv, TypeOK, FilesCounted, StreamOpened, ChannelAssumption
  <2>3. Initializations = n
    BY DEF Initializations, Initializing
  <2> QED
    BY <2>1, <2>2, <2>3
<1>2. FilesInv => GoodGraphIsOpened
  BY <1>1, ChannelAssumption DEF GoodGraphIsOpened
<1> QED
  BY <1>2, Invariance, PTL
=============================================================================
