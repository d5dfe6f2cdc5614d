----------------------- MODULE OnlineKaldiDecoderProofs -----------------------
(***************************************************************************)
(* The Dart client keeps its type, OneSubscription and Settled, for any    *)
(* calls.                                                                  *)
(*                                                                         *)
(* Both properties are about an application that awaits its calls, so the  *)
(* invariant follows the one call that may be in flight: what _socket, the *)
(* subscription and the open sockets are at each of its awaits (Serial).   *)
(* What it rests on holds for calls that overlap in any way: a future      *)
(* belongs to the connect that made it, and only an open one can be        *)
(* written (Futures).                                                      *)
(***************************************************************************)
EXTENDS OnlineKaldiDecoder, TLAPS

Futures ==
  /\ \A k \in Call :
       /\ future[k] = "pending" => pc[k] = "opening"
       /\ pc[k] = "opening" => future[k] # "none"
       /\ future[k] # "none" => pc[k] \notin {"none", "test"}
       /\ pc[k] \in {"flush", "close"} => awaited[k] # None
  /\ \A k \in sending : future[k] = "open"
  /\ socket # None => future[socket] # "none"

Alone == \A j, k \in InFlight : j = k

\* Where the call that is in flight finds _socket and what depends on it.
AtAwait(k) ==
  /\ pc[k] \in {"test", "flush", "close"} => awaited[k] = socket
  /\ pc[k] = "opening" =>
       /\ socket = k /\ listening = {}
       /\ future[k] = "open" => k \in sending
  /\ pc[k] = "closing" => sending = {}

\* No socket is half closed and none is still opening.
AtRest == \A k \in Call : pc[k] \notin {"opening", "closing"}

Serial ==
  /\ Alone
  /\ listening \subseteq {listener}
  /\ sending \subseteq {socket}
  /\ \A k \in Call : AtAwait(k)
  /\ AtRest /\ socket # None /\ future[socket] = "open" =>
       listening = {socket} /\ socket \in sending

IInv == TypeOK /\ Futures /\ (~overlapped => Serial)
-----------------------------------------------------------------------------
(* Types                                                                    *)

\* The types at the start.
LEMMA InitTyped == ASSUME Init PROVE TypeOK
  BY ClientAssumption DEF Init, TypeOK, Returned

\* No step leaves the types.
LEMMA StepTyped == ASSUME TypeOK, [Next]_clientVars PROVE TypeOK'
  <1> USE DEF TypeOK, Returned, Goto, Await, MayCall, futureVars, listenVars, callVars, lifeVars
  <1>1. CASE Initialized BY <1>1 DEF Initialized
  <1>2. ASSUME NEW k \in Call, ConnectCall(k) PROVE TypeOK'
    BY <1>2 DEF ConnectCall
  <1>3. ASSUME NEW k \in Call, DisconnectCall(k) PROVE TypeOK'
    <2>1. disposing' \subseteq Call BY <1>3 DEF DisconnectCall
    <2>2. overlapped' \in BOOLEAN BY <1>3, Zenon DEF DisconnectCall
    <2>3. /\ pc' \in [Call -> Returned \cup {"test", "opening", "flush", "close", "closing", "dispose"}]
          /\ awaited' \in [Call -> Call \cup {None}]
      <3>1. CASE socket = None
        <4>1. pc' = [pc EXCEPT ![k] = IF k \in disposing' THEN "dispose" ELSE "done"] /\ awaited' = awaited
          BY <1>3, <3>1, Zenon DEF DisconnectCall, Return
        <4> QED BY <4>1
      <3>2. CASE socket # None
        <4>1. pc' = [pc EXCEPT ![k] = "flush"] /\ awaited' = [awaited EXCEPT ![k] = socket]
          BY <1>3, <3>2, Zenon DEF DisconnectCall
        <4> QED BY <3>2, <4>1
      <3> QED BY <3>1, <3>2
    <2>4. UNCHANGED <<futureVars, socket, listenVars, lifeVars>> /\ disconnecting' \in BOOLEAN
      BY <1>3, Zenon DEF DisconnectCall
    <2> QED BY <2>1, <2>2, <2>3, <2>4, Zenon
  <1>4. ASSUME NEW k \in Call, ConnectAgain(k) PROVE TypeOK'
    BY <1>4 DEF ConnectAgain
  <1>5. ASSUME NEW k \in Call, ConnectUninitialized(k) PROVE TypeOK'
    BY <1>5 DEF ConnectUninitialized, Cancelled
  <1>6. ASSUME NEW k \in Call, ConnectFirst(k) PROVE TypeOK'
    BY <1>6 DEF ConnectFirst, Cancelled
  <1>7. ASSUME NEW k \in Call, Connected(k) PROVE TypeOK'
    BY <1>7 DEF Connected
  <1>8. ASSUME NEW k \in Call, Flush(k) PROVE TypeOK'
    <2>1. UNCHANGED <<callVars, futureVars, listenVars, lifeVars>>
      BY <1>8, Zenon DEF Flush
    <2>2. CASE socket = None
      <3>1. /\ socket' = None /\ disconnecting' = FALSE /\ awaited' = awaited
            /\ pc' = [pc EXCEPT ![k] = IF k \in disposing THEN "dispose" ELSE "done"]
        BY <1>8, <2>2, Zenon DEF Flush, Finish, Return, ForgetSocket
      <3> QED BY <2>1, <3>1
    <2>3. CASE socket # None
      <3>1. /\ socket' = socket /\ disconnecting' = disconnecting
            /\ awaited' = [awaited EXCEPT ![k] = socket] /\ pc' = [pc EXCEPT ![k] = "close"]
        BY <1>8, <2>3, Zenon DEF Flush
      <3> QED BY <2>1, <2>3, <3>1
    <2> QED BY <2>2, <2>3
  <1>9. ASSUME NEW k \in Call, Close(k) PROVE TypeOK'
    BY <1>9 DEF Close, Finish, Return, ForgetSocket
  <1>10. ASSUME NEW k \in Call, Closed(k) PROVE TypeOK'
    BY <1>10 DEF Closed, Finish, Return, ForgetSocket
  <1>11. ASSUME NEW k \in Call, Dispose(k) PROVE TypeOK'
    BY <1>11 DEF Dispose
  <1>12. ASSUME NEW k \in Call, Opens(k) \/ Fails(k) PROVE TypeOK'
    BY <1>12 DEF Opens, Fails
  <1>13. CASE UNCHANGED clientVars BY <1>13 DEF clientVars
  <1> QED
    BY <1>1, <1>2, <1>3, <1>4, <1>5, <1>6, <1>7, <1>8, <1>9, <1>10, <1>11, <1>12, <1>13
    DEF Next, ClientCall, ClientStep, Answer

-----------------------------------------------------------------------------
(* Futures, however calls overlap                                           *)

\* A future is made by the connect of its name, and opened or failed while that waits.
LEMMA StepFutures == ASSUME TypeOK, Futures, [Next]_clientVars PROVE Futures'
  <1> USE ClientAssumption
      DEF TypeOK, Futures, Returned, Goto, Await, MayCall, futureVars, listenVars, callVars, lifeVars
  <1>1. CASE Initialized BY <1>1 DEF Initialized
  <1>2. ASSUME NEW k \in Call, ConnectCall(k) PROVE Futures'
    BY <1>2 DEF ConnectCall
  <1>3. ASSUME NEW k \in Call, DisconnectCall(k) PROVE Futures'
    BY <1>3 DEF DisconnectCall, Return
  <1>4. ASSUME NEW k \in Call, ConnectAgain(k) PROVE Futures'
    BY <1>4 DEF ConnectAgain
  <1>5. ASSUME NEW k \in Call, ConnectUninitialized(k) PROVE Futures'
    BY <1>5 DEF ConnectUninitialized
  <1>6. ASSUME NEW k \in Call, ConnectFirst(k) PROVE Futures'
    BY <1>6 DEF ConnectFirst
  <1>7. ASSUME NEW k \in Call, Connected(k) PROVE Futures'
    BY <1>7 DEF Connected, Ready
  <1>8. ASSUME NEW k \in Call, Flush(k) PROVE Futures'
    BY <1>8 DEF Flush, Finish, Return, ForgetSocket
  <1>9. ASSUME NEW k \in Call, Close(k) PROVE Futures'
    BY <1>9 DEF Close, Finish, Return, ForgetSocket
  <1>10. ASSUME NEW k \in Call, Closed(k) PROVE Futures'
    BY <1>10 DEF Closed, Finish, Return, ForgetSocket
  <1>11. ASSUME NEW k \in Call, Dispose(k) PROVE Futures'
    BY <1>11 DEF Dispose
  <1>12. ASSUME NEW k \in Call, Opens(k) \/ Fails(k) PROVE Futures'
    BY <1>12 DEF Opens, Fails
  <1>13. CASE UNCHANGED clientVars BY <1>13 DEF clientVars
  <1> QED
    BY <1>1, <1>2, <1>3, <1>4, <1>5, <1>6, <1>7, <1>8, <1>9, <1>10, <1>11, <1>12, <1>13
    DEF Next, ClientCall, ClientStep, Answer

-----------------------------------------------------------------------------
(* Calls that wait for one another                                          *)

\* A call that is made is alone when no call was ever made beside another.
LEMMA CallAlone ==
  ASSUME TypeOK, NEW k \in Call, MayCall(k), ~overlapped'
  PROVE  ~overlapped /\ InFlight = {}
  BY DEF MayCall

\* A step that changes the place of one call that is in flight, or takes it in when
\* there is none, leaves it alone.
LEMMA StillAlone ==
  ASSUME TypeOK, NEW k \in Call, k \in InFlight \/ InFlight = {}, Alone,
         NEW l, pc' = [pc EXCEPT ![k] = l]
  PROVE  Alone' /\ \A j \in Call \ {k} : pc[j] \in Returned /\ pc'[j] = pc[j]
  BY DEF TypeOK, Alone, InFlight

\* Calls that do not overlap did not before, and follow one another.
LEMMA StepSerial ==
  ASSUME IInv, [Next]_clientVars, ~overlapped' PROVE ~overlapped /\ Serial'
  <1> USE ClientAssumption DEF IInv, futureVars, listenVars, callVars, lifeVars
  <1> DEFINE Kept == ~overlapped /\ Serial'
  <1>a. \A k \in Call : pc[k] \notin Returned => k \in InFlight
    BY DEF InFlight
  <1>1. CASE Initialized
    BY <1>1 DEF Initialized, Serial, Alone, InFlight, AtAwait, AtRest
  <1>2. ASSUME NEW k \in Call, ConnectCall(k) PROVE Kept
    <2>1. ~overlapped /\ InFlight = {} BY <1>2, CallAlone DEF ConnectCall
    <2>2. Alone' /\ \A j \in Call \ {k} : pc[j] \in Returned /\ pc'[j] = pc[j]
      BY <1>2, <2>1, StillAlone DEF ConnectCall, Serial, Await, Goto
    <2> QED BY <1>2, <2>1, <2>2
      DEF ConnectCall, Await, Goto, Serial, AtAwait, AtRest, TypeOK, Returned, MayCall
  <1>3. ASSUME NEW k \in Call, DisconnectCall(k) PROVE Kept
    <2>1. ~overlapped /\ InFlight = {} BY <1>3, CallAlone DEF DisconnectCall
    <2>2. Alone' /\ \A j \in Call \ {k} : pc[j] \in Returned /\ pc'[j] = pc[j]
      BY <1>3, <2>1, StillAlone DEF DisconnectCall, Serial, Await, Return, Goto
    <2> QED
      BY <1>3, <2>1, <2>2
      DEF DisconnectCall, Await, Return, Goto, Serial, AtAwait, AtRest, TypeOK, Returned, MayCall
  <1>4. ASSUME NEW k \in Call, ConnectAgain(k) PROVE Kept
    <2>1. ~overlapped /\ k \in InFlight BY <1>4, <1>a DEF ConnectAgain, Returned
    <2>2. Alone' /\ \A j \in Call \ {k} : pc[j] \in Returned /\ pc'[j] = pc[j]
      BY <1>4, <2>1, StillAlone DEF ConnectAgain, Serial, Goto
    <2> QED BY <1>4, <2>1, <2>2 DEF ConnectAgain, Goto, Serial, AtAwait, AtRest, TypeOK, Returned
  <1>5. ASSUME NEW k \in Call, ConnectUninitialized(k) PROVE Kept
    <2>1. ~overlapped /\ k \in InFlight BY <1>5, <1>a DEF ConnectUninitialized, Returned
    <2>2. Alone' /\ \A j \in Call \ {k} : pc[j] \in Returned /\ pc'[j] = pc[j]
      BY <1>5, <2>1, StillAlone DEF ConnectUninitialized, Serial, Goto
    <2> QED
      BY <1>5, <2>1, <2>2
      DEF ConnectUninitialized, Cancelled, Goto, Serial, AtAwait, AtRest, TypeOK, Returned
  <1>6. ASSUME NEW k \in Call, ConnectFirst(k) PROVE Kept
    <2>1. ~overlapped /\ k \in InFlight BY <1>6, <1>a DEF ConnectFirst, Returned
    <2>2. Alone' /\ \A j \in Call \ {k} : pc[j] \in Returned /\ pc'[j] = pc[j]
      BY <1>6, <2>1, StillAlone DEF ConnectFirst, Serial, Await, Goto
    <2>3. sending = {} BY <1>6, <2>1 DEF ConnectFirst, Serial, AtAwait, TypeOK
    <2> QED
      BY <1>6, <2>1, <2>2, <2>3
      DEF ConnectFirst, Cancelled, Await, Goto, Serial, AtAwait, AtRest, TypeOK, Returned
  <1>7. ASSUME NEW k \in Call, Connected(k) PROVE Kept
    <2>1. ~overlapped /\ k \in InFlight BY <1>7, <1>a DEF Connected, Returned
    <2>2. Alone' /\ \A j \in Call \ {k} : pc[j] \in Returned /\ pc'[j] = pc[j]
      BY <1>7, <2>1, StillAlone DEF Connected, Serial, Goto
    <2> QED
      BY <1>7, <2>1, <2>2 DEF Connected, Ready, Goto, Serial, AtAwait, AtRest, TypeOK, Returned
  <1>8. ASSUME NEW k \in Call, Flush(k) PROVE Kept
    <2>1. ~overlapped /\ k \in InFlight BY <1>8, <1>a DEF Flush, Returned
    <2>2. Alone' /\ \A j \in Call \ {k} : pc[j] \in Returned /\ pc'[j] = pc[j]
      BY <1>8, <2>1, StillAlone DEF Flush, Finish, Return, Serial, Await, Goto
    <2>3. socket # None BY <1>8, <2>1 DEF Flush, Futures, Serial, AtAwait
    <2> QED
      BY <1>8, <2>1, <2>2, <2>3 DEF Flush, Await, Goto, Serial, AtAwait, AtRest, TypeOK, Returned
  <1>9. ASSUME NEW k \in Call, Close(k) PROVE Kept
    <2>1. ~overlapped /\ k \in InFlight BY <1>9, <1>a DEF Close, Returned
    <2>2. Alone' /\ \A j \in Call \ {k} : pc[j] \in Returned /\ pc'[j] = pc[j]
      BY <1>9, <2>1, StillAlone DEF Close, Finish, Return, Serial, Goto
    <2>3. awaited[k] = socket /\ sending \subseteq {socket}
      BY <1>9, <2>1 DEF Close, Serial, AtAwait
    <2>4. CASE future[awaited[k]] = "failed"
      <3>1. sending = {} BY <2>3, <2>4 DEF Futures
      <3>2. socket' = None /\ sending' = sending /\ listening' = listening /\ listener' = listener
        BY <1>9, <2>4 DEF Close, Finish, ForgetSocket
      <3>3. pc'[k] \in {"dispose", "done"}
        BY <1>9, <2>4 DEF Close, Finish, Return, Goto, TypeOK
      <3> QED BY <2>1, <2>2, <3>1, <3>2, <3>3 DEF Serial, AtAwait, AtRest, Returned
    <2>5. CASE future[awaited[k]] # "failed"
      <3>1. sending' = {} /\ pc'[k] = "closing" /\ listening' = listening /\ listener' = listener
        BY <1>9, <2>3, <2>5 DEF Close, Goto, TypeOK
      <3> QED BY <2>1, <2>2, <3>1 DEF Serial, AtAwait, AtRest, Returned
    <2> QED BY <2>4, <2>5
  <1>10. ASSUME NEW k \in Call, Closed(k) PROVE Kept
    <2>1. ~overlapped /\ k \in InFlight BY <1>10, <1>a DEF Closed, Returned
    <2>2. Alone' /\ \A j \in Call \ {k} : pc[j] \in Returned /\ pc'[j] = pc[j]
      BY <1>10, <2>1, StillAlone DEF Closed, Finish, Return, Serial, Goto
    <2> QED
      BY <1>10, <2>1, <2>2
      DEF Closed, Finish, ForgetSocket, Return, Goto, Serial, AtAwait, AtRest, TypeOK, Returned
  <1>11. ASSUME NEW k \in Call, Dispose(k) PROVE Kept
    <2>1. ~overlapped /\ k \in InFlight BY <1>11, <1>a DEF Dispose, Returned
    <2>2. Alone' /\ \A j \in Call \ {k} : pc[j] \in Returned /\ pc'[j] = pc[j]
      BY <1>11, <2>1, StillAlone DEF Dispose, Serial, Goto
    <2> QED BY <1>11, <2>1, <2>2 DEF Dispose, Goto, Serial, AtAwait, AtRest, TypeOK, Returned
  <1>12. ASSUME NEW k \in Call, Opens(k) \/ Fails(k) PROVE Kept
    <2>1. ~overlapped /\ pc[k] = "opening" BY <1>12 DEF Opens, Fails, Futures
    <2>2. k \in InFlight BY <1>a, <2>1 DEF Returned
    <2>3. \A j \in Call \ {k} : pc[j] \in Returned
      BY <2>1, <2>2 DEF Serial, Alone, InFlight
    <2>4. Alone' BY <1>12, <2>1 DEF Opens, Fails, Serial, Alone, InFlight
    <2> QED
      BY <1>12, <2>1, <2>3, <2>4 DEF Opens, Fails, Serial, AtAwait, AtRest, TypeOK, Returned
  <1>13. CASE UNCHANGED clientVars
    BY <1>13 DEF clientVars, Serial, Alone, InFlight, AtAwait, AtRest
  <1> QED
    BY <1>1, <1>2, <1>3, <1>4, <1>5, <1>6, <1>7, <1>8, <1>9, <1>10, <1>11, <1>12, <1>13
    DEF Next, ClientCall, ClientStep, Answer

-----------------------------------------------------------------------------
(* What a server that holds a socket of this client may rely on             *)

\* An open socket stays open until it is closed, and one that is neither written nor
\* listened to, nor about to be, stays so.
LEMMA OpenStays ==
  ASSUME TypeOK, Futures, [Next]_clientVars, NEW s \in Call, future[s] = "open"
  PROVE  /\ future'[s] = "open"
         /\ s \notin sending \cup listening /\ pc[s] # "opening" =>
              s \notin sending' \cup listening' /\ pc'[s] # "opening"
  <1> DEFINE Stays ==
        /\ future'[s] = "open"
        /\ s \notin sending \cup listening /\ pc[s] # "opening" =>
             s \notin sending' \cup listening' /\ pc'[s] # "opening"
  <1> USE DEF TypeOK, Futures, Goto, Await, MayCall, futureVars, listenVars, callVars, lifeVars
  <1>1. ASSUME NEW k \in Call, ConnectCall(k) \/ ConnectAgain(k) \/ Dispose(k) PROVE Stays
    BY <1>1 DEF ConnectCall, ConnectAgain, Dispose
  <1>2. ASSUME NEW k \in Call, ConnectUninitialized(k) \/ ConnectFirst(k) PROVE Stays
    BY <1>2 DEF ConnectUninitialized, ConnectFirst, Cancelled
  <1>3. ASSUME NEW k \in Call, Connected(k) PROVE Stays
    BY <1>3 DEF Connected
  <1>4. ASSUME NEW k \in Call, DisconnectCall(k) PROVE Stays
    BY <1>4 DEF DisconnectCall, Return
  <1>5. ASSUME NEW k \in Call, Flush(k) \/ Close(k) \/ Closed(k) PROVE Stays
    BY <1>5 DEF Flush, Close, Closed, Finish, Return
  <1>6. ASSUME NEW k \in Call, Opens(k) \/ Fails(k) PROVE Stays
    BY <1>6 DEF Opens, Fails
  <1>7. CASE Initialized \/ UNCHANGED clientVars
    BY <1>7 DEF Initialized, clientVars
  <1> QED
    BY <1>1, <1>2, <1>3, <1>4, <1>5, <1>6, <1>7 DEF Next, ClientCall, ClientStep, Answer

\* The controllers are closed for good.
LEMMA ClosedStays == ASSUME [Next]_clientVars, closed PROVE closed'
  BY DEF Next, clientVars, lifeVars, ClientCall, ClientStep, Answer, Initialized, ConnectCall,
         DisconnectCall, ConnectAgain, ConnectUninitialized, ConnectFirst, Connected, Flush,
         Close, Closed, Dispose, Opens, Fails

-----------------------------------------------------------------------------
(* The theorems                                                             *)

\* The invariant holds in every state, whatever the application calls.
THEOREM Inductive == Spec => []IInv
  <1>1. ASSUME Init PROVE IInv
    <2>1. TypeOK BY <1>1, InitTyped
    <2>2. Futures BY <1>1 DEF Init, Futures
    <2>3. Serial BY <1>1, ClientAssumption DEF Init, Serial, Alone, InFlight, AtAwait, AtRest, Returned
    <2> QED BY <2>1, <2>2, <2>3 DEF IInv
  <1>2. ASSUME IInv, [Next]_clientVars PROVE IInv'
    BY <1>2, StepTyped, StepFutures, StepSerial DEF IInv
  <1> QED BY <1>1, <1>2, PTL DEF Spec

\* Every variable of the client has its type, for any number of calls.
THEOREM TypeCorrect == Spec => []TypeOK
  <1>1. IInv => TypeOK BY DEF IInv
  <1> QED BY <1>1, Inductive, PTL

\* An application that awaits its calls has one subscription.
THEOREM OneSubscriptionAlways == Spec => []OneSubscription
  <1>1. IInv => OneSubscription BY DEF IInv, Serial, OneSubscription
  <1> QED BY <1>1, Inductive, PTL

\* What its calls leave behind is one open socket at most, the one it listens to.
THEOREM SettledAlways == Spec => []Settled
  <1>1. IInv => Settled
    BY DEF IInv, Serial, Settled, AtRest, InFlight, Returned
  <1> QED BY <1>1, Inductive, PTL
=============================================================================
