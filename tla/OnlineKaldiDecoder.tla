-------------------------- MODULE OnlineKaldiDecoder --------------------------
(***************************************************************************)
(* The Dart client: connect, disconnect and dispose of online_kaldi_       *)
(* decoder.dart.  They are coroutines of one isolate: a step runs from one *)
(* await to the next without interruption, and other calls run in between. *)
(*                                                                         *)
(* _socket holds a Future<Socket>; the future is named after the connect   *)
(* call that made it.  Closing a Dart socket shuts down its sending side   *)
(* only; the receiving side goes when the subscription is cancelled.       *)
(***************************************************************************)
CONSTANTS
  Call,  \* bound: calls the application makes
  None   \* null

ASSUME ClientAssumption == None \notin Call

VARIABLES
  pc,            \* where each call is
  awaited,       \* the Future<Socket> each call waits for
  disposing,     \* the calls that are dispose's
  overlapped,    \* history: a call was made while another one had not returned
  future,        \* what became of each Socket.connect
  sending,       \* sockets whose sending side is open
  socket,        \* _socket
  listener,      \* the socket of the subscription in _listener
  listening,     \* sockets with a subscription that is not cancelled
  disconnecting,
  initialized,   \* initialize has returned and _outputPortNum is set
  closed         \* _decodedController and _statusController are closed

futureVars == <<future, sending>>
listenVars == <<listener, listening>>
callVars == <<disposing, overlapped>>
lifeVars == <<initialized, closed>>
clientVars == <<pc, awaited, callVars, futureVars, socket, listenVars, disconnecting, lifeVars>>

Init ==
  /\ pc = [k \in Call |-> "none"]
  /\ awaited = [k \in Call |-> None]
  /\ disposing = {}
  /\ overlapped = FALSE
  /\ future = [k \in Call |-> "none"]
  /\ sending = {}
  /\ socket = None
  /\ listener = None
  /\ listening = {}
  /\ disconnecting = FALSE
  /\ initialized = FALSE
  /\ closed = FALSE

Returned == {"none", "done", "threw"}
InFlight == {k \in Call : pc[k] \notin Returned}

Goto(k, label) == pc' = [pc EXCEPT ![k] = label]
Await(k, f, label) == awaited' = [awaited EXCEPT ![k] = f] /\ Goto(k, label)

\* await goes on with null at once, and with a future that has a value or an error.
Ready(f) == f = None \/ future[f] # "pending"

\* The application may call at any time, but no more after dispose.
MayCall(k) ==
  /\ pc[k] = "none" /\ disposing = {}
  /\ overlapped' = (overlapped \/ InFlight # {})

\* initialize returns with the ports: PluginChannel has what comes before.
Initialized ==
  /\ ~initialized
  /\ initialized' = TRUE
  /\ UNCHANGED <<pc, awaited, callVars, futureVars, socket, listenVars, disconnecting, closed>>

-----------------------------------------------------------------------------
(* connect                                                                  *)

ConnectCall(k) ==
  /\ MayCall(k)
  /\ Await(k, socket, "test")
  /\ UNCHANGED <<disposing, futureVars, socket, listenVars, disconnecting, lifeVars>>

\* A socket means that there is nothing to do; the error of an earlier attempt is
\* thrown, because this await is outside the try block.
ConnectAgain(k) ==
  /\ pc[k] = "test"
  /\ awaited[k] # None /\ Ready(awaited[k])
  /\ Goto(k, IF future[awaited[k]] = "failed" THEN "threw" ELSE "done")
  /\ UNCHANGED <<awaited, callVars, futureVars, socket, listenVars, disconnecting, lifeVars>>

\* Mutants: the old subscription is not cancelled; it is the only one that stays.
NotCancelled == listening
OthersCancelled == {listener}

\* _listener?.cancel()
Cancelled == listening \ {listener}

\* _outputPortNum is late: reading it before initialize has returned is an error,
\* which is printed.
ConnectUninitialized(k) ==
  /\ pc[k] = "test"
  /\ awaited[k] = None /\ ~initialized
  /\ listening' = Cancelled
  /\ Goto(k, "done")
  /\ UNCHANGED <<awaited, callVars, futureVars, socket, listener, disconnecting, lifeVars>>

ConnectFirst(k) ==
  /\ pc[k] = "test"
  /\ awaited[k] = None /\ initialized
  /\ listening' = Cancelled
  /\ socket' = k
  /\ future' = [future EXCEPT ![k] = "pending"]
  /\ Await(k, k, "opening")
  /\ UNCHANGED <<callVars, sending, listener, disconnecting, lifeVars>>

\* Listen and report Connected; an error of the socket, or of a status controller
\* that is closed by now, is printed.
Connected(k) ==
  /\ pc[k] = "opening"
  /\ Ready(k)
  /\ IF future[k] = "open"
     THEN listener' = k /\ listening' = listening \cup {k}
     ELSE UNCHANGED listenVars
  /\ Goto(k, "done")
  /\ UNCHANGED <<awaited, callVars, futureVars, socket, disconnecting, lifeVars>>

-----------------------------------------------------------------------------
(* disconnect and dispose                                                   *)

\* dispose goes on after its disconnect.
Return(k, disposals) == Goto(k, IF k \in disposals THEN "dispose" ELSE "done")

DisconnectCall(k) ==
  /\ MayCall(k)
  /\ disposing' \in {disposing, disposing \cup {k}}
  /\ IF socket = None
     THEN Return(k, disposing') /\ UNCHANGED <<awaited, disconnecting>>
     ELSE Await(k, socket, "flush") /\ disconnecting' = TRUE
  /\ UNCHANGED <<futureVars, socket, listenVars, lifeVars>>

\* Mutant: _socket keeps the closed socket.
KeepSocket == socket

\* _socket = null
ForgetSocket == None

\* Mutant: disconnect starts again when closing has failed.
FinishRetrying(k) ==
  IF socket # None /\ future[socket] = "failed"
  THEN Goto(k, "flush") /\ UNCHANGED <<socket, disconnecting>>
  ELSE socket' = ForgetSocket /\ disconnecting' = FALSE /\ Return(k, disposing)

\* The inner finally block.
Finish(k) ==
  /\ socket' = ForgetSocket
  /\ disconnecting' = FALSE
  /\ Return(k, disposing)

\* After the flush, or its error, _socket is read again; null! is an error that
\* is printed.
Flush(k) ==
  /\ pc[k] = "flush"
  /\ Ready(awaited[k])
  /\ IF socket = None
     THEN Finish(k) /\ UNCHANGED awaited
     ELSE Await(k, socket, "close") /\ UNCHANGED <<socket, disconnecting>>
  /\ UNCHANGED <<callVars, futureVars, listenVars, lifeVars>>

Close(k) ==
  /\ pc[k] = "close"
  /\ Ready(awaited[k])
  /\ IF future[awaited[k]] = "failed"
     THEN Finish(k) /\ UNCHANGED sending
     ELSE /\ sending' = sending \ {awaited[k]}
          /\ Goto(k, "closing")
          /\ UNCHANGED <<socket, disconnecting>>
  /\ UNCHANGED <<awaited, callVars, future, listenVars, lifeVars>>

\* close()'s future completes.
Closed(k) ==
  /\ pc[k] = "closing"
  /\ Finish(k)
  /\ UNCHANGED <<awaited, callVars, futureVars, listenVars, lifeVars>>

Dispose(k) ==
  /\ pc[k] = "dispose"
  /\ closed' = TRUE
  /\ Goto(k, "done")
  /\ UNCHANGED <<awaited, callVars, futureVars, socket, listenVars, disconnecting, initialized>>

-----------------------------------------------------------------------------
(* The network: Socket.connect has a time-out of 30s.                       *)

Opens(k) ==
  /\ future[k] = "pending"
  /\ future' = [future EXCEPT ![k] = "open"]
  /\ sending' = sending \cup {k}
  /\ UNCHANGED <<pc, awaited, callVars, socket, listenVars, disconnecting, lifeVars>>

Fails(k) ==
  /\ future[k] = "pending"
  /\ future' = [future EXCEPT ![k] = "failed"]
  /\ UNCHANGED <<pc, awaited, callVars, sending, socket, listenVars, disconnecting, lifeVars>>

ClientCall == Initialized \/ \E k \in Call : ConnectCall(k) \/ DisconnectCall(k)

\* The event loop goes on with a call whose future has completed.
ClientStep(k) ==
  \/ ConnectAgain(k) \/ ConnectUninitialized(k) \/ ConnectFirst(k) \/ Connected(k)
  \/ Flush(k) \/ Close(k) \/ Closed(k) \/ Dispose(k)

Answer(k) == Opens(k) \/ Fails(k)

Next == ClientCall \/ \E k \in Call : ClientStep(k) \/ Answer(k)

Spec == Init /\ [][Next]_clientVars

\* The event loop runs and every connection attempt is answered or times out.
FairSpec ==
  /\ Spec
  /\ \A k \in Call : WF_clientVars(ClientStep(k)) /\ WF_clientVars(Answer(k))

-----------------------------------------------------------------------------
(* Properties                                                               *)

TypeOK ==
  /\ pc \in [Call -> Returned \cup {"test", "opening", "flush", "close", "closing", "dispose"}]
  /\ awaited \in [Call -> Call \cup {None}]
  /\ disposing \subseteq Call /\ overlapped \in BOOLEAN
  /\ future \in [Call -> {"none", "pending", "open", "failed"}]
  /\ sending \subseteq Call /\ listening \subseteq Call
  /\ socket \in Call \cup {None} /\ listener \in Call \cup {None}
  /\ disconnecting \in BOOLEAN /\ initialized \in BOOLEAN /\ closed \in BOOLEAN

\* An application that awaits its calls hears every transcript once, however often
\* it reconnects: one subscription is alive.
OneSubscription == ~overlapped => \A s, t \in listening : s = t

\* Once such an application's calls have returned, the socket it holds is the one
\* it listens to and can be written, and every other one has been shut down.
Settled ==
  ~overlapped /\ InFlight = {} =>
    /\ sending \subseteq {socket}
    /\ socket # None /\ future[socket] = "open" => listening = {socket} /\ socket \in sending

\* Whatever calls overlap, none of them waits or retries for ever: _socket may be
\* replaced or cleared while a call awaits it, and it keeps the future of a connection
\* that failed, which every later call awaits.
CallsReturn == \A k \in Call : k \in InFlight ~> k \notin InFlight
=============================================================================
