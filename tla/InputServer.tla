----------------------------- MODULE InputServer -----------------------------
(***************************************************************************)
(* The methods of kaldi::TcpServer (server.cc) as the decoder thread and   *)
(* the platform thread execute them on the input server, one action per    *)
(* access to state that another thread may touch.  The object's members    *)
(* are plain ints: nothing in server.cc locks them, so loadFST's Kill can  *)
(* run between any two of these actions.                                   *)
(*                                                                         *)
(* A thread is at a label pc[a], inside a method of the object this[a];    *)
(* Disconnect returns to ret[a].  The bytes of a chunk are abstracted to   *)
(* the three ways ReadChunk can go on; TcpServer.tla models them.          *)
(***************************************************************************)
CONSTANTS
  Thread,   \* ids pthread_create can give a decoder thread
  Main,     \* the platform thread, which runs the method channel handlers
  Addr,     \* addresses operator new can return for a TcpServer
  Desc,     \* descriptor numbers of the process
  Port,     \* TCP ports the kernel can bind
  None      \* nullptr, and -1 for a descriptor or a port

Actor == Thread \cup {Main}

VARIABLES
  up,           \* the process is alive
  pc,           \* where each thread is
  this,         \* the TcpServer whose method each thread executes
  ret,          \* where Disconnect returns to
  heap,         \* the TcpServer objects that are allocated
  server_desc,  \* TcpServer::server_desc_
  client_desc,  \* TcpServer::client_desc_
  fd            \* the kernel's descriptor table

serverVars == <<up, pc, this, ret, heap, server_desc, client_desc, fd>>

DisconnectLabels == {"disconnect", "closeClient", "clearClient"}
KillLabels == {"kill", "closeServer", "clearServer"}
AcceptLabels == {"accept", "listening", "select", "acceptClient"}
ReadLabels == {"read", "selectData", "selectMore", "poll", "readData"}
MethodLabels == DisconnectLabels \cup KillLabels \cup AcceptLabels \cup ReadLabels

\* A descriptor is free, listens on a port, is the accepted input client, or
\* belongs to the rest of the process (Dart's sockets, files, the log).
DescState == {"free", "client", "other"} \cup Port

Goto(a, label) == pc' = [pc EXCEPT ![a] = label]

\* obj->method(), where Disconnect will go on at r.
Call(a, obj, method, r) ==
  /\ Goto(a, method)
  /\ this' = [this EXCEPT ![a] = obj]
  /\ ret' = [ret EXCEPT ![a] = r]

\* An uncaught C++ exception, a null dereference or an abort ends the process.
Die ==
  /\ up' = FALSE
  /\ UNCHANGED <<pc, this, ret, heap, server_desc, client_desc, fd>>

\* A method of a deleted object reads what the destructor left there (the
\* actions below), faults, or reads what a new owner of the memory wrote.
FreedAccess(a) ==
  /\ pc[a] \in MethodLabels
  /\ this[a] \notin heap
  /\ Die

FreedReused(a) ==
  /\ pc[a] \in MethodLabels
  /\ this[a] \notin heap
  /\ \E s, c \in Desc \cup {None} :
       /\ server_desc' = [server_desc EXCEPT ![this[a]] = s]
       /\ client_desc' = [client_desc EXCEPT ![this[a]] = c]
  /\ UNCHANGED <<up, pc, this, ret, heap, fd>>

\* Mutant: the member is reset, the descriptor stays open.
CloseForgotten(d) == fd

\* close()
Close(d) == IF d = None THEN fd ELSE [fd EXCEPT ![d] = "free"]

-----------------------------------------------------------------------------
(* Listen: the socket call and the bind, on a free descriptor.  Every       *)
(* error is a KALDI_ERR, which throws.                                      *)

\* The new TcpServer at obj listens on descriptor d, bound to port p.
Listen(obj, d, p) ==
  /\ obj \in Addr \ heap
  /\ fd[d] = "free"
  /\ \A e \in Desc : fd[e] # p
  /\ heap' = heap \cup {obj}
  /\ server_desc' = [server_desc EXCEPT ![obj] = d]
  /\ client_desc' = [client_desc EXCEPT ![obj] = None]
  /\ fd' = [fd EXCEPT ![d] = p]

-----------------------------------------------------------------------------
(* Disconnect and Kill                                                      *)

DisconnectTest(a) ==
  /\ pc[a] = "disconnect"
  /\ Goto(a, IF client_desc[this[a]] = None THEN ret[a] ELSE "closeClient")
  /\ UNCHANGED <<up, this, ret, heap, server_desc, client_desc, fd>>

\* close() takes the member's value of this moment, not the tested one.
CloseClient(a) ==
  /\ pc[a] = "closeClient"
  /\ fd' = Close(client_desc[this[a]])
  /\ Goto(a, "clearClient")
  /\ UNCHANGED <<up, this, ret, heap, server_desc, client_desc>>

\* Mutant: close without client_desc_ = -1.
ClearClientForgotten(a) ==
  /\ pc[a] = "clearClient"
  /\ Goto(a, ret[a])
  /\ UNCHANGED <<up, this, ret, heap, server_desc, client_desc, fd>>

ClearClient(a) ==
  /\ pc[a] = "clearClient"
  /\ client_desc' = [client_desc EXCEPT ![this[a]] = None]
  /\ Goto(a, ret[a])
  /\ UNCHANGED <<up, this, ret, heap, server_desc, fd>>

\* Mutants: loadFST does not wait; the two continuations are swapped.
KillReturnNoWait(a) == IF a = Main THEN "unload" ELSE "free"
KillReturnSwapped(a) == IF a = Main THEN "free" ELSE "wait"

\* loadFST goes on to wait for the decoder; the destructor frees the object.
KillReturn(a) == IF a = Main THEN "wait" ELSE "free"

KillTest(a) ==
  /\ pc[a] = "kill"
  /\ Goto(a, IF server_desc[this[a]] = None THEN KillReturn(a) ELSE "closeServer")
  /\ UNCHANGED <<up, this, ret, heap, server_desc, client_desc, fd>>

CloseServer(a) ==
  /\ pc[a] = "closeServer"
  /\ fd' = Close(server_desc[this[a]])
  /\ Goto(a, "clearServer")
  /\ UNCHANGED <<up, this, ret, heap, server_desc, client_desc>>

ClearServer(a) ==
  /\ pc[a] = "clearServer"
  /\ server_desc' = [server_desc EXCEPT ![this[a]] = None]
  /\ Goto(a, KillReturn(a))
  /\ UNCHANGED <<up, this, ret, heap, client_desc, fd>>

KillStep(a) ==
  \/ DisconnectTest(a) \/ CloseClient(a) \/ ClearClient(a)
  \/ KillTest(a) \/ CloseServer(a) \/ ClearServer(a)

-----------------------------------------------------------------------------
(* Accept: returns at "accepted" with a descriptor, at "sleep" with -1      *)

AcceptTest(a) ==
  /\ pc[a] = "accept"
  /\ Goto(a, IF client_desc[this[a]] # None THEN "accepted" ELSE "listening")
  /\ UNCHANGED <<up, this, ret, heap, server_desc, client_desc, fd>>

AcceptListening(a) ==
  /\ pc[a] = "listening"
  /\ Goto(a, IF server_desc[this[a]] = None THEN "sleep" ELSE "select")
  /\ UNCHANGED <<up, this, ret, heap, server_desc, client_desc, fd>>

\* select() with the member's value of this moment: nobody in 100us or EBADF,
\* something to accept, or an FD_SET(-1) that a hardened libc aborts on.
AcceptSelect(a) ==
  /\ pc[a] = "select"
  /\ LET d == server_desc[this[a]] IN
       \/ /\ Goto(a, "sleep")
          /\ UNCHANGED <<up, this, ret, heap, server_desc, client_desc, fd>>
       \/ /\ d # None /\ fd[d] # "free"
          /\ Goto(a, "acceptClient")
          /\ UNCHANGED <<up, this, ret, heap, server_desc, client_desc, fd>>
       \/ d = None /\ Die

\* accept() on the member's value of this moment.  It fails when Kill has
\* closed the socket, and may fail for an aborted connection: KALDI_ERR throws
\* and nothing above the thread function catches.
AcceptClient(a) ==
  /\ pc[a] = "acceptClient"
  /\ \/ /\ server_desc[this[a]] # None
        /\ fd[server_desc[this[a]]] \in Port
        /\ \E c \in Desc :
             /\ fd[c] = "free"
             /\ fd' = [fd EXCEPT ![c] = "client"]
             /\ client_desc' = [client_desc EXCEPT ![this[a]] = c]
        /\ Goto(a, "accepted")
        /\ UNCHANGED <<up, this, ret, heap, server_desc>>
     \/ Die

AcceptStep(a) ==
  AcceptTest(a) \/ AcceptListening(a) \/ AcceptSelect(a) \/ AcceptClient(a)

-----------------------------------------------------------------------------
(* ReadChunk: returns at "chunk" with true, at "eos" with false             *)

ReadTest(a) ==
  /\ pc[a] = "read"
  /\ Goto(a, IF client_desc[this[a]] = None THEN "eos" ELSE "selectData")
  /\ UNCHANGED <<up, this, ret, heap, server_desc, client_desc, fd>>

\* Nothing in 30s or EBADF, something to read, or FD_SET(-1) as in Accept; the
\* descriptor set is filled once, before the loop.
ReadSelect(a) ==
  /\ pc[a] \in {"selectData", "selectMore"}
  /\ LET d == client_desc[this[a]] IN
       \/ /\ Goto(a, "eos")
          /\ UNCHANGED <<up, this, ret, heap, server_desc, client_desc, fd>>
       \/ /\ d # None /\ fd[d] # "free"
          /\ Goto(a, "poll")
          /\ UNCHANGED <<up, this, ret, heap, server_desc, client_desc, fd>>
       \/ pc[a] = "selectData" /\ d = None /\ Die

\* poll() times out or fails: Disconnect, then true when bytes were read.
ReadPoll(a) ==
  /\ pc[a] = "poll"
  /\ \/ Goto(a, "readData") /\ UNCHANGED ret
     \/ /\ Goto(a, "disconnect")
        /\ \E r \in {"chunk", "eos"} : ret' = [ret EXCEPT ![a] = r]
  /\ UNCHANGED <<up, this, heap, server_desc, client_desc, fd>>

\* read() on the member's value of this moment returns data (the chunk is
\* complete, incomplete, or taken for silence), or nothing or an error (what
\* errno holds decides whether to Disconnect).
ReadData(a) ==
  /\ pc[a] = "readData"
  /\ LET d == client_desc[this[a]] IN
       \/ Goto(a, "chunk") /\ UNCHANGED ret
       \/ Goto(a, "eos") /\ UNCHANGED ret
       \/ d # None /\ fd[d] # "free" /\ Goto(a, "selectMore") /\ UNCHANGED ret
       \/ Goto(a, "disconnect") /\ ret' = [ret EXCEPT ![a] = "eos"]
  /\ UNCHANGED <<up, this, heap, server_desc, client_desc, fd>>

ReadStep(a) == ReadTest(a) \/ ReadSelect(a) \/ ReadPoll(a) \/ ReadData(a)

-----------------------------------------------------------------------------
(* The rest of the process opens and closes descriptors of its own.         *)

OtherOpens ==
  /\ \E d \in Desc : fd[d] = "free" /\ fd' = [fd EXCEPT ![d] = "other"]
  /\ UNCHANGED <<up, pc, this, ret, heap, server_desc, client_desc>>

OtherCloses ==
  /\ \E d \in Desc : fd[d] = "other" /\ fd' = [fd EXCEPT ![d] = "free"]
  /\ UNCHANGED <<up, pc, this, ret, heap, server_desc, client_desc>>
=============================================================================
