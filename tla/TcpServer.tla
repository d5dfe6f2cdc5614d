------------------------------ MODULE TcpServer ------------------------------
(***************************************************************************)
(* The audio that reaches the decoder: the input TcpServer of server.cc    *)
(* under the calls of thr_func, one decoder thread and no reload           *)
(* (InputServer and AsrBridge interleave those), but with the bytes.       *)
(*                                                                         *)
(* A client connects, sends 16-bit samples and closes.  The decoder takes  *)
(* it once the output server has a client, and reads it if a graph is      *)
(* loaded.  The kernel hands the bytes to read() in pieces of any size.    *)
(* ReadChunk collects a chunk; GetChunk converts what it collected; when   *)
(* ReadChunk returns false the utterance is over and the decoder           *)
(* disconnects the client.                                                 *)
(***************************************************************************)
EXTENDS Integers, Sequences, FiniteSets, Folds, Functions

CONSTANTS
  Conn,        \* connections clients make
  None,        \* no connection (client_desc_ = -1)
  Sample,      \* sample values clients send
  ChunkLen,    \* chunk_len: samples asked for in one ReadChunk
  MaxSamples,  \* bound: samples sent, on all connections together
  Signals      \* whether a signal may interrupt a system call of the decoder

Byte == 0 .. 255

\* What a 16-bit sample can be.
Int16Min == -32768
Int16Max == 32767
Int16Range == Int16Min .. Int16Max

ASSUME TcpAssumption ==
  /\ None \notin Conn
  /\ Sample \subseteq Int16Range
  /\ ChunkLen \in Nat \ {0} /\ MaxSamples \in Nat
  /\ Signals \in BOOLEAN

VARIABLES
  peer,         \* what each client has done with its connection
  sent,         \* samples each client has sent
  wire,         \* bytes of a connection the kernel holds for read()
  backlog,      \* connections accept() can return
  output,       \* whether outputServer has, or can accept, a client
  decode_fst,   \* whether a graph is loaded; only a reload would change it
  client_desc,  \* the accepted connection
  samp_buf,     \* the bytes of samp_buf_
  has_read,     \* has_read_
  errno,        \* errno of the decoder thread: no successful call resets it
  pc,           \* where thr_func is
  utterance,    \* the connection the current utterance began with
  heard,        \* samples of each connection passed to AcceptWaveform
  got,          \* bytes of each connection that read() has returned
  why           \* why ReadChunk last returned false

clientVars == <<peer, sent>>
outerVars == <<output, decode_fst>>
chunkVars == <<samp_buf, has_read>>
callerVars == <<utterance, heard>>
vars == <<clientVars, wire, backlog, outerVars, client_desc, chunkVars, errno, pc, callerVars,
          got, why>>

BufBytes == 2 * ChunkLen

\* Mutant: to_read stays the size of the buffer.
ToReadAll == BufBytes

\* to_read
ToRead == BufBytes - has_read

\* Memory of new int16[len] before anything is read into it.
Uninitialised == 170

Bytes(v) == <<v % 256, (v \div 256) % 256>>
Int16(lo, hi) == IF hi >= 128 THEN lo + 256 * hi - 65536 ELSE lo + 256 * hi

\* The i-th sample of a buffer, counted from 1.
SampleAt(buf, i) == Int16(buf[2 * i - 1], buf[2 * i])

Init ==
  /\ peer = [c \in Conn |-> "new"]
  /\ sent = [c \in Conn |-> <<>>]
  /\ wire = [c \in Conn |-> <<>>]
  /\ backlog = <<>>
  /\ output = FALSE
  /\ decode_fst \in BOOLEAN
  /\ client_desc = None
  /\ samp_buf = [i \in 1 .. BufBytes |-> Uninitialised]
  /\ has_read = 0
  /\ errno = "none"
  /\ pc = "accept"
  /\ utterance = None
  /\ heard = [c \in Conn |-> <<>>]
  /\ got = [c \in Conn |-> 0]
  /\ why = "none"

-----------------------------------------------------------------------------
(* The audio source (AudioPipeline) and the reader of the transcripts, both *)
(* outside the server                                                       *)

AllSent == FoldFunction(LAMBDA samples, n : Len(samples) + n, 0, sent)

ClientConnect(c) ==
  /\ peer[c] = "new"
  /\ peer' = [peer EXCEPT ![c] = "up"]
  /\ backlog' = Append(backlog, c)
  /\ UNCHANGED <<sent, wire, outerVars, client_desc, chunkVars, errno, pc, callerVars, got, why>>

ClientSend(c) ==
  /\ peer[c] = "up"
  /\ AllSent < MaxSamples
  /\ \E v \in Sample :
       /\ sent' = [sent EXCEPT ![c] = Append(@, v)]
       /\ wire' = [wire EXCEPT ![c] = @ \o Bytes(v)]
  /\ UNCHANGED <<peer, backlog, outerVars, client_desc, chunkVars, errno, pc, callerVars, got, why>>

\* An orderly close leaves the bytes readable; a reset throws them away.
ClientClose(c) ==
  /\ peer[c] = "up"
  /\ \/ peer' = [peer EXCEPT ![c] = "closed"] /\ UNCHANGED wire
     \/ peer' = [peer EXCEPT ![c] = "reset"] /\ wire' = [wire EXCEPT ![c] = <<>>]
  /\ UNCHANGED <<sent, backlog, outerVars, client_desc, chunkVars, errno, pc, callerVars, got, why>>

\* outputServer holds its client from now on, whether it is still there or not.
OutputConnects ==
  /\ ~output /\ output' = TRUE
  /\ UNCHANGED <<clientVars, wire, backlog, decode_fst, client_desc, chunkVars, errno, pc,
                 callerVars, got, why>>

-----------------------------------------------------------------------------
(* The decoder thread                                                       *)

\* A held client is returned at once; a time-out (-1) changes nothing.  A client
\* of outputServer comes first.
Accept ==
  /\ pc = "accept" /\ output
  /\ client_desc # None \/ backlog # <<>>
  /\ client_desc' = IF client_desc # None THEN client_desc ELSE Head(backlog)
  /\ backlog' = IF client_desc # None THEN backlog ELSE Tail(backlog)
  /\ pc' = "accepted"
  /\ UNCHANGED <<clientVars, wire, outerVars, chunkVars, errno, callerVars, got, why>>

\* accept() may fail for a connection that was reset in the queue: KALDI_ERR, which
\* nothing on this thread catches.
AcceptThrows ==
  /\ pc = "accept" /\ output
  /\ client_desc = None /\ backlog # <<>> /\ peer[Head(backlog)] = "reset"
  /\ pc' = "dead"
  /\ UNCHANGED <<clientVars, wire, backlog, outerVars, client_desc, chunkVars, errno, callerVars,
                 got, why>>

\* A signal interrupts the select of Accept, or the sleep after it.
AcceptInterrupted ==
  /\ pc = "accept" /\ Signals
  /\ errno' = "EINTR"
  /\ UNCHANGED <<clientVars, wire, backlog, outerVars, client_desc, chunkVars, pc, callerVars, got,
                 why>>

\* Without a graph the client is held, unread, and the loop starts again.
CheckFST ==
  /\ pc = "accepted"
  /\ IF decode_fst
     THEN pc' = "start" /\ utterance' = client_desc
     ELSE pc' = "accept" /\ UNCHANGED utterance
  /\ UNCHANGED <<clientVars, wire, backlog, outerVars, client_desc, chunkVars, errno, heard, got, why>>

\* Mutant: the client is held.
DisconnectForgotten == UNCHANGED <<client_desc, peer, wire>>

\* close(client_desc_), client_desc_ = -1: what the client still sends is lost.
Disconnect ==
  /\ client_desc' = None
  /\ IF client_desc = None
     THEN UNCHANGED <<peer, wire>>
     ELSE /\ peer' = [peer EXCEPT ![client_desc] = "gone"]
          /\ wire' = [wire EXCEPT ![client_desc] = <<>>]

Return(result, reason) ==
  /\ pc' = IF result THEN "true" ELSE "false"
  /\ why' = reason

ReadChunk ==
  /\ pc = "start"
  /\ has_read' = 0
  /\ IF client_desc = None THEN Return(FALSE, "unconnected") ELSE pc' = "select" /\ UNCHANGED why
  /\ UNCHANGED <<clientVars, wire, backlog, outerVars, client_desc, samp_buf, errno, callerVars, got>>

Readable(c) == wire[c] # <<>> \/ peer[c] \in {"closed", "reset"}

\* select() for 30s: whatever was read before is left in samp_buf_ on an error.
Select ==
  /\ pc = "select"
  /\ \/ Readable(client_desc) /\ pc' = "poll" /\ UNCHANGED <<errno, why>>
     \/ ~Readable(client_desc) /\ Return(FALSE, "timeout") /\ UNCHANGED errno
     \/ Signals /\ errno' = "EINTR" /\ Return(FALSE, "signal")
  /\ UNCHANGED <<clientVars, wire, backlog, outerVars, client_desc, chunkVars, callerVars, got>>

\* poll() finds what select found, or is interrupted and breaks out of the loop.
Poll ==
  /\ pc = "poll"
  /\ \/ /\ pc' = "read"
        /\ UNCHANGED <<peer, wire, client_desc, errno, why>>
     \/ /\ Signals /\ errno' = "EINTR"
        /\ Disconnect
        /\ Return(has_read > 0, "signal")
  /\ UNCHANGED <<sent, backlog, outerVars, chunkVars, callerVars, got>>

\* Mutant: every piece is stored at the start of the buffer.
StoreAtStart(bytes) ==
  [i \in 1 .. BufBytes |-> IF i \in 1 .. Len(bytes) THEN bytes[i] ELSE samp_buf[i]]

\* The bytes go to samp_buf_p + has_read_.
Store(bytes) ==
  [i \in 1 .. BufBytes |->
     IF i - has_read \in 1 .. Len(bytes) THEN bytes[i - has_read] ELSE samp_buf[i]]

\* tot: the sum of ret / 2 samples from index has_read_ / 2.
Total(buf, ret) ==
  LET first == has_read \div 2 IN
  MapThenFoldSet(+, 0, LAMBDA i : SampleAt(buf, first + i), LAMBDA S : CHOOSE i \in S : TRUE,
                 1 .. ret \div 2)

\* Mutant: silence is left out and reading goes on.
SkipSilence == pc' = "select" /\ UNCHANGED <<has_read, why>>

\* A piece whose samples add up to zero, or that has no whole sample, ends the
\* stream and forgets the chunk.
Silence == Return(FALSE, "zero") /\ UNCHANGED has_read

\* read() returns ret bytes.
ReadBytes ==
  /\ pc = "read"
  /\ wire[client_desc] # <<>>
  /\ \E ret \in 1 .. ToRead :
       /\ ret <= Len(wire[client_desc])
       /\ samp_buf' = Store(SubSeq(wire[client_desc], 1, ret))
       /\ wire' = [wire EXCEPT ![client_desc] = SubSeq(@, ret + 1, Len(@))]
       /\ got' = [got EXCEPT ![client_desc] = @ + ret]
       /\ IF Total(samp_buf', ret) = 0
          THEN Silence
          ELSE /\ has_read' = has_read + ret
               /\ pc' = IF ret = ToRead THEN "true" ELSE "select"
               /\ UNCHANGED why
  /\ UNCHANGED <<clientVars, backlog, outerVars, client_desc, errno, callerVars>>

\* read() returns 0 at the end of the stream and leaves errno alone; a reset
\* sets it.  errno decides in both cases.
ReadNothing ==
  /\ pc = "read"
  /\ wire[client_desc] = <<>>
  /\ errno' = IF peer[client_desc] = "reset" THEN "ECONNRESET" ELSE errno
  /\ IF errno' \in {"EAGAIN", "EINTR"}
     THEN Disconnect /\ Return(FALSE, "errno")
     ELSE Return(has_read > 0, "end") /\ UNCHANGED <<peer, wire, client_desc>>
  /\ UNCHANGED <<sent, backlog, outerVars, chunkVars, callerVars, got>>

\* Mutant: a sample is counted as four bytes.
AvailableHalf == has_read \div 4

Available == has_read \div 2

\* GetChunk and AcceptWaveform; decoding is taken to leave errno alone.
GetChunk ==
  /\ pc = "true"
  /\ heard' = [heard EXCEPT ![utterance] =
                 @ \o [i \in 1 .. Available |-> SampleAt(samp_buf, i)]]
  /\ pc' = "start"
  /\ UNCHANGED <<clientVars, wire, backlog, outerVars, client_desc, chunkVars, errno, utterance, got,
                 why>>

\* The utterance ends: inputServer->Disconnect(), and back to the outer loop.
EndOfAudio ==
  /\ pc = "false"
  /\ Disconnect
  /\ pc' = "accept"
  /\ utterance' = None
  /\ UNCHANGED <<sent, backlog, outerVars, chunkVars, errno, heard, got, why>>

Decoder ==
  \/ Accept \/ AcceptThrows \/ AcceptInterrupted \/ CheckFST
  \/ ReadChunk \/ Select \/ Poll \/ ReadBytes \/ ReadNothing
  \/ GetChunk \/ EndOfAudio

Client == \E c \in Conn : ClientConnect(c) \/ ClientSend(c) \/ ClientClose(c)

Next == Decoder \/ Client \/ OutputConnects

Spec == Init /\ [][Next]_vars

\* The decoder thread is scheduled, and the transcripts it writes are read (write()
\* in outputServer returns: AsrSystem); clients do what they like.
FairSpec == Spec /\ WF_vars(Decoder)

-----------------------------------------------------------------------------
(* Properties                                                               *)

TypeOK ==
  /\ peer \in [Conn -> {"new", "up", "closed", "reset", "gone"}]
  /\ sent \in [Conn -> Seq(Sample)]
  /\ wire \in [Conn -> Seq(Byte)]
  /\ backlog \in Seq(Conn)
  /\ output \in BOOLEAN /\ decode_fst \in BOOLEAN
  /\ client_desc \in Conn \cup {None} /\ utterance \in Conn \cup {None}
  /\ samp_buf \in [1 .. BufBytes -> Byte]
  /\ has_read \in 0 .. BufBytes
  /\ errno \in {"none", "EINTR", "ECONNRESET"}
  /\ pc \in {"accept", "accepted", "dead", "start", "select", "poll", "read", "true", "false"}
  /\ heard \in [Conn -> Seq(Int16Range)] /\ got \in [Conn -> Nat]
  /\ why \in {"none", "unconnected", "timeout", "signal", "zero", "errno", "end"}

\* However read() cuts the bytes, the decoder hears the samples of one client,
\* whole, in order and without a gap, from the first one on.
HeardInOrder == \A c \in Conn : heard[c] = SubSeq(sent[c], 1, Len(heard[c]))

\* An utterance that ends at the end of the stream has heard all of it, the
\* incomplete last chunk included.
AllHeardAtEnd ==
  pc = "false" /\ why = "end" /\ peer[utterance] = "closed" => heard[utterance] = sent[utterance]

\* Whatever ends an utterance (the end of the stream, a reset, a time-out, a signal
\* in select or poll, an errno left from an earlier call, silence), of the bytes
\* read() took from a client those of one chunk at most are never heard.  (What is
\* still unread then is discarded by Disconnect, however much it is.)
LossBounded == \A c \in Conn : got[c] - 2 * Len(heard[c]) <= BufBytes

\* With a graph, a client that closes its connection is released: no state of
\* ReadChunk waits for ever.  (Without one it is held, unread, until a reload.)
ClosedIsReleased ==
  \A c \in Conn :
    client_desc = c /\ peer[c] = "closed" /\ decode_fst ~> client_desc # c \/ pc = "dead"

\* Client d sends no more from some time on.
StopsSending(d) == <>[][sent'[d] = sent[d]]_vars

\* A client that connects gets its utterance, once there is a graph and somebody to
\* read transcripts, unless one of the clients before it never stops sending.
WaitingIsServed ==
  \A c \in Conn : (\A d \in Conn \ {c} : StopsSending(d)) =>
    (c \in Range(backlog) /\ decode_fst /\ output ~> client_desc = c \/ pc = "dead")

\* "return false if end-of-stream": apart from the 30s time-out, false means that
\* the client has gone.
FalseAtEndOfStream ==
  pc = "false" /\ why # "timeout" => client_desc = None \/ peer[client_desc] # "up"
=============================================================================
