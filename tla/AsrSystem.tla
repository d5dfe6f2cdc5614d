------------------------------ MODULE AsrSystem ------------------------------
(***************************************************************************)
(* The way of a transcript: the decoder thread's output server             *)
(* (outputServer in asrbridge_online.cc, Write and WriteLn in server.cc)   *)
(* and the Dart client over the loopback interface.                        *)
(*                                                                         *)
(* A transcript is a character of two bytes and the end of line; that is   *)
(* enough to be cut anywhere by write() and by the client's reads.         *)
(***************************************************************************)
EXTENDS Naturals, Sequences

CONSTANTS
  Call, None,           \* see OnlineKaldiDecoder
  MaxLines,             \* bound: transcripts
  Buffer,               \* bytes the kernel holds for a reader
  Backlog               \* connections it holds for Accept, after listen(server_desc_, 1)

ASSUME SystemAssumption ==
  /\ None \notin Call
  /\ MaxLines \in Nat /\ Buffer \in Nat \ {0} /\ Backlog \in Nat \ {0}

VARIABLES
  pc, awaited, disposing, overlapped, future, sending, socket, listener, listening,
  disconnecting, initialized, closed,  \* see OnlineKaldiDecoder
  backlog,                \* sockets that wait to be accepted
  client_desc,            \* outputServer's client
  lines,                  \* transcripts the decoder has begun to write
  writing,                \* bytes WriteLn has still to write
  wire,                   \* bytes written and not yet read by the client
  decoded                 \* bytes of what _decodedController has emitted

Client == INSTANCE OnlineKaldiDecoder

clientVars ==
  <<pc, awaited, disposing, overlapped, future, sending, socket, listener, listening,
    disconnecting, initialized, closed>>
serverVars == <<backlog, client_desc, lines, writing, wire, decoded>>
vars == <<clientVars, serverVars>>

Init ==
  /\ Client!Init
  /\ backlog = <<>>
  /\ client_desc = None
  /\ lines = 0
  /\ writing = <<>>
  /\ wire = <<>>
  /\ decoded = <<>>

-----------------------------------------------------------------------------
(* The client                                                               *)

\* The kernel accepts for the server: a connection is open before Accept is called.
Opens(k) ==
  /\ Len(backlog) < Backlog
  /\ Client!Opens(k)
  /\ backlog' = Append(backlog, k)
  /\ UNCHANGED <<client_desc, lines, writing, wire, decoded>>

ClientMoves ==
  /\ Client!ClientCall \/ \E k \in Call : Client!ClientStep(k) \/ Client!Fails(k)
  /\ UNCHANGED serverVars

\* Mutant: utf8.decode with allowMalformed.
AnyPiece(piece) == piece # <<>>

\* utf8.decode takes a piece that does not begin or end inside a character.
Decodable(piece) == piece[1][2] # 2 /\ piece[Len(piece)][2] # 1

\* Mutant: a closed controller takes what is added to it.
AddAlways(piece) == decoded \o piece

\* _decodedController.add throws when the controller is closed.
Add(piece) == IF closed THEN decoded ELSE decoded \o piece

\* The listener's callback; an exception in it loses the piece.
Receive ==
  /\ client_desc \in listening
  /\ \E n \in 1 .. Len(wire) :
       LET piece == SubSeq(wire, 1, n) IN
       /\ wire' = SubSeq(wire, n + 1, Len(wire))
       /\ decoded' = IF Decodable(piece) THEN Add(piece) ELSE decoded
  /\ UNCHANGED <<clientVars, backlog, client_desc, lines, writing>>

-----------------------------------------------------------------------------
(* The decoder thread                                                       *)

\* outputServer->Accept() in the outer loop; nothing disconnects outputServer.
Accept ==
  /\ client_desc = None
  /\ backlog # <<>>
  /\ client_desc' = Head(backlog)
  /\ backlog' = Tail(backlog)
  /\ UNCHANGED <<clientVars, lines, writing, wire, decoded>>

\* A transcript; its bytes carry its number.
Line(n) == [i \in 1 .. 3 |-> <<n, i>>]

\* thr_func has a transcript to send; it decodes only with a client accepted.
WriteLn ==
  /\ client_desc # None
  /\ writing = <<>>
  /\ lines < MaxLines
  /\ lines' = lines + 1
  /\ writing' = Line(lines')
  /\ UNCHANGED <<clientVars, backlog, client_desc, wire, decoded>>

\* Mutants: only to_write is reduced by what was written; an error is tried again.
RestFromStart(n) == SubSeq(writing, 1, Len(writing) - n)
TryAgain == writing

\* wrote += ret; to_write -= ret
Rest(n) == SubSeq(writing, n + 1, Len(writing))

\* Write returns false, and then so does WriteLn.
GiveUp == <<>>

\* The client has closed the sending side of the socket and will not, or no longer,
\* listen to it: the connection is reset.
Reset ==
  /\ client_desc \notin sending \cup listening
  /\ pc[client_desc] # "opening"

\* One write(); the message and the end of line are written separately.  It waits for
\* room in the buffer, which nobody makes when the reader has gone, or it fails.
\* SIGPIPE is ignored.
Write ==
  /\ writing # <<>>
  /\ \/ \E n \in 1 .. Len(writing) :
          /\ n = Len(writing) => n = 1
          /\ Len(wire) + n <= Buffer
          /\ wire' = wire \o SubSeq(writing, 1, n)
          /\ writing' = Rest(n)
     \/ Reset /\ writing' = GiveUp /\ UNCHANGED wire
  /\ UNCHANGED <<clientVars, backlog, client_desc, lines, decoded>>

Decoder == Accept \/ WriteLn \/ Write

Next == ClientMoves \/ (\E k \in Call : Opens(k)) \/ Receive \/ Decoder

Spec == Init /\ [][Next]_vars

\* The decoder thread and Dart's event loop run, and a connection attempt is
\* answered or times out; the application need not call.
FairSpec ==
  /\ Spec
  /\ WF_vars(Accept) /\ WF_vars(Write) /\ WF_vars(Receive)
  /\ \A k \in Call :
       /\ WF_vars(Client!ClientStep(k) /\ UNCHANGED serverVars)
       /\ WF_vars(Opens(k) \/ (Client!Fails(k) /\ UNCHANGED serverVars))

-----------------------------------------------------------------------------
(* Properties                                                               *)

Byte == (1 .. MaxLines) \X (1 .. 3)

TypeOK ==
  /\ Client!TypeOK
  /\ backlog \in Seq(Call)
  /\ client_desc \in Call \cup {None}
  /\ lines \in 0 .. MaxLines
  /\ \E n \in 1 .. 4 : writing = SubSeq(Line(lines), n, 3)
  /\ wire \in Seq(Byte) /\ decoded \in Seq(Byte)
  /\ Len(wire) <= Buffer

\* What the application hears is made of whole characters of the transcripts, in
\* their order and each once, however write(), read() and reconnections cut them.
TranscriptInOrder ==
  /\ \A i \in 1 .. Len(decoded) - 1 :
       \/ decoded[i][1] < decoded[i + 1][1]
       \/ decoded[i][1] = decoded[i + 1][1] /\ decoded[i][2] < decoded[i + 1][2]
  /\ \A i \in 1 .. Len(decoded) :
       /\ decoded[i][2] = 1 => i < Len(decoded) /\ decoded[i + 1] = <<decoded[i][1], 2>>
       /\ decoded[i][2] = 2 => i > 1 /\ decoded[i - 1] = <<decoded[i][1], 1>>

\* The application's side of the channel.
Channel == INSTANCE TranscriptChannel WITH begun <- lines, heard <- decoded, disposed <- closed

\* Every step of the decoder, the network and the client is a step of
\* TranscriptChannel: stretches of the transcripts are lost, nothing is heard twice,
\* late, in halves or after dispose.
ImplementsChannel == Channel!Spec

\* The decoder thread never stays in write() while the application awaits its calls:
\* a full buffer is read, and the reset of an abandoned connection ends the write.
WritesReturn == writing # <<>> ~> writing = <<>> \/ overlapped

\* "Connect to the decoder output socket": a socket the client holds and listens to
\* is accepted in the end, if the application awaits its calls.
ConnectedIsServed ==
  \A k \in Call :
    ~overlapped /\ socket = k /\ k \in listening ~> client_desc = k \/ socket # k \/ overlapped
=============================================================================
