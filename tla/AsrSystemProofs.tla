---------------------------- MODULE AsrSystemProofs ----------------------------
(***************************************************************************)
(* AsrSystem keeps its type and TranscriptInOrder and implements           *)
(* TranscriptChannel, for any calls, transcripts, buffer and listen queue. *)
(*                                                                         *)
(* The client is an OnlineKaldiDecoder, so what was proved of that carries *)
(* over.  The bytes are numbered as TranscriptChannel numbers them: as     *)
(* long as the connection can be read, the kernel holds the bytes just     *)
(* before those that are still to be written, and nothing later has been   *)
(* heard (Stream).  Once it is reset it stays so, and what is written then *)
(* is never read.                                                          *)
(***************************************************************************)
EXTENDS AsrSystem, SequenceTheorems, TLAPS

ClientProofs == INSTANCE OnlineKaldiDecoderProofs

\* The number of the first byte in the kernel, or else of the next to be written.
FirstByte == 3 * lines - Len(writing) - Len(wire)

\* A connection in the queue, or accepted, is open at the client.
Queued ==
  /\ \A i \in 1 .. Len(backlog) : future[backlog[i]] = "open"
  /\ client_desc # None => future[client_desc] = "open"

Silent == lines = 0 /\ writing = <<>> /\ wire = <<>> /\ decoded = <<>>

Stream ==
  /\ FirstByte >= Channel!NextByte
  /\ \A i \in 1 .. Len(wire) : wire[i] = Channel!Byte(FirstByte + i - 1)

SystemInv ==
  /\ Queued
  /\ lines = 0 => writing = <<>>
  /\ client_desc = None => Silent
  /\ client_desc # None => Reset \/ Stream

IInv == TypeOK /\ SystemInv /\ TranscriptInOrder
-----------------------------------------------------------------------------
(* The client                                                               *)

\* Client and ClientProofs are instances of the same module, the second one with its
\* theorems.
LEMMA SameClient ==
  /\ Client!Init = ClientProofs!Init
  /\ Client!Next = ClientProofs!Next
  /\ UNCHANGED Client!clientVars <=> UNCHANGED ClientProofs!clientVars
  /\ Client!TypeOK = ClientProofs!TypeOK
  <1>1. Client!Init = ClientProofs!Init
    BY DEF Client!Init, ClientProofs!Init
  <1>2. Client!TypeOK = ClientProofs!TypeOK
    BY DEF Client!TypeOK, ClientProofs!TypeOK, Client!Returned, ClientProofs!Returned
  <1>3. UNCHANGED Client!clientVars <=> UNCHANGED ClientProofs!clientVars
    BY DEF Client!clientVars, ClientProofs!clientVars, Client!callVars, ClientProofs!callVars,
           Client!futureVars, ClientProofs!futureVars, Client!listenVars, ClientProofs!listenVars,
           Client!lifeVars, ClientProofs!lifeVars
  <1>4. Client!Next = ClientProofs!Next
    BY DEF Client!Next, ClientProofs!Next, Client!Initialized, ClientProofs!Initialized,
        Client!ConnectCall, ClientProofs!ConnectCall, Client!DisconnectCall,
        ClientProofs!DisconnectCall, Client!ConnectAgain, ClientProofs!ConnectAgain,
        Client!ConnectUninitialized, ClientProofs!ConnectUninitialized, Client!ConnectFirst,
        ClientProofs!ConnectFirst, Client!Connected, ClientProofs!Connected, Client!Flush,
        ClientProofs!Flush, Client!Close, ClientProofs!Close, Client!Closed,
        ClientProofs!Closed, Client!Dispose, ClientProofs!Dispose, Client!Opens,
        ClientProofs!Opens, Client!Fails, ClientProofs!Fails, Client!ClientCall,
        ClientProofs!ClientCall, Client!ClientStep, ClientProofs!ClientStep, Client!Answer,
        ClientProofs!Answer, Client!MayCall, ClientProofs!MayCall, Client!InFlight,
        ClientProofs!InFlight, Client!Returned, ClientProofs!Returned, Client!Goto,
        ClientProofs!Goto, Client!Await, ClientProofs!Await, Client!Ready, ClientProofs!Ready,
        Client!Cancelled, ClientProofs!Cancelled, Client!Return, ClientProofs!Return,
        Client!ForgetSocket, ClientProofs!ForgetSocket, Client!Finish, ClientProofs!Finish,
        Client!callVars, ClientProofs!callVars, Client!futureVars, ClientProofs!futureVars,
        Client!listenVars, ClientProofs!listenVars, Client!lifeVars, ClientProofs!lifeVars
  <1> QED BY <1>1, <1>2, <1>3, <1>4

\* Every step of the system is a step of the client, or leaves it alone.
LEMMA ClientStepsOrWaits == ASSUME [Next]_vars PROVE [Client!Next]_(Client!clientVars)
  <1>1. CASE UNCHANGED vars
    BY <1>1 DEF vars, clientVars, Client!clientVars, Client!callVars, Client!futureVars,
                Client!listenVars, Client!lifeVars
  <1>2. CASE ClientMoves
    BY <1>2 DEF ClientMoves, Client!Next, Client!Answer
  <1>3. ASSUME NEW k \in Call, Opens(k) PROVE Client!Next
    BY <1>3 DEF Opens, Client!Next, Client!Answer
  <1>4. CASE Receive \/ Decoder
    BY <1>4 DEF Receive, Decoder, Accept, WriteLn, Write, clientVars, Client!clientVars,
                Client!callVars, Client!futureVars, Client!listenVars, Client!lifeVars
  <1> QED BY <1>1, <1>2, <1>3, <1>4 DEF Next

\* What holds of the client holds of it here.
LEMMA ClientHolds == Spec => []ClientProofs!IInv
  <1>1. Init => ClientProofs!Init
    BY SameClient DEF Init
  <1>2. [Next]_vars => [ClientProofs!Next]_(ClientProofs!clientVars)
    BY ClientStepsOrWaits, SameClient
  <1>3. ClientProofs!Spec => []ClientProofs!IInv
    BY ClientProofs!Inductive, SystemAssumption
  <1> QED BY <1>1, <1>2, <1>3, PTL DEF Spec, ClientProofs!Spec

-----------------------------------------------------------------------------
(* Bytes and their numbers                                                  *)

Earlier(a, b) == a[1] < b[1] \/ (a[1] = b[1] /\ a[2] < b[2])

\* A number is that of one byte.
LEMMA ByteNumber ==
  ASSUME NEW n \in Nat
  PROVE  \E l \in Nat \ {0}, p \in 1 .. 3 :
           Channel!Byte(n) = <<l, p>> /\ 3 * (l - 1) + p - 1 = n
  <1> DEFINE l == (n \div 3) + 1
             p == (n % 3) + 1
  <1>1. l \in Nat \ {0} /\ p \in 1 .. 3 OBVIOUS
  <1>2. Channel!Byte(n) = <<l, p>> BY DEF Channel!Byte
  <1>3. 3 * (l - 1) + p - 1 = n OBVIOUS
  <1> HIDE DEF l, p
  <1> QED BY <1>1, <1>2, <1>3

\* Numbers keep the order.
LEMMA ByteOrder ==
  ASSUME NEW m \in Nat, NEW n \in Nat, m < n
  PROVE  Earlier(Channel!Byte(m), Channel!Byte(n))
  BY DEF Channel!Byte, Earlier

\* The two bytes of a character are neighbours.
LEMMA ByteNeighbours ==
  ASSUME NEW n \in Nat
  PROVE  /\ Channel!Byte(n)[2] = 1 => Channel!Byte(n + 1) = <<Channel!Byte(n)[1], 2>>
         /\ Channel!Byte(n)[2] = 2 => n > 0 /\ Channel!Byte(n - 1) = <<Channel!Byte(n)[1], 1>>
  BY DEF Channel!Byte

\* Every byte has a number.
LEMMA ByteOfNumber ==
  ASSUME NEW l \in Nat \ {0}, NEW p \in 1 .. 3
  PROVE  3 * (l - 1) + p - 1 \in Nat /\ Channel!Byte(3 * (l - 1) + p - 1) = <<l, p>>
  BY DEF Channel!Byte

\* A byte is a transcript and a place in it.
LEMMA ByteIs ==
  ASSUME NEW b \in Byte PROVE \E l \in 1 .. MaxLines, p \in 1 .. 3 : b = <<l, p>>
  BY DEF Byte

\* What is still to be written of a transcript.
LEMMA WritingIs ==
  ASSUME NEW l \in Nat, NEW w, NEW n \in 1 .. 4, w = SubSeq(Line(l), n, 3)
  PROVE  /\ w \in Seq({l} \X (1 .. 3)) /\ Len(w) = 4 - n
         /\ \A i \in 1 .. Len(w) : w[i] = <<l, 3 - Len(w) + i>>
  <1>1. \A i \in n .. 3 : Line(l)[i] = <<l, i>> /\ Line(l)[i] \in {l} \X (1 .. 3)
    BY DEF Line
  <1>2. /\ w \in Seq({l} \X (1 .. 3))
        /\ Len(w) = IF n <= 3 THEN 3 - n + 1 ELSE 0
        /\ \A i \in 1 .. 3 - n + 1 : w[i] = Line(l)[n + i - 1]
    BY <1>1, SubSeqProperties
  <1> QED BY <1>1, <1>2

\* What a write() leaves over is the rest of the same transcript.
LEMMA RestIs ==
  ASSUME NEW l \in Nat, NEW n \in 1 .. 4, writing = SubSeq(Line(l), n, 3),
         NEW m \in 1 .. Len(writing)
  PROVE  \E k \in 1 .. 4 : Rest(m) = SubSeq(Line(l), k, 3)
  <1>1. Line(l) \in Seq({l} \X (1 .. 3)) /\ Len(Line(l)) = 3
    BY DEF Line
  <1>2. Len(writing) = 4 - n /\ writing \in Seq({l} \X (1 .. 3)) BY WritingIs
  <1>3. CASE m = Len(writing)
    <2>1. Rest(m) = <<>> BY <1>2, <1>3, SubSeqEmpty DEF Rest
    <2>2. SubSeq(Line(l), 4, 3) = <<>> BY SubSeqEmpty
    <2> QED BY <2>1, <2>2
  <1>4. CASE m < Len(writing)
    <2>1. Rest(m) = SubSeq(SubSeq(Line(l), n, 3), m + 1, 4 - n) BY <1>2 DEF Rest
    <2>2. n \in 1 .. 3 /\ m + 1 \in 1 .. 3 - n + 1 /\ 4 - n \in 1 .. 3 - n + 1 BY <1>2, <1>4
    <2>3. Rest(m) = SubSeq(Line(l), n + m, n + (4 - n) - 1)
      BY <1>1, <2>1, <2>2, SubSeqOfSubSeq
    <2> QED BY <1>2, <1>4, <2>3
  <1> QED BY <1>2, <1>3, <1>4

-----------------------------------------------------------------------------
(* What is heard                                                            *)

\* A decodable stretch that is later than everything heard keeps the transcripts
\* in order and their characters whole.
LEMMA HearInOrder ==
  ASSUME decoded \in Seq(Byte), TranscriptInOrder, MaxLines \in Nat,
         NEW first \in Nat, first >= Channel!NextByte,
         NEW piece \in Seq(Byte), piece # <<>>, Decodable(piece),
         \A i \in 1 .. Len(piece) : piece[i] = Channel!Byte(first + i - 1),
         decoded' = decoded \o piece
  PROVE  /\ TranscriptInOrder'
         /\ Channel!NextByte' = first + Len(piece)
  <1>1. PICK L \in Nat, N \in Nat \ {0} : L = Len(decoded) /\ N = Len(piece)
    BY EmptySeq
  <1>2. /\ decoded' \in Seq(Byte) /\ Len(decoded') = L + N
        /\ \A i \in 1 .. L : decoded'[i] = decoded[i]
        /\ \A i \in 1 .. N : decoded'[L + i] = piece[i]
    <2>1. /\ decoded \o piece \in Seq(Byte) /\ Len(decoded \o piece) = L + N
          /\ \A i \in 1 .. L + N : (decoded \o piece)[i] = IF i <= L THEN decoded[i] ELSE piece[i - L]
      BY <1>1, ConcatProperties
    <2>2. ASSUME NEW i \in 1 .. N PROVE decoded'[L + i] = piece[i]
      <3>1. L + i \in 1 .. L + N /\ ~(L + i <= L) /\ L + i - L = i OBVIOUS
      <3> QED BY <2>1, <3>1, SMTT(30)
    <2>3. ASSUME NEW i \in 1 .. L PROVE decoded'[i] = decoded[i]
      <3>1. i \in 1 .. L + N /\ i <= L OBVIOUS
      <3> QED BY <2>1, <3>1
    <2> QED BY <2>1, <2>2, <2>3
  <1>3. ASSUME NEW i \in 1 .. N
        PROVE  first + i - 1 \in Nat /\ decoded'[L + i] = Channel!Byte(first + i - 1)
    BY <1>1, <1>2
  <1>4. L > 0 => \E n \in Nat : n < first /\ decoded[L] = Channel!Byte(n)
    <2> HAVE L > 0
    <2>1. decoded[L] \in Byte /\ decoded # <<>> BY <1>1, EmptySeq
    <2>2. PICK l \in 1 .. MaxLines, p \in 1 .. 3 : decoded[L] = <<l, p>> BY <2>1, ByteIs
    <2>3. Channel!NextByte = 3 * (l - 1) + p BY <1>1, <2>1, <2>2 DEF Channel!NextByte
    <2>4. 3 * (l - 1) + p - 1 \in Nat /\ Channel!Byte(3 * (l - 1) + p - 1) = <<l, p>>
      <3>1. l \in Nat \ {0} OBVIOUS
      <3> QED BY <3>1, ByteOfNumber
    <2>5. 3 * (l - 1) + p - 1 < first BY <2>3
    <2> QED BY <2>2, <2>4, <2>5
  <1>5. ASSUME NEW i \in 1 .. L + N - 1 PROVE Earlier(decoded'[i], decoded'[i + 1])
    <2>1. CASE i < L
      <3>1. i \in 1 .. L /\ i + 1 \in 1 .. L /\ i \in 1 .. Len(decoded) - 1 BY <1>1, <2>1
      <3>2. decoded'[i] = decoded[i] /\ decoded'[i + 1] = decoded[i + 1] BY <1>2, <3>1
      <3> QED BY <3>1, <3>2 DEF TranscriptInOrder, Earlier
    <2>2. CASE i = L
      <3>1. decoded'[i + 1] = Channel!Byte(first)
        <4>1. 1 \in 1 .. N /\ first + 1 - 1 = first OBVIOUS
        <4> QED BY <1>3, <2>2, <4>1
      <3>2. L > 0 /\ L \in 1 .. L BY <2>2
      <3>3. PICK n \in Nat : n < first /\ decoded[L] = Channel!Byte(n) BY <1>4, <3>2
      <3>4. decoded'[i] = Channel!Byte(n) BY <1>2, <2>2, <3>2, <3>3
      <3> QED BY <3>1, <3>3, <3>4, ByteOrder
    <2>3. CASE i > L
      <3>1. PICK j \in 1 .. N : i = L + j /\ j + 1 \in 1 .. N
        <4>1. i - L \in 1 .. N /\ i = L + (i - L) /\ i - L + 1 \in 1 .. N BY <2>3
        <4> QED BY <4>1
      <3>2. i + 1 = L + (j + 1) /\ first + (j + 1) - 1 = first + j BY <3>1
      <3>3. first + j - 1 \in Nat /\ decoded'[i] = Channel!Byte(first + j - 1) BY <1>3, <3>1
      <3>4. first + j \in Nat /\ decoded'[i + 1] = Channel!Byte(first + j) BY <1>3, <3>1, <3>2
      <3>5. first + j - 1 < first + j OBVIOUS
      <3> QED BY <3>3, <3>4, <3>5, ByteOrder
    <2>4. i < L \/ i = L \/ i > L OBVIOUS
    <2> QED BY <2>1, <2>2, <2>3, <2>4, Zenon
  <1>6. ASSUME NEW i \in 1 .. L + N
        PROVE  /\ decoded'[i][2] = 1 => i < L + N /\ decoded'[i + 1] = <<decoded'[i][1], 2>>
               /\ decoded'[i][2] = 2 => i > 1 /\ decoded'[i - 1] = <<decoded'[i][1], 1>>
    <2>1. CASE i <= L
      <3>1. i \in 1 .. L /\ i \in 1 .. Len(decoded) BY <1>1, <2>1
      <3>2. decoded'[i] = decoded[i] BY <1>2, <3>1
      <3>3. /\ decoded[i][2] = 1 => i < Len(decoded) /\ decoded[i + 1] = <<decoded[i][1], 2>>
            /\ decoded[i][2] = 2 => i > 1 /\ decoded[i - 1] = <<decoded[i][1], 1>>
        BY <3>1 DEF TranscriptInOrder
      <3>4. i < L => decoded'[i + 1] = decoded[i + 1]
        <4>1. i < L => i + 1 \in 1 .. L OBVIOUS
        <4> QED BY <1>2, <4>1
      <3>5. i > 1 => decoded'[i - 1] = decoded[i - 1]
        <4>1. i > 1 => i - 1 \in 1 .. L BY <3>1
        <4> QED BY <1>2, <4>1
      <3>6. i < Len(decoded) => i < L /\ i < L + N BY <1>1
      <3> QED BY <3>2, <3>3, <3>4, <3>5, <3>6
    <2>2. CASE i > L
      <3>1. PICK j \in 1 .. N : i = L + j
        <4>1. i - L \in 1 .. N /\ i = L + (i - L) BY <2>2
        <4> QED BY <4>1
      <3>2. PICK n \in Nat : n = first + j - 1 BY <1>3
      <3>3. decoded'[i] = Channel!Byte(n) /\ decoded'[i] = piece[j] BY <1>2, <1>3, <3>1, <3>2
      <3>4. decoded'[i][2] = 1 => j < N
        BY <1>1, <3>3 DEF Decodable
      <3>5. decoded'[i][2] = 2 => j > 1
        BY <1>1, <3>3 DEF Decodable
      <3>6. j < N => decoded'[i + 1] = Channel!Byte(n + 1)
        <4> HAVE j < N
        <4>1. j + 1 \in 1 .. N /\ i + 1 = L + (j + 1) /\ first + (j + 1) - 1 = n + 1 BY <3>1, <3>2
        <4> QED BY <1>3, <4>1
      <3>7. j > 1 => decoded'[i - 1] = Channel!Byte(n - 1)
        <4> HAVE j > 1
        <4>1. j - 1 \in 1 .. N /\ i - 1 = L + (j - 1) /\ first + (j - 1) - 1 = n - 1 BY <3>1, <3>2
        <4> QED BY <1>3, <4>1
      <3>8. /\ decoded'[i][2] = 1 => Channel!Byte(n + 1) = <<decoded'[i][1], 2>>
            /\ decoded'[i][2] = 2 => Channel!Byte(n - 1) = <<decoded'[i][1], 1>>
        BY <3>3, ByteNeighbours
      <3>9. (j < N => i < L + N) /\ (j > 1 => i > 1) BY <3>1
      <3> QED BY <3>4, <3>5, <3>6, <3>7, <3>8, <3>9
    <2>3. i <= L \/ i > L OBVIOUS
    <2> QED BY <2>1, <2>2, <2>3, Zenon
  <1>7. TranscriptInOrder'
    <2>1. Len(decoded') = L + N BY <1>2
    <2>2. ASSUME NEW i \in 1 .. Len(decoded') - 1 PROVE Earlier(decoded'[i], decoded'[i + 1])
      <3>1. i \in 1 .. L + N - 1 BY <2>1
      <3> QED BY <1>5, <3>1
    <2>3. \A i \in 1 .. Len(decoded') :
            /\ decoded'[i][2] = 1 =>
                 i < Len(decoded') /\ decoded'[i + 1] = <<decoded'[i][1], 2>>
            /\ decoded'[i][2] = 2 => i > 1 /\ decoded'[i - 1] = <<decoded'[i][1], 1>>
      BY <1>6, <2>1, Zenon
    <2> QED BY <2>2, <2>3, Zenon DEF TranscriptInOrder, Earlier
  <1>8. Channel!NextByte' = first + N
    <2>1. PICK n \in Nat : n = first + N - 1 OBVIOUS
    <2>2. N \in 1 .. N /\ L + N > 0 OBVIOUS
    <2>3. decoded' # <<>> BY <1>2, <2>2, EmptySeq
    <2>4. decoded'[Len(decoded')] = Channel!Byte(n) BY <1>2, <1>3, <2>1, <2>2
    <2>5. PICK l \in Nat \ {0}, p \in 1 .. 3 : Channel!Byte(n) = <<l, p>> /\ 3 * (l - 1) + p - 1 = n
      BY ByteNumber
    <2>6. Channel!NextByte' = 3 * (l - 1) + p BY <2>3, <2>4, <2>5 DEF Channel!NextByte
    <2> QED BY <2>1, <2>5, <2>6
  <1> QED BY <1>1, <1>7, <1>8

-----------------------------------------------------------------------------
(* The steps                                                                *)

\* The numbers the proofs count with.
LEMMA Lengths ==
  ASSUME TypeOK
  PROVE  /\ lines \in Nat /\ MaxLines \in Nat /\ Len(wire) \in Nat /\ Len(writing) \in 0 .. 3
         /\ writing \in Seq({lines} \X (1 .. 3))
         /\ \A i \in 1 .. Len(writing) : writing[i] = <<lines, 3 - Len(writing) + i>>
         /\ FirstByte \in Int /\ Channel!NextByte \in Nat
  <1>1. lines \in Nat /\ MaxLines \in Nat /\ Len(wire) \in Nat BY SystemAssumption DEF TypeOK
  <1>2. PICK n \in 1 .. 4 : writing = SubSeq(Line(lines), n, 3) BY DEF TypeOK
  <1>3. /\ Len(writing) = 4 - n /\ writing \in Seq({lines} \X (1 .. 3))
        /\ \A i \in 1 .. Len(writing) : writing[i] = <<lines, 3 - Len(writing) + i>>
    BY <1>1, <1>2, WritingIs
  <1>4. Channel!NextByte \in Nat
    <2>1. CASE decoded = <<>> BY <2>1 DEF Channel!NextByte
    <2>2. CASE decoded # <<>>
      <3>1. decoded[Len(decoded)] \in Byte BY <2>2, EmptySeq DEF TypeOK
      <3>2. PICK l \in 1 .. MaxLines, p \in 1 .. 3 : decoded[Len(decoded)] = <<l, p>> BY <3>1, ByteIs
      <3> QED BY <1>1, <2>2, <3>2 DEF Channel!NextByte
    <2> QED BY <2>1, <2>2
  <1> QED BY <1>1, <1>3, <1>4 DEF FirstByte

\* What the proof of each step starts from.
Before == IInv /\ ClientProofs!IInv /\ [Next]_vars

\* Sockets that the server holds stay open, and a connection that is reset stays reset.
LEMMA StepQueued ==
  ASSUME Before
  PROVE  /\ Queued'
         /\ client_desc # None => client_desc' = client_desc /\ (Reset => Reset')
  <1>1. [ClientProofs!Next]_(ClientProofs!clientVars) /\ ClientProofs!TypeOK /\ ClientProofs!Futures
    BY ClientStepsOrWaits, SameClient DEF Before, ClientProofs!IInv
  <1>2. /\ backlog \in Seq(Call) /\ client_desc \in Call \cup {None}
        /\ \A i \in 1 .. Len(backlog) : backlog[i] \in Call /\ future[backlog[i]] = "open"
        /\ client_desc # None => future[client_desc] = "open"
    BY DEF Before, IInv, TypeOK, SystemInv, Queued
  <1>3. /\ \A i \in 1 .. Len(backlog) : future'[backlog[i]] = "open"
        /\ client_desc # None => future'[client_desc] = "open"
    BY <1>1, <1>2, ClientProofs!OpenStays, SystemAssumption
  <1>4. client_desc # None => client_desc' = client_desc
    BY DEF Before, Next, vars, serverVars, ClientMoves, Opens, Receive, Decoder, Accept, WriteLn, Write
  <1>5. client_desc # None /\ Reset => Reset'
    BY <1>1, <1>2, <1>4, ClientProofs!OpenStays, SystemAssumption DEF Reset
  <1>6. ASSUME NEW k \in Call, Opens(k) PROVE Queued'
    <2>1. future'[k] = "open" /\ backlog' = Append(backlog, k) /\ client_desc' = client_desc
      BY <1>1, <1>6 DEF Opens, Client!Opens, ClientProofs!TypeOK
    <2>2. /\ Len(backlog') = Len(backlog) + 1 /\ backlog'[Len(backlog) + 1] = k
          /\ \A i \in 1 .. Len(backlog) : backlog'[i] = backlog[i]
      BY <1>2, <2>1, AppendProperties
    <2>3. ASSUME NEW i \in 1 .. Len(backlog') PROVE future'[backlog'[i]] = "open"
      <3>1. i \in 1 .. Len(backlog) \/ i = Len(backlog) + 1 BY <1>2, <2>2
      <3> QED BY <1>3, <2>1, <2>2, <3>1
    <2> QED BY <1>3, <2>1, <2>3 DEF Queued
  <1>7. ASSUME Accept PROVE Queued'
    <2>1. backlog # <<>> /\ client_desc' = Head(backlog) /\ backlog' = Tail(backlog)
      BY <1>7 DEF Accept
    <2>2. /\ Head(backlog) = backlog[1] /\ 1 \in 1 .. Len(backlog)
          /\ Len(backlog') = Len(backlog) - 1
          /\ \A i \in 1 .. Len(backlog') : backlog'[i] = backlog[i + 1]
      BY <1>2, <2>1, HeadTailProperties, EmptySeq
    <2>3. ASSUME NEW i \in 1 .. Len(backlog') PROVE future'[backlog'[i]] = "open"
      <3>1. i + 1 \in 1 .. Len(backlog) BY <1>2, <2>2
      <3> QED BY <1>3, <2>2, <3>1
    <2>4. future'[client_desc'] = "open" BY <1>3, <2>1, <2>2
    <2> QED BY <2>3, <2>4, Zenon DEF Queued
  <1>8. ASSUME UNCHANGED <<backlog, client_desc>> PROVE Queued'
    <2>1. backlog' = backlog /\ client_desc' = client_desc BY <1>8
    <2> QED BY <1>3, <2>1, Zenon DEF Queued
  <1>9. Queued'
    BY <1>6, <1>7, <1>8
    DEF Before, Next, vars, serverVars, ClientMoves, Receive, Decoder, WriteLn, Write
  <1> QED BY <1>4, <1>5, <1>9

\* The number of bytes that are not yet in the client's hands changes only when it reads.
Unheard == UNCHANGED <<lines, writing, wire, decoded>>

\* A step by which nothing is heard, and no client accepted, keeps the invariant.
LEMMA StepUnheard ==
  ASSUME Before, Unheard, client_desc' = client_desc
  PROVE  SystemInv' /\ TranscriptInOrder'
  <1>1. FirstByte' = FirstByte /\ Channel!NextByte' = Channel!NextByte /\ (Silent => Silent')
        /\ (Stream => Stream')
    BY DEF Unheard, FirstByte, Channel!NextByte, Silent, Stream
  <1>2. TranscriptInOrder' BY DEF Before, IInv, Unheard, TranscriptInOrder
  <1>3. Queued' /\ (client_desc # None /\ Reset => Reset') BY StepQueued
  <1> QED BY <1>1, <1>2, <1>3 DEF Before, IInv, Unheard, SystemInv

\* The client that is accepted has heard nothing and nothing was written.
LEMMA StepAccept ==
  ASSUME Before, Accept
  PROVE  SystemInv' /\ TranscriptInOrder'
  <1>1. Silent /\ Unheard BY DEF Before, IInv, SystemInv, Accept, Unheard
  <1>2. TranscriptInOrder' BY <1>1 DEF Before, IInv, Unheard, TranscriptInOrder
  <1>3. Stream'
    BY <1>1 DEF Silent, Unheard, Stream, FirstByte, Channel!NextByte
  <1>4. client_desc' # None
    <2>1. backlog # <<>> /\ backlog \in Seq(Call) /\ client_desc' = Head(backlog)
      BY DEF Before, IInv, TypeOK, Accept
    <2> QED BY <2>1, EmptySeq, SystemAssumption
  <1> QED BY <1>1, <1>2, <1>3, <1>4, StepQueued DEF SystemInv, Silent, Unheard

\* A transcript is begun after the one before was written or given up.
LEMMA StepWriteLn ==
  ASSUME Before, WriteLn
  PROVE  SystemInv' /\ TranscriptInOrder' /\ FirstByte' = FirstByte /\ Len(writing') = 3
  <1>1. /\ lines' = lines + 1 /\ wire' = wire /\ decoded' = decoded /\ client_desc' = client_desc
        /\ client_desc # None /\ Len(writing) = 0 /\ Len(writing') = 3
    BY EmptySeq DEF WriteLn, Line
  <1>2. FirstByte' = FirstByte /\ lines' # 0
    BY <1>1, Lengths DEF Before, IInv, FirstByte
  <1>3. Channel!NextByte' = Channel!NextByte BY <1>1 DEF Channel!NextByte
  <1>4. Stream => Stream' BY <1>1, <1>2, <1>3 DEF Stream
  <1>5. TranscriptInOrder' BY <1>1 DEF Before, IInv, TranscriptInOrder
  <1> QED BY <1>1, <1>2, <1>4, <1>5, StepQueued DEF Before, IInv, SystemInv

\* What write() takes joins on to what the kernel holds.
LEMMA StepWrite ==
  ASSUME Before, Write
  PROVE  SystemInv' /\ TranscriptInOrder' /\ wire' \in Seq(Byte) /\ Len(wire') <= Buffer
  <1>1. /\ UNCHANGED <<lines, decoded, client_desc>> /\ writing # <<>> /\ client_desc # None
        /\ lines # 0
    BY DEF Write, Before, IInv, SystemInv, Silent
  <1>2. /\ wire \in Seq(Byte) /\ Len(wire) <= Buffer /\ Buffer \in Nat /\ lines \in 0 .. MaxLines
    BY SystemAssumption DEF Before, IInv, TypeOK
  <1>3. Channel!NextByte' = Channel!NextByte BY <1>1 DEF Channel!NextByte
  <1>4. TranscriptInOrder' BY <1>1 DEF Before, IInv, TranscriptInOrder
  <1>5. ASSUME Reset, writing' = GiveUp, UNCHANGED wire
        PROVE  SystemInv' /\ wire' \in Seq(Byte) /\ Len(wire') <= Buffer
    BY <1>1, <1>2, <1>5, StepQueued DEF SystemInv
  <1>6. ASSUME NEW n \in 1 .. Len(writing), Len(wire) + n <= Buffer,
               wire' = wire \o SubSeq(writing, 1, n), writing' = Rest(n)
        PROVE  SystemInv' /\ wire' \in Seq(Byte) /\ Len(wire') <= Buffer
    <2>1. PICK L \in Nat, W \in 1 .. 3 : L = Len(wire) /\ W = Len(writing)
      BY <1>6, Lengths DEF Before, IInv
    <2>2. /\ writing \in Seq({lines} \X (1 .. 3)) /\ lines \in 1 .. MaxLines
          /\ \A i \in 1 .. W : writing[i] = <<lines, 3 - W + i>>
      BY <1>1, <1>2, <2>1, Lengths DEF Before, IInv
    <2>3. writing \in Seq(Byte)
      <3>1. {lines} \X (1 .. 3) \subseteq Byte BY <2>2 DEF Byte
      <3>2. writing \in [1 .. W -> {lines} \X (1 .. 3)] BY <2>1, <2>2
      <3> QED BY <2>1, <3>1, <3>2
    <2>4. /\ SubSeq(writing, 1, n) \in Seq(Byte) /\ Len(SubSeq(writing, 1, n)) = n
          /\ \A i \in 1 .. n : SubSeq(writing, 1, n)[i] = writing[i]
      BY <1>6, <2>1, <2>3, SubSeqProperties
    <2>5. /\ wire' \in Seq(Byte) /\ Len(wire') = L + n
          /\ \A i \in 1 .. L + n : wire'[i] = IF i <= L THEN wire[i] ELSE SubSeq(writing, 1, n)[i - L]
      BY <1>2, <1>6, <2>1, <2>4, ConcatProperties
    <2>6. Len(writing') = W - n
      BY <1>6, <2>1, <2>3, SubSeqProperties DEF Rest
    <2>7. FirstByte = 3 * lines - W - L /\ FirstByte' = FirstByte
      BY <1>1, <1>2, <1>6, <2>1, <2>2, <2>5, <2>6 DEF FirstByte
    <2>8. ASSUME Stream PROVE Stream'
      <3>1. PICK f \in Nat : f = FirstByte
        BY <2>8, Lengths DEF Stream, Before, IInv
      <3>2. ASSUME NEW i \in 1 .. L + n PROVE wire'[i] = Channel!Byte(f + i - 1)
        <4>1. CASE i <= L
          <5>1. i \in 1 .. L /\ wire'[i] = wire[i] BY <2>5, <4>1
          <5> QED BY <2>1, <2>8, <3>1, <5>1 DEF Stream
        <4>2. CASE i > L
          <5>1. PICK j \in 1 .. n : i = L + j
            <6>1. i - L \in 1 .. n /\ i = L + (i - L) BY <4>2
            <6> QED BY <6>1
          <5>2. wire'[i] = SubSeq(writing, 1, n)[j]
            <6>1. ~(i <= L) /\ i - L = j BY <5>1
            <6> QED BY <2>5, <6>1
          <5>3. j \in 1 .. W /\ 3 - W + j \in 1 .. 3
            <6>1. n \in 1 .. W BY <1>6, <2>1
            <6> QED BY <6>1
          <5>4. wire'[i] = <<lines, 3 - W + j>> BY <2>2, <2>4, <5>2, <5>3
          <5>5. 3 * (lines - 1) + (3 - W + j) - 1 = f + i - 1 BY <2>2, <2>7, <3>1, <5>1
          <5>6. lines \in Nat \ {0} BY <2>2
          <5> QED BY <5>3, <5>4, <5>5, <5>6, ByteOfNumber
        <4>3. i <= L \/ i > L OBVIOUS
        <4> QED BY <4>1, <4>2, <4>3, Zenon
      <3>3. FirstByte' = f /\ FirstByte' >= Channel!NextByte' BY <1>3, <2>7, <2>8, <3>1 DEF Stream
      <3>4. \A i \in 1 .. Len(wire') : wire'[i] = Channel!Byte(FirstByte' + i - 1)
        BY <2>5, <3>2, <3>3, Zenon
      <3> QED BY <3>3, <3>4 DEF Stream
    <2>9. Reset \/ Stream => Reset' \/ Stream' BY <1>1, <2>8, StepQueued
    <2>10. SystemInv' BY <1>1, <2>9, StepQueued DEF Before, IInv, SystemInv
    <2> QED BY <1>6, <2>1, <2>5, <2>10
  <1> QED BY <1>4, <1>5, <1>6 DEF Write

\* What a read finds: bytes that follow one another, later than everything heard.
Piece(n) == SubSeq(wire, 1, n)
Kept(n) == SubSeq(wire, n + 1, Len(wire))

\* A piece of the stream and what stays in the kernel, by their numbers.
LEMMA ReadPiece ==
  ASSUME Before, client_desc \in listening, NEW n \in 1 .. Len(wire)
  PROVE  /\ FirstByte \in Nat /\ FirstByte >= Channel!NextByte /\ client_desc # None
         /\ Piece(n) \in Seq(Byte) /\ Len(Piece(n)) = n /\ Piece(n) # <<>>
         /\ \A i \in 1 .. n : Piece(n)[i] = Channel!Byte(FirstByte + i - 1)
         /\ Kept(n) \in Seq(Byte) /\ Len(Kept(n)) = Len(wire) - n
         /\ \A i \in 1 .. Len(Kept(n)) : Kept(n)[i] = Channel!Byte(FirstByte + n + i - 1)
  <1>1. client_desc # None /\ ~Reset
    BY SystemAssumption DEF Before, ClientProofs!IInv, ClientProofs!TypeOK, Reset
  <1>2. Stream BY <1>1 DEF Before, IInv, SystemInv
  <1>3. PICK L \in Nat : L = Len(wire) BY Lengths DEF Before, IInv
  <1>4. PICK f \in Nat : f = FirstByte /\ f >= Channel!NextByte
    BY <1>2, Lengths DEF Stream, Before, IInv
  <1>5. wire \in Seq(Byte) /\ \A i \in 1 .. L : wire[i] = Channel!Byte(f + i - 1)
    BY <1>2, <1>3, <1>4 DEF Before, IInv, TypeOK, Stream
  <1>6. n \in 1 .. L BY <1>3
  <1>7. /\ Piece(n) \in Seq(Byte) /\ Len(Piece(n)) = n
        /\ \A i \in 1 .. n : Piece(n)[i] = wire[i]
    BY <1>3, <1>5, <1>6, SubSeqProperties DEF Piece
  <1>8. /\ Kept(n) \in Seq(Byte) /\ Len(Kept(n)) = L - n
        /\ \A i \in 1 .. L - n : Kept(n)[i] = wire[n + i]
    BY <1>3, <1>5, <1>6, SubSeqProperties DEF Kept
  <1>9. ASSUME NEW i \in 1 .. n PROVE Piece(n)[i] = Channel!Byte(f + i - 1)
    <2>1. i \in 1 .. L BY <1>6
    <2> QED BY <1>5, <1>7, <2>1
  <1>10. ASSUME NEW i \in 1 .. L - n PROVE Kept(n)[i] = Channel!Byte(f + n + i - 1)
    <2>1. n + i \in 1 .. L /\ f + (n + i) - 1 = f + n + i - 1 BY <1>6
    <2> QED BY <1>5, <1>8, <2>1
  <1>11. Piece(n) # <<>> BY <1>6, <1>7, EmptySeq
  <1> QED BY <1>1, <1>3, <1>4, <1>7, <1>8, <1>9, <1>10, <1>11

\* A piece that is heard is later than everything heard before.
LEMMA StepReceive ==
  ASSUME Before, Receive
  PROVE  SystemInv' /\ TranscriptInOrder' /\ wire' \in Seq(Byte) /\ decoded' \in Seq(Byte)
         /\ Len(wire') <= Buffer
  <1>1. /\ UNCHANGED <<lines, writing, client_desc, closed>> /\ client_desc \in listening
    BY DEF Receive, clientVars
  <1>2. PICK n \in 1 .. Len(wire) :
          /\ wire' = Kept(n)
          /\ decoded' = IF Decodable(Piece(n)) THEN Add(Piece(n)) ELSE decoded
    BY DEF Receive, Piece, Kept
  <1>3. /\ FirstByte \in Nat /\ FirstByte >= Channel!NextByte /\ client_desc # None
        /\ Piece(n) \in Seq(Byte) /\ Len(Piece(n)) = n /\ Piece(n) # <<>>
        /\ \A i \in 1 .. n : Piece(n)[i] = Channel!Byte(FirstByte + i - 1)
        /\ Kept(n) \in Seq(Byte) /\ Len(Kept(n)) = Len(wire) - n
        /\ \A i \in 1 .. Len(Kept(n)) : Kept(n)[i] = Channel!Byte(FirstByte + n + i - 1)
    BY <1>1, ReadPiece
  <1>4. PICK f \in Nat : f = FirstByte BY <1>3
  <1>5. /\ lines \in Nat /\ Len(wire) \in Nat /\ Len(writing) \in Nat /\ n \in Nat
        /\ Len(wire) <= Buffer /\ Buffer \in Nat
        /\ Channel!NextByte \in Nat /\ decoded \in Seq(Byte) /\ TranscriptInOrder /\ MaxLines \in Nat
    <2>1. /\ lines \in Nat /\ Len(wire) \in Nat /\ Len(writing) \in 0 .. 3
          /\ Channel!NextByte \in Nat /\ MaxLines \in Nat
      BY Lengths DEF Before, IInv
    <2>2. Len(wire) <= Buffer /\ Buffer \in Nat /\ decoded \in Seq(Byte) /\ TranscriptInOrder
      BY SystemAssumption DEF Before, IInv, TypeOK
    <2>3. n \in Nat /\ Len(writing) \in Nat BY <2>1
    <2> QED BY <2>1, <2>2, <2>3
  <1>6. FirstByte' = f + n
    <2>1. lines' = lines /\ Len(writing') = Len(writing) /\ Len(wire') = Len(wire) - n
      BY <1>1, <1>2, <1>3
    <2> QED BY <1>4, <1>5, <2>1 DEF FirstByte
  <1>7. CASE Decodable(Piece(n)) /\ ~closed
    <2>1. decoded' = decoded \o Piece(n) BY <1>2, <1>7 DEF Add
    <2>2. \A i \in 1 .. Len(Piece(n)) : Piece(n)[i] = Channel!Byte(f + i - 1) /\ f >= Channel!NextByte
      BY <1>3, <1>4
    <2>3. TranscriptInOrder' /\ Channel!NextByte' = f + n
      <3>1. Channel!NextByte' = f + Len(Piece(n)) /\ TranscriptInOrder'
        BY <1>3, <1>4, <1>5, <1>7, <2>1, <2>2, HearInOrder, Zenon
      <3> QED BY <1>3, <3>1
    <2>4. decoded' \in Seq(Byte) BY <1>3, <1>5, <2>1, ConcatProperties
    <2>5. FirstByte' >= Channel!NextByte' BY <1>5, <1>6, <2>3
    <2> QED BY <1>1, <1>2, <1>3, <1>4, <1>5, <1>6, <2>3, <2>4, <2>5, StepQueued
            DEF Before, IInv, SystemInv, Stream
  <1>8. CASE ~(Decodable(Piece(n)) /\ ~closed)
    <2>1. decoded' = decoded BY <1>2, <1>8 DEF Add
    <2>2. TranscriptInOrder' /\ Channel!NextByte' = Channel!NextByte
      BY <1>5, <2>1 DEF TranscriptInOrder, Channel!NextByte
    <2>3. FirstByte' >= Channel!NextByte' BY <1>3, <1>4, <1>5, <1>6, <2>2
    <2> QED BY <1>1, <1>2, <1>3, <1>4, <1>5, <1>6, <2>1, <2>2, <2>3, StepQueued
            DEF Before, IInv, SystemInv, Stream
  <1> QED BY <1>7, <1>8

\* The bytes still to be written are the end of a transcript.
LEMMA StepTyped ==
  ASSUME Before, ClientProofs!IInv'
  PROVE  TypeOK'
  <1>1. /\ backlog \in Seq(Call) /\ client_desc \in Call \cup {None} /\ lines \in 0 .. MaxLines
        /\ wire \in Seq(Byte) /\ decoded \in Seq(Byte) /\ Len(wire) <= Buffer
        /\ \E n \in 1 .. 4 : writing = SubSeq(Line(lines), n, 3)
    BY DEF Before, IInv, TypeOK
  <1>2. Client!TypeOK'
    BY DEF ClientProofs!IInv, Client!TypeOK, ClientProofs!TypeOK, Client!Returned,
           ClientProofs!Returned
  <1>3. backlog' \in Seq(Call) /\ client_desc' \in Call \cup {None}
    <2>1. ASSUME NEW k \in Call, Opens(k) PROVE backlog' \in Seq(Call) /\ client_desc' = client_desc
      BY <1>1, <2>1, AppendProperties DEF Opens
    <2>2. ASSUME Accept PROVE backlog' \in Seq(Call) /\ client_desc' \in Call
      BY <1>1, <2>2, HeadTailProperties DEF Accept
    <2>3. Accept \/ (\E k \in Call : Opens(k)) \/ UNCHANGED <<backlog, client_desc>>
      BY DEF Before, Next, vars, serverVars, ClientMoves, Receive, Decoder, WriteLn, Write
    <2> QED BY <1>1, <2>1, <2>2, <2>3
  <1>4. /\ lines' \in 0 .. MaxLines /\ \E n \in 1 .. 4 : writing' = SubSeq(Line(lines'), n, 3)
    <2>1. ASSUME WriteLn
          PROVE  lines' \in 0 .. MaxLines /\ writing' = SubSeq(Line(lines'), 1, 3)
      <3>1. lines' \in 0 .. MaxLines BY <1>1, <2>1, SystemAssumption DEF WriteLn
      <3>2. writing' = Line(lines') BY <2>1 DEF WriteLn
      <3>3. Line(lines') \in Seq({lines'} \X (1 .. 3)) /\ Len(Line(lines')) = 3 BY DEF Line
      <3> QED BY <3>1, <3>2, <3>3, SubSeqFull
    <2>2. ASSUME Write
          PROVE  lines' = lines /\ \E n \in 1 .. 4 : writing' = SubSeq(Line(lines), n, 3)
      <3>1. ASSUME NEW m \in 1 .. Len(writing), writing' = Rest(m)
            PROVE  \E n \in 1 .. 4 : writing' = SubSeq(Line(lines), n, 3)
        <4>1. lines \in Nat BY <1>1
        <4> QED BY <1>1, <3>1, <4>1, RestIs
      <3>2. ASSUME writing' = GiveUp PROVE writing' = SubSeq(Line(lines), 4, 3)
        BY <3>2, SubSeqEmpty DEF GiveUp
      <3> QED BY <2>2, <3>1, <3>2 DEF Write
    <2>3. WriteLn \/ Write \/ UNCHANGED <<lines, writing>>
      BY DEF Before, Next, vars, serverVars, ClientMoves, Opens, Receive, Decoder, Accept
    <2>4. CASE WriteLn
      <3>1. 1 \in 1 .. 4 OBVIOUS
      <3> QED BY <2>1, <2>4, <3>1
    <2>5. CASE Write BY <1>1, <2>2, <2>5
    <2>6. CASE UNCHANGED <<lines, writing>> BY <1>1, <2>6
    <2> QED BY <2>3, <2>4, <2>5, <2>6
  <1>5. wire' \in Seq(Byte) /\ decoded' \in Seq(Byte) /\ Len(wire') <= Buffer
    <2>1. CASE Write BY <1>1, <2>1, StepWrite DEF Write
    <2>2. CASE Receive BY <2>2, StepReceive
    <2>3. Write \/ Receive \/ UNCHANGED <<wire, decoded>>
      BY DEF Before, Next, vars, serverVars, ClientMoves, Opens, Decoder, Accept, WriteLn
    <2> QED BY <1>1, <2>1, <2>2, <2>3
  <1> QED BY <1>2, <1>3, <1>4, <1>5 DEF TypeOK

\* A client step is dispose, or invisible at the channel.
LEMMA StepInvisible ==
  ASSUME Before, ClientProofs!IInv', UNCHANGED <<lines, decoded>>
  PROVE  [Channel!Next]_(Channel!vars)
  <1>1. [ClientProofs!Next]_(ClientProofs!clientVars) /\ closed \in BOOLEAN /\ closed' \in BOOLEAN
    BY ClientStepsOrWaits, SameClient DEF Before, ClientProofs!IInv, ClientProofs!TypeOK
  <1>2. closed => closed' BY <1>1, ClientProofs!ClosedStays, SystemAssumption
  <1>3. closed' = closed \/ closed' = TRUE BY <1>1, <1>2, Zenon
  <1> QED BY <1>3 DEF Channel!Next, Channel!Dispose, Channel!vars

\* The decoder begins a transcript.
LEMMA StepBegins == ASSUME Before, WriteLn PROVE Channel!Begin
  BY DEF WriteLn, Channel!Begin, clientVars

\* A read that the application hears of is a stretch of the transcripts.
LEMMA StepHears == ASSUME Before, Receive PROVE Channel!Hear \/ UNCHANGED Channel!vars
  <1>1. /\ UNCHANGED <<lines, closed>> /\ client_desc \in listening
    BY DEF Receive, clientVars
  <1>2. PICK n \in 1 .. Len(wire) :
          decoded' = IF Decodable(Piece(n)) THEN Add(Piece(n)) ELSE decoded
    BY DEF Receive, Piece
  <1>3. CASE ~(Decodable(Piece(n)) /\ ~closed)
    BY <1>1, <1>2, <1>3 DEF Add, Channel!vars
  <1>4. CASE Decodable(Piece(n)) /\ ~closed
    <2>1. /\ FirstByte \in Nat /\ FirstByte >= Channel!NextByte
          /\ Piece(n) \in Seq(Byte) /\ Len(Piece(n)) = n
          /\ \A i \in 1 .. n : Piece(n)[i] = Channel!Byte(FirstByte + i - 1)
      BY <1>1, ReadPiece
    <2>2. /\ lines \in Nat /\ Len(wire) \in Nat /\ Len(writing) \in 0 .. 3
          /\ Channel!NextByte \in Nat
      BY Lengths DEF Before, IInv
    <2>3. PICK f \in Nat : f = FirstByte BY <2>1
    <2>4. f \in Channel!NextByte .. 3 * lines - 1 /\ f + n - 1 \in f .. 3 * lines - 1
      BY <2>1, <2>2, <2>3 DEF FirstByte
    <2>5. Piece(n) = Channel!Stretch(f, f + n - 1)
      <3>1. Piece(n) = [i \in 1 .. n |-> Piece(n)[i]] BY <2>1
      <3>2. [i \in 1 .. n |-> Piece(n)[i]] = [i \in 1 .. n |-> Channel!Byte(f + i - 1)]
        BY <2>1, <2>3
      <3>3. (f + n - 1) - f + 1 = n BY <2>2
      <3> QED BY <3>1, <3>2, <3>3 DEF Channel!Stretch
    <2>6. Channel!Byte(f)[2] # 2 /\ Channel!Byte(f + n - 1)[2] # 1
      <3>1. 1 \in 1 .. n /\ n \in 1 .. n /\ f + 1 - 1 = f BY <2>2
      <3>2. Piece(n)[1] = Channel!Byte(f) /\ Piece(n)[n] = Channel!Byte(f + n - 1)
        BY <2>1, <2>3, <3>1
      <3> QED BY <1>4, <2>1, <3>2 DEF Decodable
    <2>7. decoded' = decoded \o Channel!Stretch(f, f + n - 1) BY <1>2, <1>4, <2>5 DEF Add
    <2>8. Channel!Hear BY <1>1, <1>4, <2>4, <2>6, <2>7, Zenon DEF Channel!Hear
    <2> QED BY <2>8
  <1> QED BY <1>3, <1>4

-----------------------------------------------------------------------------
(* The theorems                                                             *)

\* The invariant holds in every state, however write(), read() and reconnections fall.
THEOREM Inductive == Spec => []IInv
  <1>1. ASSUME Init, ClientProofs!IInv PROVE IInv
    <2>1. /\ backlog = <<>> /\ client_desc = None /\ lines = 0 /\ writing = <<>>
          /\ wire = <<>> /\ decoded = <<>>
      BY <1>1 DEF Init
    <2>2. Client!TypeOK BY <1>1, SameClient DEF ClientProofs!IInv
    <2>3. TypeOK
      <3>1. writing = SubSeq(Line(lines), 4, 3) BY <2>1, SubSeqEmpty
      <3>2. \E n \in 1 .. 4 : writing = SubSeq(Line(lines), n, 3) BY <3>1
      <3>3. backlog \in Seq(Call) /\ wire \in Seq(Byte) /\ decoded \in Seq(Byte)
        BY <2>1, EmptySeq
      <3>4. lines \in 0 .. MaxLines /\ Len(wire) <= Buffer
        BY <2>1, EmptySeq, SystemAssumption
      <3> QED BY <2>1, <2>2, <3>2, <3>3, <3>4 DEF TypeOK
    <2>4. SystemInv BY <2>1, EmptySeq DEF SystemInv, Queued, Silent
    <2>5. TranscriptInOrder
      <3>1. Len(decoded) = 0 BY <2>1, EmptySeq
      <3> QED BY <3>1 DEF TranscriptInOrder
    <2> QED BY <2>3, <2>4, <2>5 DEF IInv
  <1>2. ASSUME IInv, ClientProofs!IInv, ClientProofs!IInv', [Next]_vars PROVE IInv'
    <2>1. Before BY <1>2 DEF Before
    <2>2. TypeOK' BY <1>2, <2>1, StepTyped
    <2>3. SystemInv' /\ TranscriptInOrder'
      <3>1. ASSUME ClientMoves \/ (\E k \in Call : Opens(k)) \/ UNCHANGED vars
            PROVE  Unheard /\ client_desc' = client_desc
        BY <3>1 DEF ClientMoves, Opens, vars, serverVars, Unheard
      <3>2. CASE ClientMoves \/ (\E k \in Call : Opens(k)) \/ UNCHANGED vars
        BY <2>1, <3>1, <3>2, StepUnheard
      <3>3. CASE Receive BY <2>1, <3>3, StepReceive
      <3>4. CASE Decoder BY <2>1, <3>4, StepAccept, StepWriteLn, StepWrite DEF Decoder
      <3> QED BY <1>2, <3>2, <3>3, <3>4 DEF Next
    <2> QED BY <2>2, <2>3 DEF IInv
  <1> QED BY <1>1, <1>2, ClientHolds, PTL DEF Spec

\* Every variable has its type, for any number of calls and transcripts and any buffer.
THEOREM TypeCorrect == Spec => []TypeOK
  <1>1. IInv => TypeOK BY DEF IInv
  <1> QED BY <1>1, Inductive, PTL

\* The application hears whole characters, in order and once.
THEOREM TranscriptInOrderAlways == Spec => []TranscriptInOrder
  <1>1. IInv => TranscriptInOrder BY DEF IInv
  <1> QED BY <1>1, Inductive, PTL

\* Decoder thread, network and client together are a TranscriptChannel.
THEOREM ImplementsChannelAlways == Spec => ImplementsChannel
  <1>1. Init => Channel!Init
    BY SameClient DEF Init, Channel!Init, ClientProofs!Init
  <1>2. ASSUME IInv, ClientProofs!IInv, ClientProofs!IInv', [Next]_vars
        PROVE  [Channel!Next]_(Channel!vars)
    <2>1. Before BY <1>2 DEF Before
    <2>2. CASE WriteLn BY <2>1, <2>2, StepBegins DEF Channel!Next
    <2>3. CASE Receive BY <2>1, <2>3, StepHears DEF Channel!Next
    <2>4. CASE UNCHANGED <<lines, decoded>> BY <1>2, <2>1, <2>4, StepInvisible
    <2>5. WriteLn \/ Receive \/ UNCHANGED <<lines, decoded>>
      BY <1>2 DEF Next, vars, serverVars, ClientMoves, Opens, Decoder, Accept, Write
    <2> QED BY <2>2, <2>3, <2>4, <2>5
  <1>3. Spec => [][Channel!Next]_(Channel!vars)
    BY <1>2, Inductive, ClientHolds, PTL DEF Spec
  <1> QED BY <1>1, <1>3, PTL DEF Spec, ImplementsChannel, Channel!Spec
=============================================================================
