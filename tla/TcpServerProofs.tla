--------------------------- MODULE TcpServerProofs ---------------------------
(***************************************************************************)
(* The input server keeps its type, HeardInOrder, AllHeardAtEnd and        *)
(* LossBounded, for any clients, samples, chunk length and signals, with   *)
(* and without a graph.                                                    *)
(*                                                                         *)
(* The bytes of a connection are numbered.  Those heard, those collected   *)
(* in samp_buf_ and those in the kernel follow one another without a gap   *)
(* (Follows, Collects), until ReadChunk returns false; and a chunk with    *)
(* half a sample is only ever the last one (Complete).  Of the bytes       *)
(* read() took, the decoder has not heard those collected since the last   *)
(* chunk, and none besides, as long as more can be read (Lost).            *)
(***************************************************************************)
EXTENDS TcpServer, SequenceTheorems, TLAPS

\* The n-th byte of a sequence of samples.
ByteOf(samples, n) == Bytes(samples[(n + 1) \div 2])[IF n % 2 = 1 THEN 1 ELSE 2]

\* The n-th byte that client c has sent.
SentByte(c, n) == ByteOf(sent[c], n)

\* The outer loop of thr_func: between two utterances, or after accept() threw.
Outer == {"accept", "accepted", "dead"}

Reading == {"select", "poll", "read"}
Collecting == Reading \cup {"true"}

\* Bytes of connection c that are in the decoder's hands.
Taken(c) == 2 * Len(heard[c]) + (IF c = utterance /\ pc \in Collecting THEN has_read ELSE 0)

\* Whose connection the decoder serves; in the outer loop it may hold one.
Served ==
  /\ pc \in Outer <=> utterance = None
  /\ pc \notin Outer => client_desc \in {utterance, None}
  /\ pc \in Reading => client_desc = utterance
  /\ pc = "accepted" => client_desc # None
  /\ pc \in Outer /\ client_desc # None => peer[client_desc] \notin {"new", "gone"}
  /\ utterance # None =>
       /\ peer[utterance] # "new"
       /\ client_desc = None <=> peer[utterance] = "gone"

\* A client that waits was not heard yet, and it waits once.
Waiting ==
  /\ \A i \in 1 .. Len(backlog) :
       peer[backlog[i]] \notin {"new", "gone"} /\ backlog[i] # utterance /\ backlog[i] # client_desc
  /\ \A i, j \in 1 .. Len(backlog) : backlog[i] = backlog[j] => i = j
  /\ \A c \in Conn : heard[c] # <<>> => c = utterance \/ peer[c] = "gone"
  /\ \A c \in Conn : peer[c] \in {"reset", "gone"} => wire[c] = <<>>
  /\ \A c \in Conn : peer[c] = "new" => wire[c] = <<>> /\ sent[c] = <<>>

HeardIsSent ==
  \A c \in Conn :
    /\ Len(heard[c]) <= Len(sent[c])
    /\ \A i \in 1 .. Len(heard[c]) : heard[c][i] = sent[c][i]

Follows(c) ==
  /\ \A i \in 1 .. Len(wire[c]) : wire[c][i] = SentByte(c, Taken(c) + i)
  /\ Taken(c) + Len(wire[c]) <= 2 * Len(sent[c])
  /\ peer[c] \in {"new", "up", "closed"} => Taken(c) + Len(wire[c]) = 2 * Len(sent[c])

Collects ==
  pc \in Collecting =>
    \A i \in 1 .. has_read : samp_buf[i] = SentByte(utterance, 2 * Len(heard[utterance]) + i)

Complete ==
  /\ pc \in {"poll", "read"} => Readable(utterance)
  /\ pc = "true" =>
       \/ has_read = BufBytes
       \/ wire[utterance] = <<>> /\ peer[utterance] \in {"closed", "reset", "gone"}

Ended ==
  pc = "false" /\ why = "end" =>
    /\ peer[utterance] \in {"closed", "reset"}
    /\ peer[utterance] = "closed" => Len(heard[utterance]) = Len(sent[utterance])

\* Bytes of connection c that read() took and the decoder has not heard.
Unheard(c) == got[c] - 2 * Len(heard[c])

\* read() can return no more bytes of connection c.
Exhausted(c) == wire[c] = <<>> /\ peer[c] \in {"closed", "reset", "gone"}

\* Bytes of the chunk that is being collected.
Held == IF pc \in Collecting THEN has_read ELSE 0

Lost ==
  \A c \in Conn :
    /\ Unheard(c) <= BufBytes
    /\ c # utterance /\ peer[c] # "gone" => got[c] = 0
    /\ c = utterance /\ pc # "false" =>
         Exhausted(c) \/ Unheard(c) <= Held

\* What ReadChunk collected is forgotten when it returns false.
Stream == \A c \in Conn : c # utterance \/ pc # "false" => Follows(c)

Data == HeardIsSent /\ Stream /\ Collects /\ Complete /\ Ended

IInv == TypeOK /\ Served /\ Waiting /\ Data /\ Lost
-----------------------------------------------------------------------------
(* Bytes                                                                    *)

\* The range, in numbers.
LEMMA Int16Is ==
  ASSUME NEW v PROVE v \in Int16Range <=> v \in Int /\ v >= -32768 /\ v <= 32767
  <1>1. Int16Min \in Int /\ Int16Max \in Int BY DEF Int16Min, Int16Max
  <1>2. v \in Int16Range <=> v \in Int /\ v >= Int16Min /\ v <= Int16Max BY <1>1 DEF Int16Range
  <1> QED BY <1>1, <1>2 DEF Int16Min, Int16Max

\* GetChunk's conversion undoes the client's.
LEMMA Int16OfBytes ==
  ASSUME NEW v \in Int16Range
  PROVE  Int16(v % 256, (v \div 256) % 256) = v
  <1>1. v \in Int /\ v >= -32768 /\ v <= 32767 BY Int16Is
  <1> QED BY <1>1 DEF Int16

\* Whatever two bytes are read as a sample, it is an int16.
LEMMA Int16InRange ==
  ASSUME NEW lo \in Byte, NEW hi \in Byte
  PROVE  Int16(lo, hi) \in Int16Range
  <1>1. Int16(lo, hi) \in Int /\ Int16(lo, hi) >= -32768 /\ Int16(lo, hi) <= 32767
    BY DEF Int16, Byte
  <1> QED BY <1>1, Int16Is

\* A sample is two bytes.
LEMMA BytesInRange ==
  ASSUME NEW v \in Int16Range
  PROVE  Bytes(v) \in Seq(Byte) /\ Len(Bytes(v)) = 2
  <1>1. v \in Int BY Int16Is
  <1>2. v % 256 \in Byte /\ (v \div 256) % 256 \in Byte BY <1>1 DEF Byte
  <1> QED BY <1>2 DEF Bytes

\* The two bytes of the k-th sample.
LEMMA ByteOfPair ==
  ASSUME NEW samples, NEW k \in Nat \ {0}
  PROVE  /\ ByteOf(samples, 2 * k - 1) = samples[k] % 256
         /\ ByteOf(samples, 2 * k) = (samples[k] \div 256) % 256
  <1>1. /\ (2 * k - 1 + 1) \div 2 = k /\ (2 * k - 1) % 2 = 1
        /\ (2 * k + 1) \div 2 = k /\ (2 * k) % 2 = 0
    OBVIOUS
  <1> QED BY <1>1 DEF ByteOf, Bytes

\* Sending a sample leaves the earlier bytes and adds its own.
LEMMA ByteOfAppend ==
  ASSUME NEW S, NEW samples \in Seq(S), NEW v \in S
  PROVE  /\ \A n \in 1 .. 2 * Len(samples) : ByteOf(Append(samples, v), n) = ByteOf(samples, n)
         /\ \A i \in 1 .. 2 : ByteOf(Append(samples, v), 2 * Len(samples) + i) = Bytes(v)[i]
  <1>1. PICK L \in Nat : L = Len(samples) OBVIOUS
  <1>2. /\ \A k \in 1 .. L : Append(samples, v)[k] = samples[k]
        /\ Append(samples, v)[L + 1] = v
    BY <1>1, AppendProperties
  <1>3. ASSUME NEW n \in 1 .. 2 * L PROVE ByteOf(Append(samples, v), n) = ByteOf(samples, n)
    <2>1. (n + 1) \div 2 \in 1 .. L OBVIOUS
    <2> QED BY <1>2, <2>1 DEF ByteOf
  <1>4. /\ (2 * L + 1 + 1) \div 2 = L + 1 /\ (2 * L + 1) % 2 = 1
        /\ (2 * L + 2 + 1) \div 2 = L + 1 /\ (2 * L + 2) % 2 = 0
    OBVIOUS
  <1>5. ASSUME NEW i \in 1 .. 2 PROVE ByteOf(Append(samples, v), 2 * L + i) = Bytes(v)[i]
    <2>1. i = 1 \/ i = 2 OBVIOUS
    <2> QED BY <1>2, <1>4, <2>1 DEF ByteOf
  <1> QED BY <1>1, <1>3, <1>5

-----------------------------------------------------------------------------
(* Types                                                                    *)

\* The connection that is read is that of a client.
LEMMA ServedClient ==
  ASSUME TypeOK, Served
  PROVE  /\ pc \in Reading => client_desc = utterance
         /\ pc \notin Outer => utterance \in Conn
         /\ pc \in Reading => client_desc \in Conn
  BY DEF TypeOK, Served, Reading, Outer

\* Disconnect keeps the types of what it writes.
LEMMA DisconnectTyped ==
  ASSUME TypeOK, Disconnect
  PROVE  /\ peer' \in [Conn -> {"new", "up", "closed", "reset", "gone"}]
         /\ wire' \in [Conn -> Seq(Byte)] /\ client_desc' = None
  <1>1. peer \in [Conn -> {"new", "up", "closed", "reset", "gone"}] /\ wire \in [Conn -> Seq(Byte)]
    BY DEF TypeOK
  <1>2. CASE client_desc = None BY <1>1, <1>2 DEF Disconnect
  <1>3. CASE client_desc # None
    <2>1. /\ peer' = [peer EXCEPT ![client_desc] = "gone"] /\ wire' = [wire EXCEPT ![client_desc] = <<>>]
          /\ client_desc' = None
      BY <1>3 DEF Disconnect
    <2>2. <<>> \in Seq(Byte) BY EmptySeq
    <2> QED BY <1>1, <2>1, <2>2
  <1> QED BY <1>2, <1>3

\* What ReadBytes does, with the number of bytes named.
ReadsBytes(ret) ==
  /\ ret \in 1 .. ToRead /\ ret <= Len(wire[client_desc])
  /\ samp_buf' = Store(SubSeq(wire[client_desc], 1, ret))
  /\ wire' = [wire EXCEPT ![client_desc] = SubSeq(@, ret + 1, Len(@))]
  /\ \/ pc' = "false" /\ why' = "zero" /\ has_read' = has_read
     \/ /\ pc' = IF ret = ToRead THEN "true" ELSE "select"
        /\ why' = why /\ has_read' = has_read + ret
  /\ got' = [got EXCEPT ![client_desc] = @ + ret]

\* A read() that returns bytes, without the exit it leads to.
LEMMA ReadBytesIs ==
  ASSUME ReadBytes
  PROVE  /\ pc = "read" /\ \E ret \in 1 .. ToRead : ReadsBytes(ret)
         /\ UNCHANGED <<clientVars, backlog, outerVars, client_desc, errno, callerVars>>
  BY DEF ReadBytes, ReadsBytes, Silence, Return

\* Bytes that are read fit in the buffer, and leave the rest in the kernel.
LEMMA StoreTyped ==
  ASSUME TypeOK, pc \in Reading, Served, NEW ret \in 1 .. ToRead, ReadsBytes(ret)
  PROVE  /\ samp_buf' \in [1 .. BufBytes -> Byte] /\ has_read' \in 0 .. BufBytes
         /\ wire' \in [Conn -> Seq(Byte)]
         /\ \A i \in 1 .. ret : SubSeq(wire[client_desc], 1, ret)[i] = wire[client_desc][i]
         /\ Len(SubSeq(wire[client_desc], 1, ret)) = ret
         /\ Len(wire'[client_desc]) = Len(wire[client_desc]) - ret
         /\ \A i \in 1 .. Len(wire[client_desc]) - ret :
               wire'[client_desc][i] = wire[client_desc][ret + i]
  <1>1. client_desc \in Conn BY ServedClient
  <1>2. wire[client_desc] \in Seq(Byte) /\ wire \in [Conn -> Seq(Byte)]
    BY <1>1 DEF TypeOK
  <1>3. PICK L \in Nat : L = Len(wire[client_desc]) BY <1>2
  <1>4. BufBytes \in Nat /\ has_read \in 0 .. BufBytes /\ samp_buf \in [1 .. BufBytes -> Byte]
    BY TcpAssumption DEF TypeOK, BufBytes
  <1>5. ret \in 1 .. L /\ ret \in 1 .. BufBytes - has_read
    BY <1>3, <1>4 DEF ReadsBytes, ToRead
  <1> DEFINE piece == SubSeq(wire[client_desc], 1, ret)
             rest == SubSeq(wire[client_desc], ret + 1, L)
  <1>6. /\ piece \in Seq(Byte) /\ Len(piece) = ret
        /\ \A i \in 1 .. ret : piece[i] = wire[client_desc][i]
    BY <1>2, <1>3, <1>5, SubSeqProperties
  <1>7. /\ rest \in Seq(Byte) /\ Len(rest) = L - ret
        /\ \A i \in 1 .. L - ret : rest[i] = wire[client_desc][ret + i]
    BY <1>2, <1>3, <1>5, SubSeqProperties
  <1>8. samp_buf' = Store(piece) /\ wire' = [wire EXCEPT ![client_desc] = rest]
    BY <1>3 DEF ReadsBytes
  <1> HIDE DEF piece, rest
  <1>9. samp_buf' \in [1 .. BufBytes -> Byte]
    <2>1. samp_buf' = [i \in 1 .. BufBytes |->
                         IF i - has_read \in 1 .. ret THEN piece[i - has_read] ELSE samp_buf[i]]
      BY <1>6, <1>8 DEF Store
    <2>2. \A i \in 1 .. ret : piece[i] \in Byte BY <1>6
    <2>3. \A i \in 1 .. BufBytes : samp_buf[i] \in Byte BY <1>4
    <2> QED BY <2>1, <2>2, <2>3
  <1>10. has_read' \in 0 .. BufBytes BY <1>4, <1>5 DEF ReadsBytes
  <1>11. wire' \in [Conn -> Seq(Byte)] /\ wire'[client_desc] = rest
    BY <1>1, <1>2, <1>7, <1>8
  <1> QED BY <1>3, <1>6, <1>7, <1>9, <1>10, <1>11 DEF piece, rest

\* The numbers the proofs count with.
LEMMA Sizes ==
  ASSUME TypeOK, NEW c \in Conn
  PROVE  /\ sent[c] \in Seq(Sample) /\ wire[c] \in Seq(Byte) /\ heard[c] \in Seq(Int16Range)
         /\ Len(sent[c]) \in Nat /\ Len(wire[c]) \in Nat /\ Len(heard[c]) \in Nat
         /\ has_read \in Nat /\ BufBytes \in Nat /\ has_read <= BufBytes /\ Taken(c) \in Nat
  <1>1. sent[c] \in Seq(Sample) /\ wire[c] \in Seq(Byte) /\ heard[c] \in Seq(Int16Range)
    BY DEF TypeOK
  <1>2. BufBytes \in Nat /\ has_read \in 0 .. BufBytes
    BY TcpAssumption DEF TypeOK, BufBytes
  <1>3. Len(sent[c]) \in Nat /\ Len(wire[c]) \in Nat /\ Len(heard[c]) \in Nat BY <1>1
  <1>4. has_read \in Nat /\ has_read <= BufBytes BY <1>2
  <1>5. 2 * Len(heard[c]) \in Nat /\ 2 * Len(heard[c]) + has_read \in Nat
        /\ 2 * Len(heard[c]) + 0 \in Nat
    BY <1>3, <1>4
  <1>6. Taken(c) \in Nat BY <1>5 DEF Taken
  <1> QED BY <1>1, <1>2, <1>3, <1>4, <1>6

\* The samples GetChunk converts.
LEMMA ChunkTyped ==
  ASSUME TypeOK
  PROVE  /\ Available \in Nat /\ 2 * Available <= has_read
         /\ [i \in 1 .. Available |-> SampleAt(samp_buf, i)] \in Seq(Int16Range)
  <1>1. BufBytes \in Nat /\ has_read \in 0 .. BufBytes /\ samp_buf \in [1 .. BufBytes -> Byte]
    BY TcpAssumption DEF TypeOK, BufBytes
  <1>2. Available \in Nat /\ 2 * Available <= has_read BY <1>1 DEF Available
  <1>3. ASSUME NEW i \in 1 .. Available PROVE SampleAt(samp_buf, i) \in Int16Range
    <2>1. 2 * i - 1 \in 1 .. BufBytes /\ 2 * i \in 1 .. BufBytes BY <1>1, <1>2
    <2>2. samp_buf[2 * i - 1] \in Byte /\ samp_buf[2 * i] \in Byte BY <1>1, <2>1
    <2> QED BY <2>2, Int16InRange DEF SampleAt
  <1> QED BY <1>2, <1>3

\* A client's step leaves the server's side as it is.
LEMMA ServerTyped ==
  ASSUME TypeOK, UNCHANGED <<outerVars, client_desc, chunkVars, errno, pc, callerVars, got, why>>
  PROVE  /\ output' \in BOOLEAN /\ decode_fst' \in BOOLEAN
         /\ client_desc' \in Conn \cup {None} /\ utterance' \in Conn \cup {None}
         /\ samp_buf' \in [1 .. BufBytes -> Byte]
         /\ has_read' \in 0 .. BufBytes
         /\ errno' \in {"none", "EINTR", "ECONNRESET"}
         /\ pc' \in {"accept", "accepted", "dead", "start", "select", "poll", "read", "true", "false"}
         /\ heard' \in [Conn -> Seq(Int16Range)] /\ got' \in [Conn -> Nat]
         /\ why' \in {"none", "unconnected", "timeout", "signal", "zero", "errno", "end"}
  <1>1. output' = output /\ decode_fst' = decode_fst BY DEF outerVars
  <1>2. samp_buf' = samp_buf /\ has_read' = has_read BY DEF chunkVars
  <1>3. utterance' = utterance /\ heard' = heard BY DEF callerVars
  <1> QED BY <1>1, <1>2, <1>3 DEF TypeOK

\* No step leaves the types.
LEMMA StepTyped == ASSUME TypeOK, Served, [Next]_vars PROVE TypeOK'
  <1>1. ASSUME NEW c \in Conn, ClientConnect(c) PROVE TypeOK'
    <2>1. backlog' \in Seq(Conn) BY <1>1, AppendProperties DEF ClientConnect, TypeOK
    <2>2. peer' \in [Conn -> {"new", "up", "closed", "reset", "gone"}]
      BY <1>1 DEF ClientConnect, TypeOK
    <2>3. sent' = sent /\ wire' = wire BY <1>1 DEF ClientConnect
    <2>4. UNCHANGED <<outerVars, client_desc, chunkVars, errno, pc, callerVars, got, why>>
      BY <1>1 DEF ClientConnect
    <2> QED BY <2>1, <2>2, <2>3, <2>4, ServerTyped DEF TypeOK
  <1>2. ASSUME NEW c \in Conn, ClientSend(c) PROVE TypeOK'
    <2>1. PICK v \in Sample :
            /\ sent' = [sent EXCEPT ![c] = Append(@, v)]
            /\ wire' = [wire EXCEPT ![c] = @ \o Bytes(v)]
      BY <1>2 DEF ClientSend
    <2>2. sent[c] \in Seq(Sample) /\ wire[c] \in Seq(Byte) BY Sizes
    <2>3. Bytes(v) \in Seq(Byte) BY BytesInRange, TcpAssumption
    <2>4. Append(sent[c], v) \in Seq(Sample) BY <2>2, AppendProperties
    <2>5. wire[c] \o Bytes(v) \in Seq(Byte) BY <2>2, <2>3, ConcatProperties
    <2>6. sent' \in [Conn -> Seq(Sample)] BY <2>1, <2>4 DEF TypeOK
    <2>7. wire' \in [Conn -> Seq(Byte)] BY <2>1, <2>5 DEF TypeOK
    <2>8. peer' = peer /\ backlog' = backlog BY <1>2 DEF ClientSend
    <2>9. UNCHANGED <<outerVars, client_desc, chunkVars, errno, pc, callerVars, got, why>>
      BY <1>2 DEF ClientSend
    <2> QED BY <2>6, <2>7, <2>8, <2>9, ServerTyped DEF TypeOK
  <1>3. ASSUME NEW c \in Conn, ClientClose(c) PROVE TypeOK'
    <2>1. peer' \in [Conn -> {"new", "up", "closed", "reset", "gone"}]
      BY <1>3 DEF ClientClose, TypeOK
    <2>2. wire' \in [Conn -> Seq(Byte)]
      <3>1. <<>> \in Seq(Byte) BY EmptySeq
      <3> QED BY <1>3, <3>1 DEF ClientClose, TypeOK
    <2> QED BY <1>3, <2>1, <2>2 DEF ClientClose, TypeOK, outerVars, chunkVars, callerVars
  <1>4. CASE Accept
    <2>1. client_desc' \in Conn /\ backlog' \in Seq(Conn)
      <3>1. CASE client_desc # None BY <1>4, <3>1 DEF Accept, TypeOK
      <3>2. CASE client_desc = None BY <1>4, <3>2, HeadTailProperties DEF Accept, TypeOK
      <3> QED BY <3>1, <3>2
    <2> QED BY <1>4, <2>1 DEF Accept, TypeOK, clientVars, outerVars, chunkVars, callerVars
  <1>5. CASE ReadChunk
    <2>1. BufBytes \in Nat BY TcpAssumption DEF BufBytes
    <2>2. has_read' \in 0 .. BufBytes BY <1>5, <2>1 DEF ReadChunk
    <2>3. pc' \in {"select", "false"} /\ why' \in {why, "unconnected"} BY <1>5 DEF ReadChunk, Return
    <2> QED BY <1>5, <2>2, <2>3 DEF ReadChunk, TypeOK, clientVars, outerVars, callerVars
  <1>6. CASE Select
    BY <1>6 DEF Select, Return, TypeOK, clientVars, outerVars, callerVars, chunkVars
  <1>7. CASE Poll
    <2>1. CASE Disconnect
      <3>1. /\ peer' \in [Conn -> {"new", "up", "closed", "reset", "gone"}]
            /\ wire' \in [Conn -> Seq(Byte)] /\ client_desc' = None
        BY <2>1, DisconnectTyped
      <3>2. pc' \in {"read", "true", "false"} /\ why' \in {why, "signal"} /\ errno' \in {errno, "EINTR"}
        BY <1>7 DEF Poll, Return
      <3> QED BY <1>7, <3>1, <3>2 DEF Poll, TypeOK, outerVars, chunkVars, callerVars
    <2>2. CASE pc' = "read" /\ UNCHANGED <<peer, wire, client_desc, errno, why>>
      BY <1>7, <2>2 DEF Poll, TypeOK, outerVars, chunkVars, callerVars
    <2> QED BY <1>7, <2>1, <2>2 DEF Poll
  <1>8. CASE ReadBytes
    <2>1. /\ pc = "read"
          /\ UNCHANGED <<clientVars, backlog, outerVars, client_desc, errno, callerVars>>
      BY <1>8, ReadBytesIs
    <2>2. PICK ret \in 1 .. ToRead : ReadsBytes(ret) BY <1>8, ReadBytesIs
    <2>3. /\ samp_buf' \in [1 .. BufBytes -> Byte] /\ has_read' \in 0 .. BufBytes
          /\ wire' \in [Conn -> Seq(Byte)]
      BY <2>1, <2>2, StoreTyped DEF Reading
    <2>4. pc' \in {"false", "true", "select"} /\ why' \in {why, "zero"} BY <2>2 DEF ReadsBytes
    <2>5. got' \in [Conn -> Nat]
      <3>1. ret \in Nat BY <2>2, <2>3, TcpAssumption DEF ToRead, BufBytes, TypeOK
      <3>2. got \in [Conn -> Nat] /\ \A c \in Conn : got[c] + ret \in Nat BY <3>1 DEF TypeOK
      <3>3. got' = [got EXCEPT ![client_desc] = got[client_desc] + ret] BY <2>2 DEF ReadsBytes
      <3>4. client_desc \in Conn BY <2>1, ServedClient DEF Reading
      <3> QED BY <3>2, <3>3, <3>4
    <2> QED BY <2>1, <2>3, <2>4, <2>5 DEF TypeOK, clientVars, outerVars, callerVars
  <1>9. CASE ReadNothing
    <2>1. /\ peer' \in [Conn -> {"new", "up", "closed", "reset", "gone"}]
          /\ wire' \in [Conn -> Seq(Byte)] /\ client_desc' \in {client_desc, None}
      BY <1>9, DisconnectTyped DEF ReadNothing, TypeOK
    <2>2. pc' \in {"true", "false"} /\ why' \in {"errno", "end"} /\ errno' \in {errno, "ECONNRESET"}
      BY <1>9 DEF ReadNothing, Return
    <2> QED BY <1>9, <2>1, <2>2 DEF ReadNothing, TypeOK, outerVars, chunkVars, callerVars
  <1>10. CASE GetChunk
    <2> DEFINE chunk == [i \in 1 .. Available |-> SampleAt(samp_buf, i)]
    <2>1. utterance \in Conn BY <1>10, ServedClient DEF GetChunk, Outer
    <2>2. heard[utterance] \in Seq(Int16Range) /\ chunk \in Seq(Int16Range)
      BY <2>1, Sizes, ChunkTyped
    <2>3. heard' = [heard EXCEPT ![utterance] = heard[utterance] \o chunk] BY <1>10 DEF GetChunk
    <2> HIDE DEF chunk
    <2>4. heard[utterance] \o chunk \in Seq(Int16Range) BY <2>2, ConcatProperties
    <2>5. heard' \in [Conn -> Seq(Int16Range)] BY <2>1, <2>3, <2>4 DEF TypeOK
    <2> QED BY <1>10, <2>5 DEF GetChunk, TypeOK, clientVars, outerVars, chunkVars
  <1>11. CASE EndOfAudio
    <2>1. /\ peer' \in [Conn -> {"new", "up", "closed", "reset", "gone"}]
          /\ wire' \in [Conn -> Seq(Byte)] /\ client_desc' = None
      BY <1>11, DisconnectTyped DEF EndOfAudio
    <2> QED BY <1>11, <2>1 DEF EndOfAudio, TypeOK, outerVars, chunkVars
  <1>12. CASE UNCHANGED vars
    BY <1>12 DEF vars, TypeOK, clientVars, outerVars, chunkVars, callerVars
  <1>13. CASE AcceptThrows \/ AcceptInterrupted \/ CheckFST
    BY <1>13 DEF AcceptThrows, AcceptInterrupted, CheckFST, TypeOK, clientVars, outerVars, chunkVars,
                 callerVars
  <1>14. CASE OutputConnects
    BY <1>14 DEF OutputConnects, TypeOK, clientVars, chunkVars, callerVars
  <1> QED
    BY <1>1, <1>2, <1>3, <1>4, <1>5, <1>6, <1>7, <1>8, <1>9, <1>10, <1>11, <1>12, <1>13, <1>14
    DEF Next, Decoder, Client

-----------------------------------------------------------------------------
(* Whose connection it is                                                   *)

\* Disconnect releases the client that is served and no other.
LEMMA DisconnectIs ==
  ASSUME TypeOK, Served, Disconnect, pc \notin Outer
  PROVE  /\ client_desc' = None /\ peer'[utterance] = "gone"
         /\ \A c \in Conn \ {utterance} : peer'[c] = peer[c] /\ wire'[c] = wire[c]
  <1>1. utterance \in Conn BY ServedClient
  <1>2. CASE client_desc = None BY <1>1, <1>2, TcpAssumption DEF Disconnect, Served
  <1>3. CASE client_desc # None
    <2>1. client_desc = utterance BY <1>3 DEF Served, Outer
    <2> QED BY <1>1, <1>3, <2>1 DEF Disconnect, TypeOK
  <1> QED BY <1>2, <1>3

\* A step of a client.
LEMMA ClientControl ==
  ASSUME TypeOK, Served, Waiting, Client PROVE Served' /\ Waiting'
  <1> USE TcpAssumption
  <1>1. backlog \in Seq(Conn) /\ utterance \in Conn \cup {None} BY DEF TypeOK
  <1>5. client_desc \in Conn \cup {None} BY DEF TypeOK
  <1>2. ASSUME NEW c \in Conn, ClientConnect(c) PROVE Served' /\ Waiting'
    <2>1. PICK L \in Nat : L = Len(backlog) BY <1>1
    <2>2. /\ Len(backlog') = L + 1 /\ backlog'[L + 1] = c
          /\ \A i \in 1 .. L : backlog'[i] = backlog[i]
      BY <1>1, <1>2, <2>1, AppendProperties DEF ClientConnect
    <2>3. /\ peer[c] = "new" /\ peer'[c] = "up" /\ \A d \in Conn \ {c} : peer'[d] = peer[d]
          /\ UNCHANGED <<sent, wire, client_desc, pc, utterance, heard>>
      BY <1>2 DEF ClientConnect, TypeOK, callerVars
    <2>4. c # utterance /\ c # client_desc BY <2>3 DEF Served
    <2>5. Served' BY <1>1, <1>5, <2>3, <2>4 DEF Served
    <2>6. \A i \in 1 .. L : backlog[i] \in Conn \ {c} BY <1>1, <2>1, <2>3 DEF Waiting
    <2>7. ASSUME NEW i \in 1 .. L + 1
          PROVE  /\ peer'[backlog'[i]] \notin {"new", "gone"}
                 /\ backlog'[i] # utterance' /\ backlog'[i] # client_desc'
      <3>1. i \in 1 .. L \/ i = L + 1 OBVIOUS
      <3> QED BY <2>1, <2>2, <2>3, <2>4, <2>6, <3>1 DEF Waiting
    <2>8. ASSUME NEW i \in 1 .. L + 1, NEW j \in 1 .. L + 1, backlog'[i] = backlog'[j] PROVE i = j
      <3>1. (i \in 1 .. L \/ i = L + 1) /\ (j \in 1 .. L \/ j = L + 1) OBVIOUS
      <3>2. \A m, n \in 1 .. L : backlog[m] = backlog[n] => m = n BY <2>1 DEF Waiting
      <3> QED BY <2>2, <2>6, <2>8, <3>1, <3>2
    <2>9. \A d \in Conn :
            /\ heard'[d] # <<>> => d = utterance' \/ peer'[d] = "gone"
            /\ peer'[d] \in {"reset", "gone"} => wire'[d] = <<>>
            /\ peer'[d] = "new" => wire'[d] = <<>> /\ sent'[d] = <<>>
      BY <2>3 DEF Waiting
    <2> QED BY <2>2, <2>5, <2>7, <2>8, <2>9 DEF Waiting
  <1>3. ASSUME NEW c \in Conn, ClientSend(c) PROVE Served' /\ Waiting'
    <2>1. /\ peer[c] = "up" /\ UNCHANGED <<peer, backlog, client_desc, pc, utterance, heard>>
          /\ \A d \in Conn \ {c} : sent'[d] = sent[d] /\ wire'[d] = wire[d]
      BY <1>3 DEF ClientSend, TypeOK, callerVars
    <2>2. Served' BY <2>1 DEF Served
    <2>3. Waiting' BY <2>1 DEF Waiting
    <2> QED BY <2>2, <2>3
  <1>4. ASSUME NEW c \in Conn, ClientClose(c) PROVE Served' /\ Waiting'
    <2>1. /\ peer[c] = "up" /\ UNCHANGED <<sent, backlog, client_desc, pc, utterance, heard>>
          /\ peer'[c] \in {"closed", "reset"} /\ (peer'[c] = "reset" => wire'[c] = <<>>)
          /\ \A d \in Conn \ {c} : peer'[d] = peer[d] /\ wire'[d] = wire[d]
      BY <1>4 DEF ClientClose, TypeOK, callerVars
    <2>2. Served' BY <1>1, <1>5, <2>1 DEF Served
    <2>3. \A i \in 1 .. Len(backlog) : backlog[i] \in Conn BY <1>1
    <2>4. Waiting' BY <2>1, <2>3 DEF Waiting
    <2> QED BY <2>2, <2>4
  <1> QED BY <1>2, <1>3, <1>4 DEF Client

\* Accepting the first client that waits, or keeping the one that is held.
LEMMA AcceptControl ==
  ASSUME TypeOK, Served, Waiting, Accept
  PROVE  Served' /\ Waiting'
  <1> USE TcpAssumption
  <1>1. /\ utterance = None /\ UNCHANGED <<peer, sent, wire, utterance, heard>> /\ pc' = "accepted"
        /\ pc = "accept"
    BY DEF Accept, Served, Outer, clientVars, callerVars
  <1>2. backlog \in Seq(Conn) BY DEF TypeOK
  <1>3. \A d \in Conn :
          /\ heard'[d] # <<>> => d = utterance' \/ peer'[d] = "gone"
          /\ peer'[d] \in {"reset", "gone"} => wire'[d] = <<>>
          /\ peer'[d] = "new" => wire'[d] = <<>> /\ sent'[d] = <<>>
    BY <1>1 DEF Waiting
  <1>4. CASE client_desc # None
    <2>1. client_desc' = client_desc /\ backlog' = backlog BY <1>4 DEF Accept
    <2>2. Served' BY <1>1, <1>4, <2>1 DEF Served, Outer, Reading
    <2> QED BY <1>1, <1>3, <2>1, <2>2 DEF Waiting
  <1>5. CASE client_desc = None
    <2>1. client_desc' = Head(backlog) /\ backlog' = Tail(backlog) /\ backlog # <<>>
      BY <1>5 DEF Accept
    <2>2. PICK L \in Nat : L = Len(backlog) /\ 1 \in 1 .. L BY <1>2, <2>1, EmptySeq
    <2>3. /\ Head(backlog) = backlog[1] /\ Len(backlog') = L - 1
          /\ \A i \in 1 .. L - 1 : backlog'[i] = backlog[i + 1]
      BY <1>2, <2>1, <2>2, HeadTailProperties
    <2>4. /\ \A i \in 1 .. L : /\ backlog[i] \in Conn /\ peer[backlog[i]] \notin {"new", "gone"}
                               /\ backlog[i] # utterance
          /\ \A i, j \in 1 .. L : backlog[i] = backlog[j] => i = j
      BY <1>2, <2>2 DEF Waiting
    <2>5. client_desc' = backlog[1] /\ client_desc' \in Conn
          /\ peer[client_desc'] \notin {"new", "gone"}
      BY <2>1, <2>2, <2>3, <2>4
    <2>6. Served' BY <1>1, <2>5 DEF Served, Outer, Reading
    <2>7. ASSUME NEW i \in 1 .. L - 1
          PROVE  /\ peer'[backlog'[i]] \notin {"new", "gone"}
                 /\ backlog'[i] # utterance' /\ backlog'[i] # client_desc'
      <3>1. i + 1 \in 1 .. L /\ i + 1 # 1 OBVIOUS
      <3> QED BY <1>1, <2>2, <2>3, <2>4, <2>5, <3>1
    <2>8. ASSUME NEW i \in 1 .. L - 1, NEW j \in 1 .. L - 1, backlog'[i] = backlog'[j] PROVE i = j
      <3>1. i + 1 \in 1 .. L /\ j + 1 \in 1 .. L OBVIOUS
      <3>2. i + 1 = j + 1 BY <2>3, <2>4, <2>8, <3>1
      <3> QED BY <3>2
    <2>9. Waiting' BY <1>3, <2>3, <2>7, <2>8 DEF Waiting
    <2> QED BY <2>6, <2>9
  <1> QED BY <1>4, <1>5

\* The rest of the outer loop, with and without a graph, and OutputConnects.
LEMMA OuterControl ==
  ASSUME TypeOK, Served, Waiting, AcceptThrows \/ AcceptInterrupted \/ CheckFST \/ OutputConnects
  PROVE  Served' /\ Waiting'
  <1>1. UNCHANGED <<peer, sent, wire, backlog, client_desc, heard>>
    BY DEF AcceptThrows, AcceptInterrupted, CheckFST, OutputConnects, clientVars, callerVars
  <1>2. CASE utterance' = utterance /\ (pc' = pc \/ (pc \in Outer /\ pc' \in {"accept", "dead"}))
    BY <1>1, <1>2 DEF Served, Waiting, Outer, Reading
  <1>3. CASE pc = "accepted" /\ pc' = "start" /\ utterance' = client_desc
    <2>1. client_desc \in Conn /\ peer[client_desc] \notin {"new", "gone"} /\ utterance = None
      BY <1>3 DEF TypeOK, Served, Outer
    <2>2. Served' BY <1>1, <1>3, <2>1, TcpAssumption DEF Served, Outer, Reading
    <2>3. Waiting'
      <3>1. \A d \in Conn : heard[d] # <<>> => peer[d] = "gone"
        BY <2>1, TcpAssumption DEF Waiting
      <3> QED BY <1>1, <1>3, <3>1 DEF Waiting
    <2> QED BY <2>2, <2>3
  <1>4. CASE CheckFST
    <2>1. /\ pc = "accepted"
          /\ \/ pc' = "start" /\ utterance' = client_desc
             \/ pc' = "accept" /\ utterance' = utterance
      BY <1>4 DEF CheckFST
    <2> QED BY <1>2, <1>3, <2>1 DEF Outer
  <1>5. CASE AcceptThrows \/ AcceptInterrupted \/ OutputConnects
    <2>1. utterance' = utterance /\ (pc' = pc \/ (pc = "accept" /\ pc' = "dead"))
      BY <1>5 DEF AcceptThrows, AcceptInterrupted, OutputConnects, callerVars
    <2> QED BY <1>2, <2>1 DEF Outer
  <1> QED BY <1>4, <1>5

\* The other steps of the decoder touch its own client only.
LEMMA DecoderControl ==
  ASSUME TypeOK, Served, Waiting, Decoder \/ OutputConnects \/ UNCHANGED vars
  PROVE  Served' /\ Waiting'
  <1>1. CASE Accept BY <1>1, AcceptControl
  <1>2. CASE UNCHANGED vars BY <1>2 DEF vars, clientVars, callerVars, Served, Waiting
  <1>4. CASE AcceptThrows \/ AcceptInterrupted \/ CheckFST \/ OutputConnects BY <1>4, OuterControl
  <1> DEFINE Utter == \/ ReadChunk \/ Select \/ Poll \/ ReadBytes \/ ReadNothing \/ GetChunk
                      \/ EndOfAudio
  <1>3. CASE Utter
    <2>1. pc \notin Outer /\ utterance \in Conn
      BY <1>3, ServedClient
      DEF ReadChunk, Select, Poll, ReadBytes, ReadNothing, GetChunk, EndOfAudio, Outer
    <2>2. UNCHANGED <<backlog, sent>> /\ \A i \in 1 .. Len(backlog) : backlog[i] \in Conn \ {utterance}
      <3>1. UNCHANGED <<backlog, sent>>
        BY <1>3 DEF ReadChunk, Select, Poll, ReadBytes, ReadNothing, GetChunk, EndOfAudio, clientVars
      <3>2. backlog \in Seq(Conn) BY DEF TypeOK
      <3> QED BY <3>1, <3>2 DEF Waiting
    <2>3. \A c \in Conn \ {utterance} :
            peer'[c] = peer[c] /\ heard'[c] = heard[c] /\ wire'[c] = wire[c]
      <3>1. CASE Poll \/ ReadNothing \/ EndOfAudio
        BY <2>1, <3>1, DisconnectIs DEF Poll, ReadNothing, EndOfAudio, callerVars
      <3>2. CASE ReadChunk \/ Select \/ GetChunk
        BY <3>2 DEF ReadChunk, Select, GetChunk, clientVars, callerVars, TypeOK
      <3>3. CASE ReadBytes
        BY <3>3, ServedClient DEF ReadBytes, clientVars, callerVars, TypeOK, Reading
      <3> QED BY <1>3, <3>1, <3>2, <3>3
    <2>4. CASE pc' \in Outer
      <3>1. EndOfAudio
        BY <1>3, <2>4 DEF ReadChunk, Select, Poll, ReadBytes, ReadNothing, GetChunk, Return, Silence,
                          Outer
      <3>2. utterance' = None /\ client_desc' = None /\ peer'[utterance] = "gone" /\ heard' = heard
        BY <2>1, <3>1, DisconnectIs DEF EndOfAudio
      <3>3. wire'[utterance] = <<>>
        BY <2>1, <3>1 DEF EndOfAudio, Disconnect, Served, Waiting, TypeOK
      <3>4. Served' BY <2>4, <3>1, <3>2 DEF Served, Reading, Outer, EndOfAudio
      <3>5. Waiting' BY <2>2, <2>3, <3>2, <3>3, TcpAssumption DEF Waiting
      <3> QED BY <3>4, <3>5
    <2>5. CASE pc' \notin Outer
      <3>1. utterance' = utterance /\ utterance' # None
        BY <1>3, <2>1, <2>5, TcpAssumption
        DEF ReadChunk, Select, Poll, ReadBytes, ReadNothing, GetChunk, EndOfAudio, callerVars,
            Outer
      <3>2. /\ client_desc' = client_desc /\ peer' = peer
            /\ wire[utterance] = <<>> => wire'[utterance] = <<>>
            /\ pc' \in Reading => client_desc = utterance
            \/ /\ client_desc' = None /\ peer'[utterance] = "gone" /\ wire'[utterance] = <<>>
               /\ pc' \notin Reading
        <4>1. CASE ReadChunk
          BY <2>1, <4>1 DEF ReadChunk, clientVars, Reading, Return, Served
        <4>2. CASE Select
          BY <4>2 DEF Select, clientVars, Reading, Return, Served
        <4>3. CASE Poll
          BY <2>1, <4>3, TcpAssumption DEF Poll, Disconnect, Reading, Return, Served, TypeOK
        <4>4. CASE ReadBytes
          BY <4>4, ServedClient DEF ReadBytes, clientVars, Reading, Served
        <4>5. CASE ReadNothing
          BY <2>1, <4>5, TcpAssumption DEF ReadNothing, Disconnect, Reading, Return, Served, TypeOK
        <4>6. CASE GetChunk
          BY <4>6 DEF GetChunk, clientVars, Reading
        <4> QED
          BY <1>3, <2>5, <4>1, <4>2, <4>3, <4>4, <4>5, <4>6 DEF EndOfAudio, Outer
      <3>3. Served' BY <2>1, <2>5, <3>1, <3>2 DEF Served, Outer
      <3>4. Waiting' BY <2>1, <2>2, <2>3, <3>1, <3>2, TcpAssumption DEF Waiting, Served
      <3> QED BY <3>3, <3>4
    <2> QED BY <2>4, <2>5
  <1> QED BY <1>1, <1>2, <1>3, <1>4 DEF Decoder

-----------------------------------------------------------------------------
(* The bytes on their way                                                   *)

\* A connection nothing happened to still follows.
LEMMA SameFollows ==
  ASSUME NEW c \in Conn, Follows(c), wire'[c] = wire[c], sent'[c] = sent[c], Taken(c)' = Taken(c),
         peer'[c] \in {"new", "up", "closed"} => peer[c] \in {"new", "up", "closed"}
  PROVE  Follows(c)'
  BY DEF Follows, SentByte

\* Nothing follows on a connection that is reset or released.
LEMMA EmptyFollows ==
  ASSUME NEW c \in Conn, wire'[c] = <<>>, peer'[c] \in {"reset", "gone"},
         Taken(c)' \in Nat, Taken(c)' <= 2 * Len(sent'[c])
  PROVE  Follows(c)'
  <1>1. Len(wire'[c]) = 0 BY EmptySeq
  <1> QED BY <1>1 DEF Follows

\* One lemma for each action: it keeps Data.
LEMMA ConnectData ==
  ASSUME IInv, NEW c \in Conn, ClientConnect(c) PROVE Data'
  <1>1. /\ peer[c] = "new" /\ peer'[c] = "up" /\ \A d \in Conn \ {c} : peer'[d] = peer[d]
        /\ UNCHANGED <<sent, wire, samp_buf, has_read, pc, utterance, heard, why>>
        /\ c # utterance
    BY TcpAssumption DEF ClientConnect, IInv, TypeOK, callerVars, chunkVars, Served
  <1>2. pc \notin Outer => utterance \in Conn \ {c}
    BY <1>1, ServedClient DEF IInv, Outer
  <1>3. HeardIsSent' BY <1>1 DEF IInv, Data, HeardIsSent
  <1>4. Stream'
    <2> SUFFICES ASSUME NEW d \in Conn, d # utterance \/ pc # "false" PROVE Follows(d)'
      BY <1>1 DEF Stream
    <2>1. Follows(d) BY DEF IInv, Data, Stream
    <2>2. Taken(d)' = Taken(d) BY <1>1 DEF Taken
    <2>3. peer'[d] \in {"new", "up", "closed"} => peer[d] \in {"new", "up", "closed"} BY <1>1
    <2> QED BY <1>1, <2>1, <2>2, <2>3, SameFollows
  <1>5. Collects' BY <1>1 DEF IInv, Data, Collects, SentByte
  <1>6. Complete' /\ Ended' BY <1>1, <1>2 DEF IInv, Data, Complete, Ended, Readable, Outer
  <1> QED BY <1>3, <1>4, <1>5, <1>6 DEF Data

LEMMA SendData ==
  ASSUME IInv, NEW c \in Conn, ClientSend(c) PROVE Data'
  <1>1. PICK v \in Sample :
          /\ sent' = [sent EXCEPT ![c] = Append(@, v)]
          /\ wire' = [wire EXCEPT ![c] = @ \o Bytes(v)]
    BY DEF ClientSend
  <1>2. peer[c] = "up" /\ UNCHANGED <<peer, samp_buf, has_read, pc, utterance, heard, why>>
    BY DEF ClientSend, callerVars, chunkVars
  <1>3. /\ sent[c] \in Seq(Sample) /\ wire[c] \in Seq(Byte)
        /\ Bytes(v) \in Seq(Byte) /\ Len(Bytes(v)) = 2
    BY Sizes, BytesInRange, TcpAssumption DEF IInv
  <1>4. PICK S \in Nat, W \in Nat : S = Len(sent[c]) /\ W = Len(wire[c]) BY <1>3
  <1>5. /\ sent'[c] = Append(sent[c], v) /\ wire'[c] = wire[c] \o Bytes(v)
        /\ \A d \in Conn \ {c} : sent'[d] = sent[d] /\ wire'[d] = wire[d]
    BY <1>1 DEF IInv, TypeOK
  <1>6. /\ Len(sent'[c]) = S + 1 /\ \A i \in 1 .. S : sent'[c][i] = sent[c][i]
        /\ \A n \in 1 .. 2 * S : ByteOf(sent'[c], n) = ByteOf(sent[c], n)
        /\ \A i \in 1 .. 2 : ByteOf(sent'[c], 2 * S + i) = Bytes(v)[i]
    BY <1>3, <1>4, <1>5, AppendProperties, ByteOfAppend
  <1>7. /\ Len(wire'[c]) = W + 2
        /\ \A i \in 1 .. W + 2 : wire'[c][i] = IF i <= W THEN wire[c][i] ELSE Bytes(v)[i - W]
    <2>1. /\ Len(wire[c] \o Bytes(v)) = W + 2
          /\ \A i \in 1 .. W + 2 : (wire[c] \o Bytes(v))[i] = IF i <= W THEN wire[c][i] ELSE Bytes(v)[i - W]
      <3>1. PICK w \in Seq(Byte), b \in Seq(Byte) : w = wire[c] /\ b = Bytes(v) /\ Len(b) = 2 BY <1>3
      <3>2. /\ Len(w \o b) = Len(w) + Len(b)
            /\ \A i \in 1 .. Len(w) + Len(b) : (w \o b)[i] = IF i <= Len(w) THEN w[i] ELSE b[i - Len(w)]
        BY ConcatProperties
      <3>3. Len(w) = W /\ Len(b) = 2 BY <1>4, <3>1
      <3> QED BY <3>1, <3>2, <3>3
    <2> QED BY <1>5, <2>1
  <1>8. \A d \in Conn : Taken(d)' = Taken(d) BY <1>2 DEF Taken
  <1>9. HeardIsSent'
    <2> SUFFICES ASSUME NEW d \in Conn
                 PROVE  /\ Len(heard[d]) <= Len(sent'[d])
                        /\ \A i \in 1 .. Len(heard[d]) : heard[d][i] = sent'[d][i]
      BY <1>2 DEF HeardIsSent
    <2>1. /\ Len(heard[d]) <= Len(sent[d]) /\ Len(heard[d]) \in Nat
          /\ \A i \in 1 .. Len(heard[d]) : heard[d][i] = sent[d][i]
      BY Sizes DEF IInv, Data, HeardIsSent
    <2>2. CASE d # c BY <1>5, <2>1, <2>2
    <2>3. CASE d = c
      <3>1. Len(heard[d]) <= S /\ Len(heard[d]) <= S + 1 BY <1>4, <2>1, <2>3
      <3>2. \A i \in 1 .. Len(heard[d]) : i \in 1 .. S BY <2>1, <3>1
      <3> QED BY <1>6, <2>1, <2>3, <3>1, <3>2
    <2> QED BY <2>2, <2>3
  <1>10. Stream'
    <2> SUFFICES ASSUME NEW d \in Conn, d # utterance \/ pc # "false" PROVE Follows(d)'
      BY <1>2 DEF Stream
    <2>1. Follows(d) BY DEF IInv, Data, Stream
    <2>2. CASE d # c BY <1>2, <1>5, <1>8, <2>1, <2>2, SameFollows
    <2>3. CASE d = c
      <3>1. PICK T \in Nat : T = Taken(c) BY Sizes DEF IInv
      <3>2. T + W = 2 * S /\ \A i \in 1 .. W : wire[c][i] = ByteOf(sent[c], T + i)
        BY <1>2, <1>4, <2>1, <2>3, <3>1 DEF Follows, SentByte
      <3>3. ASSUME NEW i \in 1 .. W + 2 PROVE wire'[c][i] = ByteOf(sent'[c], T + i)
        <4>1. CASE i <= W
          <5>1. i \in 1 .. W /\ T + i \in 1 .. 2 * S BY <3>2, <4>1
          <5> QED BY <1>6, <1>7, <3>2, <4>1, <5>1
        <4>2. CASE ~(i <= W)
          <5>1. i - W \in 1 .. 2 /\ 2 * S + (i - W) = T + i BY <3>2, <4>2
          <5> QED BY <1>6, <1>7, <4>2, <5>1
        <4> QED BY <4>1, <4>2
      <3>4. Taken(c)' = T BY <1>8, <3>1
      <3>5. T + (W + 2) = 2 * (S + 1) BY <3>2
      <3>6. Follows(c)'
        BY <1>6, <1>7, <3>3, <3>4, <3>5 DEF Follows, SentByte
      <3> QED BY <2>3, <3>6
    <2> QED BY <2>2, <2>3
  <1>11. Collects'
    <2> SUFFICES ASSUME pc \in Collecting, NEW i \in 1 .. has_read
                 PROVE  samp_buf[i] = ByteOf(sent'[utterance], 2 * Len(heard[utterance]) + i)
      BY <1>2 DEF Collects, SentByte
    <2>1. utterance \in Conn /\ pc # "false" BY ServedClient DEF IInv, Outer, Collecting, Reading
    <2>2. samp_buf[i] = ByteOf(sent[utterance], 2 * Len(heard[utterance]) + i)
      BY DEF IInv, Data, Collects, SentByte
    <2>3. CASE utterance # c BY <1>5, <2>1, <2>2, <2>3
    <2>4. CASE utterance = c
      <3>1. PICK H \in Nat : H = Len(heard[utterance]) BY <2>1, Sizes DEF IInv
      <3>2. has_read \in Nat BY Sizes DEF IInv
      <3>3. 2 * H + has_read <= 2 * S
        <4>1. Taken(c) = 2 * H + has_read BY <2>4, <3>1 DEF Taken
        <4>2. Follows(c) BY <2>1, <2>4 DEF IInv, Data, Stream
        <4>3. Taken(c) + W <= 2 * S BY <1>4, <4>2 DEF Follows
        <4> QED BY <3>2, <4>1, <4>3
      <3>4. 2 * H + i \in 1 .. 2 * S BY <3>2, <3>3
      <3> QED BY <1>6, <2>2, <2>4, <3>1, <3>4
    <2> QED BY <2>3, <2>4
  <1>12. Complete'
    <2>1. pc \in {"poll", "read"} => Readable(utterance)'
      <3>1. wire'[c] # <<>> BY <1>7, EmptySeq, <1>4
      <3> QED BY <1>2, <1>5, <3>1, ServedClient DEF IInv, Data, Complete, Readable, Reading
    <2>2. pc = "true" => \/ has_read = BufBytes
                         \/ wire'[utterance] = <<>> /\ peer[utterance] \in {"closed", "reset", "gone"}
      <3>1. pc = "true" => utterance \in Conn BY ServedClient DEF IInv, Outer
      <3>2. pc = "true" /\ utterance = c => has_read = BufBytes
        BY <1>2 DEF IInv, Data, Complete
      <3>3. pc = "true" /\ utterance # c => wire'[utterance] = wire[utterance]
        BY <1>5, <3>1
      <3>4. pc = "true" => \/ has_read = BufBytes
                           \/ wire[utterance] = <<>> /\ peer[utterance] \in {"closed", "reset", "gone"}
        BY DEF IInv, Data, Complete
      <3> QED BY <3>2, <3>3, <3>4
    <2> QED BY <1>2, <2>1, <2>2 DEF Complete, BufBytes
  <1>13. Ended'
    <2> SUFFICES ASSUME pc = "false" PROVE Ended'
      BY <1>2 DEF Ended
    <2>1. utterance \in Conn BY ServedClient DEF IInv, Outer
    <2>2. CASE utterance # c BY <1>2, <1>5, <2>1, <2>2 DEF IInv, Data, Ended
    <2>3. CASE utterance = c BY <1>2, <2>3 DEF IInv, Data, Ended
    <2> QED BY <2>2, <2>3
  <1> QED BY <1>9, <1>10, <1>11, <1>12, <1>13 DEF Data

LEMMA CloseData ==
  ASSUME IInv, NEW c \in Conn, ClientClose(c) PROVE Data'
  <1>1. /\ peer[c] = "up" /\ UNCHANGED <<sent, samp_buf, has_read, pc, utterance, heard, why>>
        /\ \/ peer'[c] = "closed" /\ wire' = wire
           \/ peer'[c] = "reset" /\ wire'[c] = <<>>
        /\ \A d \in Conn \ {c} : peer'[d] = peer[d] /\ wire'[d] = wire[d]
    BY DEF ClientClose, IInv, TypeOK, callerVars, chunkVars
  <1>2. pc \notin Outer => utterance \in Conn BY ServedClient DEF IInv, Outer
  <1>3. HeardIsSent' BY <1>1 DEF IInv, Data, HeardIsSent
  <1>4. Stream'
    <2> SUFFICES ASSUME NEW d \in Conn, d # utterance \/ pc # "false" PROVE Follows(d)'
      BY <1>1 DEF Stream
    <2>1. Follows(d) BY DEF IInv, Data, Stream
    <2>2. Taken(d)' = Taken(d) /\ sent'[d] = sent[d] BY <1>1 DEF Taken
    <2>3. CASE wire'[d] = wire[d]
      <3>1. peer'[d] \in {"new", "up", "closed"} => peer[d] \in {"new", "up", "closed"} BY <1>1
      <3> QED BY <2>1, <2>2, <2>3, <3>1, SameFollows
    <2>4. CASE wire'[d] # wire[d]
      <3>1. peer'[d] = "reset" /\ wire'[d] = <<>> BY <1>1, <2>4
      <3>2. Taken(d) \in Nat /\ Len(wire[d]) \in Nat /\ Len(sent[d]) \in Nat BY Sizes DEF IInv
      <3>3. Taken(d) <= 2 * Len(sent[d]) BY <2>1, <3>2 DEF Follows
      <3> QED BY <2>2, <3>1, <3>2, <3>3, EmptyFollows
    <2> QED BY <2>3, <2>4
  <1>5. Collects' BY <1>1 DEF IInv, Data, Collects, SentByte
  <1>6. Complete'
    <2>1. pc \in {"poll", "read"} => Readable(utterance)'
      BY <1>1, <1>2 DEF IInv, Data, Complete, Readable, Outer
    <2>2. pc = "true" => \/ has_read = BufBytes
                         \/ wire'[utterance] = <<>> /\ peer'[utterance] \in {"closed", "reset", "gone"}
      BY <1>1, <1>2 DEF IInv, Data, Complete, Outer
    <2> QED BY <1>1, <2>1, <2>2 DEF Complete, BufBytes
  <1>7. Ended'
    <2> SUFFICES ASSUME pc = "false" PROVE Ended' BY <1>1 DEF Ended
    <2>1. CASE utterance # c BY <1>1, <1>2, <2>1 DEF IInv, Data, Ended, Outer
    <2>2. CASE utterance = c BY <1>1, <2>2 DEF IInv, Data, Ended
    <2> QED BY <2>1, <2>2
  <1> QED BY <1>3, <1>4, <1>5, <1>6, <1>7 DEF Data

LEMMA OuterData ==
  ASSUME IInv, Accept \/ AcceptThrows \/ AcceptInterrupted \/ CheckFST PROVE Data'
  <1>1. /\ UNCHANGED <<peer, sent, wire, heard>>
        /\ pc \in {"accept", "accepted"} /\ pc' \in {"accept", "accepted", "dead", "start"}
    BY DEF Accept, AcceptThrows, AcceptInterrupted, CheckFST, clientVars, callerVars
  <1>2. HeardIsSent' BY <1>1 DEF IInv, Data, HeardIsSent
  <1>3. Stream'
    <2> SUFFICES ASSUME NEW d \in Conn PROVE Follows(d)' BY DEF Stream
    <2>1. Follows(d) BY <1>1 DEF IInv, Data, Stream
    <2>2. Taken(d)' = Taken(d) BY <1>1 DEF Taken, Collecting, Reading
    <2> QED BY <1>1, <2>1, <2>2, SameFollows
  <1>4. Collects' /\ Complete' /\ Ended'
    BY <1>1 DEF Collects, Complete, Ended, Collecting, Reading
  <1> QED BY <1>2, <1>3, <1>4 DEF Data

LEMMA ReadChunkData ==
  ASSUME IInv, ReadChunk PROVE Data'
  <1>1. /\ UNCHANGED <<peer, sent, wire, client_desc, utterance, heard>>
        /\ pc = "start" /\ has_read' = 0
        /\ \/ client_desc = None /\ pc' = "false" /\ why' = "unconnected"
           \/ pc' = "select"
    BY DEF ReadChunk, Return, clientVars, callerVars
  <1>2. utterance \in Conn BY <1>1, ServedClient DEF IInv, Outer
  <1>3. HeardIsSent' BY <1>1 DEF IInv, Data, HeardIsSent
  <1>4. Stream'
    <2> SUFFICES ASSUME NEW d \in Conn PROVE Follows(d)' BY DEF Stream
    <2>1. Follows(d) BY <1>1 DEF IInv, Data, Stream
    <2>2. Taken(d)' = Taken(d) BY <1>1 DEF Taken, Collecting, Reading
    <2> QED BY <1>1, <2>1, <2>2, SameFollows
  <1>5. Collects' BY <1>1 DEF Collects
  <1>6. Complete' BY <1>1 DEF Complete
  <1>7. Ended' BY <1>1 DEF Ended
  <1> QED BY <1>3, <1>4, <1>5, <1>6, <1>7 DEF Data

LEMMA SelectData ==
  ASSUME IInv, Select PROVE Data'
  <1>1. /\ UNCHANGED <<peer, sent, wire, utterance, heard, samp_buf, has_read>> /\ pc = "select"
        /\ \/ pc' = "poll" /\ Readable(client_desc)
           \/ pc' = "false" /\ why' \in {"timeout", "signal"}
    BY DEF Select, Return, clientVars, callerVars, chunkVars
  <1>2. utterance \in Conn /\ client_desc = utterance BY <1>1, ServedClient DEF IInv, Reading
  <1>3. HeardIsSent' BY <1>1 DEF IInv, Data, HeardIsSent
  <1>4. Stream'
    <2> SUFFICES ASSUME NEW d \in Conn, d # utterance \/ pc' # "false" PROVE Follows(d)'
      BY <1>1 DEF Stream
    <2>1. Follows(d) BY <1>1 DEF IInv, Data, Stream
    <2>2. Taken(d)' = Taken(d) BY <1>1 DEF Taken, Collecting, Reading
    <2> QED BY <1>1, <2>1, <2>2, SameFollows
  <1>5. Collects' BY <1>1 DEF IInv, Data, Collects, SentByte, Collecting, Reading
  <1>6. Complete' BY <1>1, <1>2 DEF Complete, Readable
  <1>7. Ended' BY <1>1 DEF Ended
  <1> QED BY <1>3, <1>4, <1>5, <1>6, <1>7 DEF Data

\* poll() and read() that release the client: what was collected may still be heard.
LEMMA ReleaseData ==
  ASSUME IInv, Disconnect, pc \in Reading, UNCHANGED <<sent, utterance, heard, samp_buf, has_read>>,
         pc' \in {"true", "false"}, why' \in {"signal", "errno"}
  PROVE  Data'
  <1>1. utterance \in Conn /\ client_desc = utterance /\ client_desc # None
    BY ServedClient, TcpAssumption DEF IInv, Reading, Outer
  <1>2. /\ peer'[utterance] = "gone" /\ wire'[utterance] = <<>>
        /\ \A c \in Conn \ {utterance} : peer'[c] = peer[c] /\ wire'[c] = wire[c]
    BY <1>1 DEF Disconnect, IInv, TypeOK
  <1>3. HeardIsSent' BY DEF IInv, Data, HeardIsSent
  <1>4. Stream'
    <2> SUFFICES ASSUME NEW d \in Conn, d # utterance \/ pc' # "false" PROVE Follows(d)'
      BY DEF Stream
    <2>1. Follows(d) BY DEF IInv, Data, Stream, Reading
    <2>2. Taken(d)' = Taken(d) BY DEF Taken, Collecting, Reading
    <2>3. CASE d # utterance BY <1>2, <2>1, <2>2, <2>3, SameFollows
    <2>4. CASE d = utterance
      <3>1. Taken(d) \in Nat /\ Len(wire[d]) \in Nat /\ Len(sent[d]) \in Nat BY Sizes DEF IInv
      <3>2. Taken(d) <= 2 * Len(sent[d]) BY <2>1, <3>1 DEF Follows
      <3> QED BY <1>2, <2>2, <2>4, <3>1, <3>2, EmptyFollows
    <2> QED BY <2>3, <2>4
  <1>5. Collects' BY DEF IInv, Data, Collects, SentByte, Collecting, Reading
  <1>6. Complete' BY <1>2 DEF Complete
  <1>7. Ended' BY DEF Ended
  <1> QED BY <1>3, <1>4, <1>5, <1>6, <1>7 DEF Data

LEMMA PollData ==
  ASSUME IInv, Poll PROVE Data'
  <1>1. /\ UNCHANGED <<sent, utterance, heard, samp_buf, has_read>> /\ pc = "poll"
        /\ \/ pc' = "read" /\ UNCHANGED <<peer, wire>>
           \/ Disconnect /\ pc' \in {"true", "false"} /\ why' = "signal"
    BY DEF Poll, Return, callerVars, chunkVars
  <1>2. CASE Disconnect /\ pc' \in {"true", "false"} /\ why' = "signal"
    BY <1>1, <1>2, ReleaseData DEF Reading
  <1>3. CASE pc' = "read" /\ UNCHANGED <<peer, wire>>
    <2>1. HeardIsSent' BY <1>1 DEF IInv, Data, HeardIsSent
    <2>2. Stream'
      <3> SUFFICES ASSUME NEW d \in Conn PROVE Follows(d)' BY DEF Stream
      <3>1. Follows(d) BY <1>1 DEF IInv, Data, Stream
      <3>2. Taken(d)' = Taken(d) BY <1>1, <1>3 DEF Taken, Collecting, Reading
      <3> QED BY <1>1, <1>3, <3>1, <3>2, SameFollows
    <2>3. Collects' BY <1>1 DEF IInv, Data, Collects, SentByte, Collecting, Reading
    <2>4. Complete' /\ Ended' BY <1>1, <1>3 DEF IInv, Data, Complete, Ended, Readable
    <2> QED BY <2>1, <2>2, <2>3, <2>4 DEF Data
  <1> QED BY <1>1, <1>2, <1>3

LEMMA ReadBytesData ==
  ASSUME IInv, ReadBytes PROVE Data'
  <1>1. pc = "read" /\ UNCHANGED <<peer, sent, client_desc, utterance, heard>>
    BY ReadBytesIs DEF clientVars, callerVars
  <1>2. PICK ret \in 1 .. ToRead : ReadsBytes(ret) BY ReadBytesIs
  <1>3. utterance \in Conn /\ client_desc = utterance BY <1>1, ServedClient DEF IInv, Reading
  <1>4. /\ has_read \in Nat /\ BufBytes \in Nat /\ has_read <= BufBytes
        /\ samp_buf \in [1 .. BufBytes -> Byte]
    BY <1>3, Sizes DEF IInv, TypeOK
  <1>5. PICK S \in Nat, H \in Nat, W \in Nat, r \in Nat :
          /\ S = Len(sent[utterance]) /\ H = Len(heard[utterance])
          /\ W = Len(wire[utterance]) /\ r = has_read
    BY <1>3, Sizes DEF IInv
  <1>6. ret \in Nat /\ r + ret <= BufBytes /\ ret <= W /\ ret \in 1 .. W
    BY <1>2, <1>3, <1>4, <1>5 DEF ToRead, ReadsBytes
  <1>7. /\ Len(wire'[utterance]) = W - ret
        /\ \A i \in 1 .. W - ret : wire'[utterance][i] = wire[utterance][ret + i]
        /\ Len(SubSeq(wire[client_desc], 1, ret)) = ret
        /\ \A i \in 1 .. ret : SubSeq(wire[client_desc], 1, ret)[i] = wire[utterance][i]
    BY <1>1, <1>2, <1>3, <1>5, StoreTyped DEF IInv, Reading
  <1>8. \A c \in Conn \ {utterance} : wire'[c] = wire[c]
    BY <1>2, <1>3 DEF ReadsBytes, IInv, TypeOK
  <1>9. Follows(utterance) /\ Taken(utterance) = 2 * H + r
    BY <1>1, <1>3, <1>5 DEF IInv, Data, Stream, Taken, Collecting, Reading
  <1>10. /\ 2 * H + r + W <= 2 * S
         /\ peer[utterance] \in {"new", "up", "closed"} => 2 * H + r + W = 2 * S
         /\ \A i \in 1 .. W : wire[utterance][i] = SentByte(utterance, 2 * H + r + i)
    BY <1>5, <1>9 DEF Follows
  <1>11. HeardIsSent' BY <1>1 DEF IInv, Data, HeardIsSent
  <1>12. ASSUME NEW d \in Conn \ {utterance} PROVE Follows(d)'
    <2>1. Follows(d) BY <1>1 DEF IInv, Data, Stream
    <2>2. Taken(d)' = Taken(d) BY <1>1 DEF Taken
    <2> QED BY <1>1, <1>8, <2>1, <2>2, SameFollows
  <1>13. CASE pc' = "false" /\ why' = "zero" /\ has_read' = has_read
    <2>1. Stream' BY <1>1, <1>12, <1>13 DEF Stream
    <2>2. Collects' /\ Complete' BY <1>13 DEF Collects, Complete, Collecting, Reading
    <2>3. Ended' BY <1>13 DEF Ended
    <2> QED BY <1>11, <2>1, <2>2, <2>3 DEF Data
  <1>14. CASE /\ pc' = IF ret = ToRead THEN "true" ELSE "select"
              /\ why' = why /\ has_read' = has_read + ret
    <2>1. Follows(utterance)'
      <3>1. Taken(utterance)' = 2 * H + r + ret
        <4>1. pc' \in Collecting BY <1>14 DEF Collecting, Reading
        <4>2. Taken(utterance)' = 2 * H + (r + ret) BY <1>1, <1>5, <1>14, <4>1 DEF Taken
        <4> QED BY <1>6, <4>2
      <3>2. ASSUME NEW i \in 1 .. W - ret
            PROVE  wire'[utterance][i] = SentByte(utterance, 2 * H + r + ret + i)
        <4>1. ret + i \in 1 .. W /\ 2 * H + r + (ret + i) = 2 * H + r + ret + i BY <1>6
        <4> QED BY <1>7, <1>10, <4>1
      <3>3. 2 * H + r + ret + (W - ret) = 2 * H + r + W BY <1>6
      <3> QED BY <1>1, <1>5, <1>7, <1>10, <3>1, <3>2, <3>3 DEF Follows, SentByte
    <2>2. Stream' BY <1>1, <1>12, <2>1 DEF Stream
    <2>3. Collects'
      <3>1. ASSUME NEW i \in 1 .. r + ret
            PROVE  samp_buf'[i] = SentByte(utterance, 2 * H + i)
        <4>1. i \in 1 .. BufBytes BY <1>4, <1>6
        <4>2. samp_buf'[i] = IF i - r \in 1 .. ret
                             THEN SubSeq(wire[client_desc], 1, ret)[i - r] ELSE samp_buf[i]
          BY <1>2, <1>5, <1>7, <4>1 DEF ReadsBytes, Store
        <4>3. CASE i <= r
          <5>1. i \in 1 .. r /\ ~(i - r \in 1 .. ret) BY <4>3
          <5>2. samp_buf[i] = SentByte(utterance, 2 * H + i)
            BY <1>1, <1>5, <5>1 DEF IInv, Data, Collects, Collecting, Reading
          <5> QED BY <4>2, <5>1, <5>2
        <4>4. CASE ~(i <= r)
          <5>1. i - r \in 1 .. ret /\ i - r \in 1 .. W /\ 2 * H + r + (i - r) = 2 * H + i
            BY <1>6, <4>4
          <5> QED BY <1>7, <1>10, <4>2, <5>1
        <4> QED BY <4>3, <4>4
      <3> QED BY <1>1, <1>5, <1>14, <3>1 DEF Collects, SentByte
    <2>4. Complete'
      <3>1. ret = ToRead => has_read' = BufBytes BY <1>4, <1>14, <1>6 DEF ToRead
      <3> QED BY <1>14, <3>1 DEF Complete, BufBytes
    <2>5. Ended' BY <1>14 DEF Ended
    <2> QED BY <1>11, <2>2, <2>3, <2>4, <2>5 DEF Data
  <1> QED BY <1>2, <1>13, <1>14 DEF ReadsBytes

LEMMA ReadNothingData ==
  ASSUME IInv, ReadNothing PROVE Data'
  <1>1. /\ UNCHANGED <<sent, utterance, heard, samp_buf, has_read>> /\ pc = "read"
        /\ wire[client_desc] = <<>>
        /\ \/ Disconnect /\ pc' = "false" /\ why' = "errno"
           \/ /\ pc' = IF has_read > 0 THEN "true" ELSE "false"
              /\ why' = "end" /\ UNCHANGED <<peer, wire>>
    BY DEF ReadNothing, Return, callerVars, chunkVars
  <1>2. utterance \in Conn /\ client_desc = utterance BY <1>1, ServedClient DEF IInv, Reading
  <1>3. CASE Disconnect /\ pc' = "false" /\ why' = "errno"
    BY <1>1, <1>3, ReleaseData DEF Reading
  <1>4. CASE /\ pc' = IF has_read > 0 THEN "true" ELSE "false"
             /\ why' = "end" /\ UNCHANGED <<peer, wire>>
    <2>1. wire[utterance] = <<>> /\ peer[utterance] \in {"closed", "reset"}
      BY <1>1, <1>2 DEF IInv, Data, Complete, Readable
    <2>2. HeardIsSent' BY <1>1 DEF IInv, Data, HeardIsSent
    <2>3. Stream'
      <3> SUFFICES ASSUME NEW d \in Conn, d # utterance \/ pc' # "false" PROVE Follows(d)'
        BY <1>1 DEF Stream
      <3>1. Follows(d) BY <1>1 DEF IInv, Data, Stream
      <3>2. Taken(d)' = Taken(d) BY <1>1, <1>4 DEF Taken, Collecting, Reading
      <3> QED BY <1>1, <1>4, <3>1, <3>2, SameFollows
    <2>4. Collects' BY <1>1 DEF IInv, Data, Collects, SentByte, Collecting, Reading
    <2>5. Complete' BY <1>1, <1>4, <2>1 DEF Complete
    <2>6. Ended'
      <3> SUFFICES ASSUME pc' = "false" PROVE Ended' BY DEF Ended
      <3>1. PICK S \in Nat, H \in Nat :
              S = Len(sent[utterance]) /\ H = Len(heard[utterance]) /\ has_read \in Nat /\ BufBytes \in Nat
        BY <1>2, Sizes DEF IInv
      <3>2. has_read = 0 BY <1>4, <3>1
      <3>3. Len(wire[utterance]) = 0 /\ Taken(utterance) = 2 * H + 0
        BY <1>1, <2>1, <3>1, <3>2, EmptySeq DEF Taken, Collecting, Reading
      <3>4. peer[utterance] = "closed" => Taken(utterance) + 0 = 2 * S
        BY <1>1, <1>2, <3>1, <3>3 DEF IInv, Data, Stream, Follows
      <3>5. peer[utterance] = "closed" => S = H BY <3>1, <3>3, <3>4
      <3> QED BY <1>1, <1>4, <2>1, <3>1, <3>5 DEF Ended
    <2> QED BY <2>2, <2>3, <2>4, <2>5, <2>6 DEF Data
  <1> QED BY <1>1, <1>3, <1>4

LEMMA EndOfAudioData ==
  ASSUME IInv, EndOfAudio PROVE Data'
  <1>1. /\ pc = "false" /\ pc' = "accept" /\ Disconnect /\ UNCHANGED <<sent, heard>>
        /\ utterance \in Conn
    BY ServedClient DEF EndOfAudio, IInv, Outer
  <1>2. /\ peer'[utterance] = "gone" /\ wire'[utterance] = <<>>
        /\ \A c \in Conn \ {utterance} : peer'[c] = peer[c] /\ wire'[c] = wire[c]
    BY <1>1, TcpAssumption DEF Disconnect, IInv, TypeOK, Served, Waiting, Outer
  <1>3. HeardIsSent' BY <1>1 DEF IInv, Data, HeardIsSent
  <1>4. Stream'
    <2> SUFFICES ASSUME NEW d \in Conn PROVE Follows(d)' BY DEF Stream
    <2>1. Taken(d)' = Taken(d) BY <1>1 DEF Taken, Collecting, Reading
    <2>2. CASE d # utterance
      <3>1. Follows(d) BY <2>2 DEF IInv, Data, Stream
      <3> QED BY <1>1, <1>2, <2>1, <2>2, <3>1, SameFollows
    <2>3. CASE d = utterance
      <3>1. PICK S \in Nat, H \in Nat : S = Len(sent[d]) /\ H = Len(heard[d]) BY Sizes DEF IInv
      <3>2. Taken(d) = 2 * H + 0 BY <1>1, <3>1 DEF Taken, Collecting, Reading
      <3>3. H <= S BY <3>1 DEF IInv, Data, HeardIsSent
      <3>4. Taken(d)' \in Nat /\ Taken(d)' <= 2 * Len(sent'[d]) BY <1>1, <2>1, <3>1, <3>2, <3>3
      <3> QED BY <1>2, <2>3, <3>4, EmptyFollows
    <2> QED BY <2>2, <2>3
  <1>5. Collects' /\ Complete' /\ Ended'
    BY <1>1 DEF Collects, Complete, Ended, Collecting, Reading
  <1> QED BY <1>3, <1>4, <1>5 DEF Data

\* The chunk is the next stretch of the samples: an odd byte is left out only where
\* nothing can follow it.
LEMMA GetChunkData ==
  ASSUME IInv, GetChunk PROVE Data'
  <1> DEFINE chunk == [i \in 1 .. Available |-> SampleAt(samp_buf, i)]
  <1>1. /\ pc = "true" /\ pc' = "start"
        /\ UNCHANGED <<peer, sent, wire, utterance, samp_buf, has_read>>
        /\ heard' = [heard EXCEPT ![utterance] = heard[utterance] \o chunk]
    BY DEF GetChunk, clientVars, chunkVars
  <1>2. utterance \in Conn BY <1>1, ServedClient DEF IInv, Outer
  <1>3. /\ heard[utterance] \in Seq(Int16Range) /\ chunk \in Seq(Int16Range)
        /\ sent[utterance] \in Seq(Sample) /\ Sample \subseteq Int16Range
    BY <1>2, Sizes, ChunkTyped, TcpAssumption DEF IInv
  <1>4. PICK S \in Nat, H \in Nat, W \in Nat, A \in Nat :
          /\ S = Len(sent[utterance]) /\ H = Len(heard[utterance])
          /\ W = Len(wire[utterance]) /\ A = Available
    BY <1>2, Sizes, ChunkTyped DEF IInv
  <1>5. PICK r \in Nat : r = has_read /\ r <= BufBytes /\ 2 * A <= r /\ r <= 2 * A + 1
    <2>1. has_read \in Nat /\ has_read <= BufBytes BY <1>2, Sizes DEF IInv
    <2>2. 2 * Available <= has_read /\ has_read <= 2 * Available + 1 BY <2>1 DEF Available
    <2> QED BY <1>4, <2>1, <2>2
  <1>6. Follows(utterance) /\ Taken(utterance) = 2 * H + r
    BY <1>1, <1>2, <1>4, <1>5 DEF IInv, Data, Stream, Taken, Collecting
  <1>7. /\ 2 * H + r + W <= 2 * S
        /\ peer[utterance] \in {"new", "up", "closed"} => 2 * H + r + W = 2 * S
    BY <1>4, <1>6 DEF Follows
  <1>8. ASSUME NEW i \in 1 .. A
        PROVE  H + i \in 1 .. S /\ SampleAt(samp_buf, i) = sent[utterance][H + i]
    <2>1. H + i \in 1 .. S BY <1>5, <1>7
    <2>2. 2 * i - 1 \in 1 .. r /\ 2 * i \in 1 .. r BY <1>5
    <2>3. /\ samp_buf[2 * i - 1] = ByteOf(sent[utterance], 2 * H + (2 * i - 1))
          /\ samp_buf[2 * i] = ByteOf(sent[utterance], 2 * H + 2 * i)
      BY <1>1, <1>4, <1>5, <2>2 DEF IInv, Data, Collects, Collecting, SentByte
    <2>4. /\ 2 * H + (2 * i - 1) = 2 * (H + i) - 1 /\ 2 * H + 2 * i = 2 * (H + i)
          /\ H + i \in Nat \ {0}
      OBVIOUS
    <2>5. /\ samp_buf[2 * i - 1] = sent[utterance][H + i] % 256
          /\ samp_buf[2 * i] = (sent[utterance][H + i] \div 256) % 256
      BY <2>3, <2>4, ByteOfPair
    <2>6. sent[utterance][H + i] \in Int16Range BY <1>3, <1>4, <2>1
    <2> QED BY <2>1, <2>5, <2>6, Int16OfBytes DEF SampleAt
  <1>9. /\ Len(heard'[utterance]) = H + A /\ \A d \in Conn \ {utterance} : heard'[d] = heard[d]
        /\ \A i \in 1 .. H : heard'[utterance][i] = heard[utterance][i]
        /\ \A i \in 1 .. A : heard'[utterance][H + i] = SampleAt(samp_buf, i)
    <2>1. Len(chunk) = A /\ \A i \in 1 .. A : chunk[i] = SampleAt(samp_buf, i) BY <1>4
    <2> HIDE DEF chunk
    <2>2. PICK h \in Seq(Int16Range), k \in Seq(Int16Range) : h = heard[utterance] /\ k = chunk BY <1>3
    <2>3. /\ Len(h \o k) = Len(h) + Len(k)
          /\ \A i \in 1 .. Len(h) + Len(k) : (h \o k)[i] = IF i <= Len(h) THEN h[i] ELSE k[i - Len(h)]
      BY ConcatProperties
    <2>4. heard'[utterance] = h \o k /\ \A d \in Conn \ {utterance} : heard'[d] = heard[d]
      BY <1>1, <1>2, <2>2 DEF IInv, TypeOK
    <2>5. Len(h) = H /\ Len(k) = A BY <1>4, <2>1, <2>2
    <2>6. ASSUME NEW i \in 1 .. H PROVE heard'[utterance][i] = heard[utterance][i]
      <3>1. i \in 1 .. H + A /\ i <= H OBVIOUS
      <3> QED BY <2>2, <2>3, <2>4, <2>5, <3>1
    <2>7. ASSUME NEW i \in 1 .. A PROVE heard'[utterance][H + i] = SampleAt(samp_buf, i)
      <3>1. H + i \in 1 .. H + A /\ ~(H + i <= H) /\ H + i - H = i OBVIOUS
      <3>2. (h \o k)[H + i] = k[i] BY <2>3, <2>5, <3>1
      <3> QED BY <2>1, <2>2, <2>4, <3>2
    <2> QED BY <2>3, <2>4, <2>5, <2>6, <2>7
  <1>10. HeardIsSent'
    <2> SUFFICES ASSUME NEW d \in Conn
                 PROVE  /\ Len(heard'[d]) <= Len(sent[d])
                        /\ \A i \in 1 .. Len(heard'[d]) : heard'[d][i] = sent[d][i]
      BY <1>1 DEF HeardIsSent
    <2>1. /\ Len(heard[d]) <= Len(sent[d])
          /\ \A i \in 1 .. Len(heard[d]) : heard[d][i] = sent[d][i]
      BY DEF IInv, Data, HeardIsSent
    <2>2. CASE d # utterance BY <1>9, <2>1, <2>2
    <2>3. CASE d = utterance
      <3>1. H + A <= S BY <1>5, <1>7
      <3>2. ASSUME NEW i \in 1 .. H + A PROVE heard'[d][i] = sent[d][i]
        <4>1. CASE i <= H
          <5>1. i \in 1 .. H BY <4>1
          <5> QED BY <1>4, <1>9, <2>1, <2>3, <5>1
        <4>2. CASE ~(i <= H)
          <5>1. PICK j \in 1 .. A : i = H + j
            <6>1. i - H \in 1 .. A /\ i = H + (i - H) BY <4>2
            <6> QED BY <6>1
          <5> QED BY <1>8, <1>9, <2>3, <5>1
        <4> QED BY <4>1, <4>2
      <3> QED BY <1>4, <1>9, <2>3, <3>1, <3>2
    <2> QED BY <2>2, <2>3
  <1>11. Stream'
    <2> SUFFICES ASSUME NEW d \in Conn PROVE Follows(d)' BY DEF Stream
    <2>1. Follows(d) BY <1>1 DEF IInv, Data, Stream
    <2>2. CASE d # utterance
      <3>1. Taken(d)' = Taken(d) BY <1>1, <1>9, <2>2 DEF Taken
      <3> QED BY <1>1, <2>1, <3>1, SameFollows
    <2>3. CASE d = utterance
      <3>1. Taken(d)' = 2 * (H + A) + 0 BY <1>1, <1>9, <2>3 DEF Taken, Collecting, Reading
      <3>2. CASE r = 2 * A
        <4>1. Taken(d)' = Taken(d) BY <1>6, <2>3, <3>1, <3>2
        <4> QED BY <1>1, <2>1, <4>1, SameFollows
      <3>3. CASE r # 2 * A
        <4>1. r = 2 * A + 1 BY <1>5, <3>3
        <4>2. r # BufBytes
          <5>1. BufBytes = 2 * ChunkLen /\ ChunkLen \in Nat BY TcpAssumption DEF BufBytes
          <5> QED BY <4>1, <5>1
        <4>3. wire[d] = <<>> /\ peer[d] \in {"closed", "reset", "gone"}
          BY <1>1, <1>5, <2>3, <4>2 DEF IInv, Data, Complete
        <4>4. W = 0 BY <1>4, <2>3, <4>3, EmptySeq
        <4>5. peer[d] # "closed" BY <1>7, <2>3, <4>1, <4>4
        <4>6. Taken(d)' \in Nat /\ Taken(d)' <= 2 * S BY <1>7, <3>1, <4>1, <4>4
        <4> QED BY <1>1, <1>4, <2>3, <4>3, <4>5, <4>6, EmptyFollows
      <3> QED BY <3>2, <3>3
    <2> QED BY <2>2, <2>3
  <1>12. Collects' /\ Complete' /\ Ended'
    BY <1>1 DEF Collects, Complete, Ended, Collecting, Reading
  <1> QED BY <1>10, <1>11, <1>12 DEF Data

\* Every step keeps Data.
LEMMA StepData == ASSUME IInv, [Next]_vars PROVE Data'
  <1>1. CASE OutputConnects \/ UNCHANGED vars
    <2>1. UNCHANGED <<peer, sent, wire, samp_buf, has_read, pc, utterance, heard, why>>
      BY <1>1 DEF OutputConnects, vars, clientVars, chunkVars, callerVars
    <2>2. Stream'
      <3> SUFFICES ASSUME NEW d \in Conn, d # utterance \/ pc # "false" PROVE Follows(d)'
        BY <2>1 DEF Stream
      <3>1. Follows(d) BY DEF IInv, Data, Stream
      <3>2. Taken(d)' = Taken(d) BY <2>1 DEF Taken
      <3> QED BY <2>1, <3>1, <3>2, SameFollows
    <2>3. HeardIsSent' /\ Collects' BY <2>1 DEF IInv, Data, HeardIsSent, Collects, SentByte
    <2>4. Complete' /\ Ended'
      BY <2>1 DEF IInv, Data, Complete, Ended, Readable, BufBytes
    <2> QED BY <2>2, <2>3, <2>4 DEF Data
  <1>2. CASE Client BY <1>2, ConnectData, SendData, CloseData DEF Client
  <1>3. CASE Decoder
    BY <1>3, OuterData, ReadChunkData, SelectData, PollData, ReadBytesData, ReadNothingData,
       GetChunkData, EndOfAudioData
    DEF Decoder
  <1> QED BY <1>1, <1>2, <1>3 DEF Next

-----------------------------------------------------------------------------
(* What is lost                                                             *)

\* The numbers of bytes.
LEMMA LostSizes ==
  ASSUME TypeOK, NEW c \in Conn
  PROVE  got[c] \in Nat /\ Len(heard[c]) \in Nat /\ Unheard(c) \in Int /\ Held \in Nat
  <1>1. got[c] \in Nat /\ Len(heard[c]) \in Nat /\ has_read \in Nat BY Sizes DEF TypeOK
  <1> QED BY <1>1 DEF Unheard, Held

\* A step in which nothing is read and nothing is heard.
LEMMA SameLost ==
  ASSUME Lost, UNCHANGED <<got, heard, utterance>>,
         \A d \in Conn : Exhausted(d) => Exhausted(d)',
         \A d \in Conn : peer'[d] # "gone" => peer[d] # "gone",
         pc' # "false" => pc # "false" /\ Held' = Held
  PROVE  Lost'
  <1>1. \A d \in Conn : Unheard(d)' = Unheard(d) BY DEF Unheard
  <1> QED BY <1>1 DEF Lost, BufBytes

\* The clients, and the steps of the decoder around read().
LEMMA QuietLost ==
  ASSUME IInv, \/ Client \/ OutputConnects \/ UNCHANGED vars
               \/ Accept \/ AcceptThrows \/ AcceptInterrupted \/ (CheckFST /\ ~decode_fst)
               \/ ReadChunk \/ Select \/ Poll \/ ReadNothing
  PROVE  Lost'
  <1>1. UNCHANGED <<got, heard, utterance>>
    BY DEF Client, ClientConnect, ClientSend, ClientClose, OutputConnects, vars, Accept,
           AcceptThrows, AcceptInterrupted, CheckFST, ReadChunk, Select, Poll, ReadNothing, callerVars
  <1>2. pc' # "false" => pc # "false" /\ Held' = Held
    <2>1. CASE Client \/ OutputConnects \/ UNCHANGED vars
      BY <2>1 DEF Client, ClientConnect, ClientSend, ClientClose, OutputConnects, vars, chunkVars, Held
    <2>2. CASE Accept \/ AcceptThrows \/ AcceptInterrupted \/ (CheckFST /\ ~decode_fst)
      BY <2>2 DEF Accept, AcceptThrows, AcceptInterrupted, CheckFST, chunkVars, Held, Collecting,
                  Reading
    <2>3. CASE ReadChunk BY <2>3 DEF ReadChunk, Return, Held, Collecting, Reading
    <2>4. CASE Select \/ Poll \/ ReadNothing
      BY <2>4 DEF Select, Poll, ReadNothing, Return, chunkVars, Held, Collecting, Reading
    <2> QED BY <2>1, <2>2, <2>3, <2>4
  <1>3. \A d \in Conn : Exhausted(d) => Exhausted(d)'
    <2> SUFFICES ASSUME NEW d \in Conn, Exhausted(d) PROVE Exhausted(d)' OBVIOUS
    <2>1. CASE Client
      <3>1. PICK c \in Conn : ClientConnect(c) \/ ClientSend(c) \/ ClientClose(c)
        BY <2>1 DEF Client
      <3>2. c # d BY <3>1 DEF ClientConnect, ClientSend, ClientClose, Exhausted
      <3> QED BY <3>1, <3>2 DEF ClientConnect, ClientSend, ClientClose, Exhausted, IInv, TypeOK
    <2>2. CASE Poll \/ ReadNothing
      <3>1. UNCHANGED <<peer, wire>> \/ Disconnect BY <2>2 DEF Poll, ReadNothing
      <3>2. CASE Disconnect BY <3>2 DEF Disconnect, Exhausted, IInv, TypeOK
      <3> QED BY <3>1, <3>2 DEF Exhausted
    <2>3. CASE ~(Client \/ Poll \/ ReadNothing)
      BY <2>3 DEF OutputConnects, vars, Accept, AcceptThrows, AcceptInterrupted, CheckFST, ReadChunk,
                  Select, clientVars, Exhausted
    <2> QED BY <2>1, <2>2, <2>3
  <1>4. \A d \in Conn : peer'[d] # "gone" => peer[d] # "gone"
    <2> SUFFICES ASSUME NEW d \in Conn, peer[d] = "gone" PROVE peer'[d] = "gone" OBVIOUS
    <2>1. CASE Client
      BY <2>1 DEF Client, ClientConnect, ClientSend, ClientClose, IInv, TypeOK
    <2>2. CASE Poll \/ ReadNothing
      BY <2>2 DEF Poll, ReadNothing, Disconnect, IInv, TypeOK
    <2>3. CASE ~(Client \/ Poll \/ ReadNothing)
      BY <2>3 DEF OutputConnects, vars, Accept, AcceptThrows, AcceptInterrupted, CheckFST, ReadChunk,
                  Select, clientVars
    <2> QED BY <2>1, <2>2, <2>3
  <1> QED BY <1>1, <1>2, <1>3, <1>4, SameLost DEF IInv

\* Nothing has been read of a client whose utterance begins.
LEMMA StartLost == ASSUME IInv, CheckFST, decode_fst PROVE Lost'
  <1>1. /\ UNCHANGED <<peer, wire, heard, got>> /\ pc = "accepted" /\ pc' = "start"
        /\ utterance = None /\ utterance' = client_desc /\ client_desc \in Conn
        /\ peer[client_desc] # "gone"
    BY DEF CheckFST, IInv, Served, TypeOK, Outer, clientVars
  <1> SUFFICES ASSUME NEW c \in Conn
               PROVE  /\ Unheard(c)' <= BufBytes
                      /\ c # utterance' /\ peer'[c] # "gone" => got'[c] = 0
                      /\ c = utterance' => Exhausted(c)' \/ Unheard(c)' <= Held'
    BY <1>1 DEF Lost, BufBytes
  <1>2. c # utterance BY <1>1, TcpAssumption
  <1>3. Unheard(c)' = Unheard(c) /\ Unheard(c) <= BufBytes BY <1>1 DEF IInv, Lost, Unheard
  <1>4. peer[c] # "gone" => got[c] = 0 BY <1>2 DEF IInv, Lost
  <1>5. c = utterance' => Unheard(c) <= 0
    <2>1. Len(heard[c]) \in Nat BY LostSizes DEF IInv
    <2> QED BY <1>1, <1>4, <2>1 DEF Unheard
  <1>6. Held' = 0 BY <1>1 DEF Held, Collecting, Reading
  <1> QED BY <1>1, <1>3, <1>4, <1>5, <1>6

\* The bytes go to the chunk, or are lost with it.
LEMMA ReadBytesLost == ASSUME IInv, ReadBytes PROVE Lost'
  <1>1. pc = "read" /\ UNCHANGED <<peer, client_desc, utterance, heard>>
    BY ReadBytesIs DEF clientVars, callerVars
  <1>2. PICK ret \in 1 .. ToRead : ReadsBytes(ret) BY ReadBytesIs
  <1>3. utterance \in Conn /\ client_desc = utterance BY <1>1, ServedClient DEF IInv, Reading
  <1>4. /\ has_read \in Nat /\ BufBytes \in Nat /\ got[utterance] \in Nat
        /\ Len(heard[utterance]) \in Nat /\ Len(wire[utterance]) \in Nat
    BY <1>3, Sizes, LostSizes DEF IInv
  <1>5. ret \in Nat /\ has_read + ret <= BufBytes BY <1>4 DEF ToRead
  <1>6. wire[utterance] # <<>>
    <2>1. ret <= Len(wire[utterance]) /\ ret >= 1 BY <1>2, <1>3, <1>4 DEF ReadsBytes, ToRead
    <2>2. Len(wire[utterance]) # 0 BY <1>4, <1>5, <2>1
    <2> QED BY <2>2, EmptySeq
  <1>7. got[utterance] - 2 * Len(heard[utterance]) <= has_read
    BY <1>1, <1>3, <1>6 DEF IInv, Lost, Exhausted, Unheard, Held, Collecting, Reading
  <1>8. /\ got'[utterance] = got[utterance] + ret
        /\ \A d \in Conn \ {utterance} : got'[d] = got[d] /\ wire'[d] = wire[d]
    BY <1>2, <1>3 DEF ReadsBytes, IInv, TypeOK
  <1>9. PICK u \in Int : u = Unheard(utterance)' /\ u <= has_read + ret /\ u <= BufBytes
    <2>1. got'[utterance] - 2 * Len(heard'[utterance]) \in Int BY <1>1, <1>4, <1>5, <1>8
    <2>2. got'[utterance] - 2 * Len(heard'[utterance]) <= has_read + ret
      BY <1>1, <1>4, <1>5, <1>7, <1>8
    <2>3. got'[utterance] - 2 * Len(heard'[utterance]) <= BufBytes BY <1>4, <1>5, <2>1, <2>2
    <2>4. Unheard(utterance)' = got'[utterance] - 2 * Len(heard'[utterance]) BY <1>1 DEF Unheard
    <2> QED BY <2>1, <2>2, <2>3, <2>4
  <1>10. pc' # "false" => Held' = has_read + ret
    BY <1>2 DEF ReadsBytes, Held, Collecting, Reading
  <1> SUFFICES ASSUME NEW c \in Conn
               PROVE  /\ Unheard(c)' <= BufBytes
                      /\ c # utterance /\ peer[c] # "gone" => got'[c] = 0
                      /\ c = utterance /\ pc' # "false" => Unheard(c)' <= Held'
    BY <1>1 DEF Lost, BufBytes
  <1>11. CASE c = utterance
    <2>1. Unheard(c)' = u BY <1>1, <1>9, <1>11 DEF Unheard
    <2> QED BY <1>9, <1>10, <1>11, <2>1
  <1>12. CASE c # utterance
    <2>1. Unheard(c)' = Unheard(c) BY <1>1, <1>8, <1>12 DEF Unheard
    <2> QED BY <1>8, <1>12, <2>1 DEF IInv, Lost
  <1> QED BY <1>11, <1>12

\* Of what was collected all is heard, but for half a sample at the end.
LEMMA GetChunkLost == ASSUME IInv, GetChunk PROVE Lost'
  <1> DEFINE chunk == [i \in 1 .. Available |-> SampleAt(samp_buf, i)]
  <1>1. /\ pc = "true" /\ pc' = "start" /\ UNCHANGED <<peer, wire, utterance, got>>
        /\ heard' = [heard EXCEPT ![utterance] = heard[utterance] \o chunk]
    BY DEF GetChunk, clientVars
  <1>2. utterance \in Conn BY <1>1, ServedClient DEF IInv, Outer
  <1>3. PICK H \in Nat, A \in Nat, r \in Nat, g \in Nat, b \in Nat :
          /\ H = Len(heard[utterance]) /\ A = Available /\ r = has_read /\ g = got[utterance]
          /\ b = BufBytes
    BY <1>2, Sizes, LostSizes, ChunkTyped DEF IInv
  <1>4. 2 * A <= r /\ r <= 2 * A + 1 BY <1>3 DEF Available
  <1>5. Len(heard'[utterance]) = H + A /\ \A d \in Conn \ {utterance} : heard'[d] = heard[d]
    <2>1. heard[utterance] \in Seq(Int16Range) /\ chunk \in Seq(Int16Range) /\ Len(chunk) = A
      BY <1>2, <1>3, Sizes, ChunkTyped DEF IInv
    <2> HIDE DEF chunk
    <2>2. Len(heard[utterance] \o chunk) = Len(heard[utterance]) + Len(chunk)
      BY <2>1, ConcatProperties, Zenon
    <2>3. Len(heard[utterance] \o chunk) = H + A BY <1>3, <2>1, <2>2, Zenon
    <2> QED BY <1>1, <1>2, <2>3 DEF IInv, TypeOK
  <1>6. Unheard(utterance)' = g - 2 * (H + A) BY <1>1, <1>3, <1>5 DEF Unheard
  <1>7. g - 2 * H <= b BY <1>2, <1>3 DEF IInv, Lost, Unheard
  <1>8. Exhausted(utterance) \/ g - 2 * (H + A) <= 0
    <2>1. Exhausted(utterance) \/ g - 2 * H <= r
      BY <1>1, <1>2, <1>3 DEF IInv, Lost, Unheard, Held, Collecting
    <2>2. CASE r = 2 * A BY <2>1, <2>2
    <2>3. CASE r # 2 * A
      <3>1. r # BufBytes
        <4>1. r = 2 * A + 1 BY <1>4, <2>3
        <4>2. BufBytes = 2 * ChunkLen /\ ChunkLen \in Nat BY TcpAssumption DEF BufBytes
        <4> QED BY <4>1, <4>2
      <3> QED BY <1>1, <1>3, <3>1 DEF IInv, Data, Complete, Exhausted
    <2> QED BY <2>2, <2>3
  <1>9. Exhausted(utterance)' = Exhausted(utterance) /\ Held' = 0
    BY <1>1 DEF Exhausted, Held, Collecting, Reading
  <1> SUFFICES ASSUME NEW c \in Conn
               PROVE  /\ Unheard(c)' <= b
                      /\ c # utterance /\ peer[c] # "gone" => got[c] = 0
                      /\ c = utterance => Exhausted(c)' \/ Unheard(c)' <= Held'
    BY <1>1, <1>3 DEF Lost, BufBytes
  <1>10. CASE c = utterance
    <2>1. Unheard(c)' = g - 2 * (H + A) BY <1>1, <1>3, <1>5, <1>10 DEF Unheard
    <2>2. Exhausted(c)' = Exhausted(utterance) BY <1>1, <1>10 DEF Exhausted
    <2>3. g - 2 * (H + A) <= b BY <1>7
    <2> QED BY <1>8, <1>9, <1>10, <2>1, <2>2, <2>3
  <1>11. CASE c # utterance
    <2>1. Unheard(c)' = Unheard(c) BY <1>1, <1>5, <1>11 DEF Unheard
    <2> QED BY <1>3, <1>11, <2>1 DEF IInv, Lost
  <1> QED BY <1>10, <1>11

\* The client is released: nothing more is read of it.
LEMMA EndOfAudioLost == ASSUME IInv, EndOfAudio PROVE Lost'
  <1>1. /\ pc = "false" /\ Disconnect /\ UNCHANGED <<heard, got>> /\ utterance' = None
        /\ utterance \in Conn
    BY ServedClient DEF EndOfAudio, IInv, Outer
  <1>2. /\ peer'[utterance] = "gone" /\ \A d \in Conn \ {utterance} : peer'[d] = peer[d]
    BY <1>1, DisconnectIs DEF IInv, Outer
  <1> SUFFICES ASSUME NEW c \in Conn
               PROVE  Unheard(c)' <= BufBytes /\ (peer'[c] # "gone" => got'[c] = 0)
    BY <1>1, TcpAssumption DEF Lost, BufBytes
  <1>3. Unheard(c)' = Unheard(c) /\ Unheard(c) <= BufBytes BY <1>1 DEF IInv, Lost, Unheard
  <1>4. peer'[c] # "gone" => got'[c] = 0 BY <1>1, <1>2 DEF IInv, Lost
  <1> QED BY <1>3, <1>4

\* Every step keeps Lost.
LEMMA StepLost == ASSUME IInv, [Next]_vars PROVE Lost'
  BY QuietLost, StartLost, ReadBytesLost, GetChunkLost, EndOfAudioLost DEF Next, Decoder

-----------------------------------------------------------------------------
(* The theorems                                                             *)

\* Nothing has been sent yet.
LEMMA InitIInv == ASSUME Init PROVE IInv
  <1>1. BufBytes \in Nat /\ Uninitialised \in Byte
    BY TcpAssumption DEF BufBytes, Uninitialised, Byte
  <1>2. <<>> \in Seq(Sample) /\ <<>> \in Seq(Byte) /\ <<>> \in Seq(Conn) /\ <<>> \in Seq(Int16Range)
        /\ Len(<<>>) = 0
    BY EmptySeq
  <1>3. samp_buf \in [1 .. BufBytes -> Byte] BY <1>1 DEF Init
  <1>4. has_read \in 0 .. BufBytes BY <1>1 DEF Init
  <1>5. TypeOK BY <1>2, <1>3, <1>4 DEF Init, TypeOK
  <1>6. Served /\ Waiting BY <1>2 DEF Init, Served, Waiting, Outer, Reading
  <1>7. HeardIsSent BY <1>2 DEF Init, HeardIsSent
  <1>8. \A c \in Conn : Follows(c)
    <2> TAKE c \in Conn
    <2>1. Taken(c) = 0 /\ Len(wire[c]) = 0 /\ Len(sent[c]) = 0
      BY <1>2 DEF Init, Taken, Collecting, Reading
    <2> QED BY <2>1 DEF Follows
  <1>9. Collects /\ Complete /\ Ended BY DEF Init, Collects, Complete, Ended, Collecting, Reading
  <1>10. Lost
    <2>1. \A c \in Conn : got[c] = 0 /\ Len(heard[c]) = 0 BY <1>2 DEF Init
    <2>2. \A c \in Conn : Unheard(c) = 0 BY <2>1 DEF Unheard
    <2>3. Held = 0 BY DEF Init, Held, Collecting, Reading
    <2> QED BY <1>1, <2>1, <2>2, <2>3 DEF Lost
  <1> QED BY <1>5, <1>6, <1>7, <1>8, <1>9, <1>10 DEF IInv, Data, Stream

\* The invariant holds in every state, however the clients, read() and signals fall.
THEOREM Inductive == Spec => []IInv
  <1>1. ASSUME IInv, [Next]_vars PROVE IInv'
    <2>1. TypeOK' BY <1>1, StepTyped DEF IInv
    <2>2. Served' /\ Waiting' BY <1>1, ClientControl, DecoderControl DEF IInv, Next
    <2>3. Data' /\ Lost' BY <1>1, StepData, StepLost
    <2> QED BY <2>1, <2>2, <2>3 DEF IInv
  <1> QED BY <1>1, InitIInv, PTL DEF Spec

\* Every variable has its type, for any clients, samples and chunk length.
THEOREM TypeCorrect == Spec => []TypeOK
  <1>1. IInv => TypeOK BY DEF IInv
  <1> QED BY <1>1, Inductive, PTL

\* The decoder hears the samples of a client whole, in order and without a gap.
THEOREM HeardInOrderAlways == Spec => []HeardInOrder
  <1>1. ASSUME IInv PROVE HeardInOrder
    <2> SUFFICES ASSUME NEW c \in Conn PROVE heard[c] = SubSeq(sent[c], 1, Len(heard[c]))
      BY DEF HeardInOrder
    <2>1. heard[c] \in Seq(Int16Range) /\ sent[c] \in Seq(Int16Range)
      BY <1>1, Sizes, TcpAssumption DEF IInv, TypeOK
    <2>2. PICK H \in Nat : H = Len(heard[c]) /\ H <= Len(sent[c])
      BY <1>1, <2>1 DEF IInv, Data, HeardIsSent
    <2>3. \A i \in 1 .. H : heard[c][i] = sent[c][i] BY <1>1, <2>2 DEF IInv, Data, HeardIsSent
    <2>4. /\ SubSeq(sent[c], 1, H) \in Seq(Int16Range) /\ Len(SubSeq(sent[c], 1, H)) = H
          /\ \A i \in 1 .. H : SubSeq(sent[c], 1, H)[i] = sent[c][i]
      BY <2>1, <2>2, SubSeqProperties
    <2> QED BY <2>1, <2>2, <2>3, <2>4, SeqEqual
  <1> QED BY <1>1, Inductive, PTL

\* An orderly end of the stream finds everything heard.
THEOREM AllHeardAtEndAlways == Spec => []AllHeardAtEnd
  <1>1. ASSUME IInv, HeardInOrder PROVE AllHeardAtEnd
    <2> SUFFICES ASSUME pc = "false", why = "end", peer[utterance] = "closed"
                 PROVE  heard[utterance] = sent[utterance]
      BY DEF AllHeardAtEnd
    <2>1. utterance \in Conn BY <1>1, ServedClient DEF IInv, Outer
    <2>2. Len(heard[utterance]) = Len(sent[utterance]) BY <1>1 DEF IInv, Data, Ended
    <2>3. heard[utterance] = SubSeq(sent[utterance], 1, Len(sent[utterance]))
      BY <1>1, <2>1, <2>2 DEF HeardInOrder
    <2>4. sent[utterance] \in Seq(Sample) BY <1>1, <2>1, Sizes DEF IInv
    <2> QED BY <2>3, <2>4, SubSeqFull
  <1> QED BY <1>1, Inductive, HeardInOrderAlways, PTL

\* Of the bytes read() took from a client, those of one chunk at most are never heard,
\* with every exit of ReadChunk: end, reset, time-out, signal, errno and silence.
THEOREM LossBoundedAlways == Spec => []LossBounded
  <1>1. IInv => LossBounded BY DEF IInv, Lost, Unheard, LossBounded
  <1> QED BY <1>1, Inductive, PTL
=============================================================================
