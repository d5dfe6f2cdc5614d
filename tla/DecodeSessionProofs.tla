------------------------- MODULE DecodeSessionProofs --------------------------
(***************************************************************************)
(* The transcript of a connection tiles its audio: for chunks that add any *)
(* number of frames, any number of chunks, and a termination at any time.  *)
(*                                                                         *)
(* The properties speak about neighbouring messages; the invariant ties    *)
(* the last message to the counters the next one is made of.               *)
(***************************************************************************)
EXTENDS DecodeSession, TLAPS

Msg == [kind : {"partial", "final"}, beg : Nat, end : Nat]
Last == out[Len(out)]

InSegment == pc \in {"head", "read", "partial", "endpoint"}

\* The decoder is behind the pipeline, and a segment starts where the last ended.
Frames ==
  /\ base + decoded <= ready
  /\ frame_offset <= ready
  /\ InSegment => base = frame_offset /\ ~finalized
  /\ pc \in {"partial", "endpoint"} => ~eos

\* What the next message joins on to.
Front ==
  /\ out = <<>> => frame_offset = 0
  /\ out # <<>> /\ Last.kind = "final" => Last.end = frame_offset
  /\ out # <<>> /\ Last.kind = "partial" =>
       /\ base = frame_offset
       /\ Last.beg = base /\ Last.end <= base + decoded
       /\ pc # "init"
       /\ pc = "left" => terminateDecoder

Flushed ==
  pc \in {"left", "ended"} /\ eos /\ finalized =>
    /\ frame_offset = ready
    /\ ready > 0 => out # <<>> /\ Last.kind = "final"

IInv == TypeOK /\ TranscriptTiles /\ Frames /\ Front /\ Flushed

\* One more message keeps the tiling when it joins on to the last one.
LEMMA AppendTiles ==
  ASSUME out \in Seq(Msg), TranscriptTiles, NEW m \in Msg, m.beg < m.end,
         out = <<>> => m.beg = 0,
         out # <<>> /\ Last.kind = "final" => m.beg = Last.end,
         out # <<>> /\ Last.kind = "partial" => m.beg = Last.beg /\ m.end >= Last.end,
         out' = Append(out, m)
  PROVE  TranscriptTiles'
  <1>1. Len(out') = Len(out) + 1 /\ Len(out) \in Nat BY DEF Msg
  <1>2. \A i \in 1 .. Len(out) : out'[i] = out[i] BY DEF Msg
  <1>3. out'[Len(out) + 1] = m BY DEF Msg
  <1>4. \A i \in 1 .. Len(out) : out[i].kind \in {"partial", "final"}
    <2> TAKE i \in 1 .. Len(out)
    <2>1. out[i] \in Msg OBVIOUS
    <2> QED BY <2>1 DEF Msg
  <1>5. \A i \in 1 .. Len(out') : out'[i].beg < out'[i].end
    BY <1>1, <1>2, <1>3 DEF TranscriptTiles
  <1>6. out'[1].beg = 0
    <2>1. CASE out = <<>> BY <1>3, <2>1
    <2>2. CASE out # <<>> BY <1>1, <1>2, <2>2 DEF TranscriptTiles
    <2> QED BY <2>1, <2>2
  <1>7. ASSUME NEW i \in 1 .. Len(out') - 1
        PROVE  IF out'[i].kind = "final"
               THEN out'[i + 1].beg = out'[i].end
               ELSE out'[i + 1].beg = out'[i].beg /\ out'[i + 1].end >= out'[i].end
    <2>1. CASE i = Len(out)
      BY <1>1, <1>2, <1>3, <1>4, <2>1 DEF Last
    <2>2. CASE i < Len(out)
      BY <1>1, <1>2, <2>2 DEF TranscriptTiles
    <2> QED BY <1>1, <2>1, <2>2
  <1> QED BY <1>5, <1>6, <1>7 DEF TranscriptTiles

LEMMA InitIInv == Init => IInv
  <1> SUFFICES ASSUME Init PROVE IInv OBVIOUS
  <1> USE SessionAssumption DEF Init
  <1>1. TypeOK
    <2>1. /\ HalfSecond \in Nat /\ IntMax \in Nat /\ HalfSecond <= IntMax /\ MaxChunks \in Nat
          /\ out = <<>>
      OBVIOUS
    <2>2. out \in Seq([kind : {"partial", "final"}, beg : Nat, end : Nat]) BY <2>1
    <2>3. samp_count \in -IntMax - 1 .. IntMax /\ check_count \in -IntMax - 1 .. IntMax
      BY <2>1
    <2>4. chunks \in 0 .. MaxChunks /\ check_count \in Nat BY <2>1
    <2>5. /\ terminateDecoder \in BOOLEAN /\ eos \in BOOLEAN /\ finalized \in BOOLEAN
          /\ pc \in {"init", "head", "read", "partial", "endpoint", "left", "ended"}
      BY Zenon
    <2>6. frame_offset \in Nat /\ base \in Nat /\ decoded \in Nat /\ ready \in Nat OBVIOUS
    <2> HIDE DEF Init
    <2> QED BY <2>2, <2>3, <2>4, <2>5, <2>6, Zenon DEF TypeOK
  <1>2. TranscriptTiles BY DEF TranscriptTiles
  <1>3. Frames /\ Front /\ Flushed BY DEF Frames, Front, Flushed, InSegment
  <1> QED BY <1>1, <1>2, <1>3 DEF IInv

\* Steps that write no message.
LEMMA QuietIInv ==
  ASSUME IInv,
         \/ InitDecoding \/ ReadChunk \/ Terminated \/ Decode \/ NoEndpoint
         \/ LeaveInner \/ Terminate
  PROVE  IInv'
  <1>a. out' = out
    BY DEF InitDecoding, ReadChunk, Terminated, Decode, NoEndpoint, LeaveInner, Terminate
  <1>b. TranscriptTiles' BY <1>a DEF IInv, TranscriptTiles
  <1>c. TypeOK /\ Frames /\ Front /\ Flushed BY DEF IInv
  <1>d. UNCHANGED Last BY <1>a DEF Last
  <1>t. TypeOK'
    <2>o. out' \in Seq([kind : {"partial", "final"}, beg : Nat, end : Nat])
      BY <1>a, <1>c DEF TypeOK
    <2>b. (terminateDecoder \in BOOLEAN /\ eos \in BOOLEAN /\ finalized \in BOOLEAN)'
      BY <1>c, Zenon
      DEF TypeOK, decoder, InitDecoding, ReadChunk, Terminated, Decode, NoEndpoint,
          LeaveInner, Terminate
    <2> DEFINE Rest ==
          /\ pc \in {"init", "head", "read", "partial", "endpoint", "left", "ended"}
          /\ frame_offset \in Nat /\ base \in Nat /\ decoded \in Nat /\ ready \in Nat
          /\ samp_count \in -IntMax - 1 .. IntMax /\ check_count \in -IntMax - 1 .. IntMax
          /\ chunks \in 0 .. MaxChunks
    <2>r. Rest BY <1>c DEF TypeOK
    <2> USE SessionAssumption, <2>r DEF decoder, counters
    <2> SUFFICES Rest' BY <2>b, <2>o DEF TypeOK
    <2>1. CASE InitDecoding BY <2>1 DEF InitDecoding
    <2>2. CASE ReadChunk BY <2>2 DEF ReadChunk
    <2>3. CASE Terminated BY <2>3 DEF Terminated
    <2>4. CASE Decode
      <3>1. samp_count' \in -IntMax - 1 .. IntMax BY <2>4 DEF Decode, Plus
      <3>2. ready' \in Nat /\ decoded' \in Nat
        BY <1>c, <2>4 DEF Decode, Advance, Frames
      <3> QED BY <2>4, <3>1, <3>2 DEF Decode
    <2>5. CASE NoEndpoint BY <2>5 DEF NoEndpoint
    <2>6. CASE LeaveInner BY <2>6 DEF LeaveInner, AfterSegment
    <2>7. CASE Terminate BY <2>7 DEF Terminate
    <2> QED BY <2>1, <2>2, <2>3, <2>4, <2>5, <2>6, <2>7
  <1>f. (Frames /\ Front /\ Flushed)'
    <2> USE <1>a, <1>c, <1>d DEF Frames, Front, Flushed, InSegment, decoder, counters
    <2>0. /\ base \in Nat /\ decoded \in Nat /\ ready \in Nat /\ frame_offset \in Nat
          /\ out # <<>> => Last \in Msg /\ Last.beg < Last.end
      <3>1. out \in Seq(Msg) BY <1>c DEF TypeOK, Msg
      <3>2. out # <<>> => Len(out) \in 1 .. Len(out) BY <3>1
      <3>3. out # <<>> => Last \in Msg BY <3>1, <3>2 DEF Last
      <3> QED BY <1>c, <3>2, <3>3 DEF IInv, TypeOK, TranscriptTiles, Last
    <2>1. CASE InitDecoding BY <2>0, <2>1 DEF InitDecoding
    <2>2. CASE ReadChunk BY <2>0, <2>2 DEF ReadChunk
    <2>3. CASE Terminated BY <2>0, <2>3 DEF Terminated
    <2>4. CASE Decode BY <2>0, <2>4, SessionAssumption DEF Decode, Advance, Msg
    <2>5. CASE NoEndpoint BY <2>0, <2>5 DEF NoEndpoint
    <2>6. CASE LeaveInner BY <2>0, <2>6 DEF LeaveInner, AfterSegment
    <2>7. CASE Terminate BY <2>0, <2>7 DEF Terminate
    <2> QED BY <2>1, <2>2, <2>3, <2>4, <2>5, <2>6, <2>7
  <1> QED BY <1>b, <1>t, <1>f DEF IInv

\* Steps that may write one: the message has been joined to the last one before.
LEMMA MessageIInv ==
  ASSUME IInv, EndOfAudio \/ Refresh \/ Endpoint
  PROVE  IInv'
  <1>c. TypeOK /\ TranscriptTiles /\ Frames /\ Front /\ Flushed BY DEF IInv
  <1>m. out \in Seq(Msg) BY <1>c DEF TypeOK, Msg
  <1>n. /\ base \in Nat /\ decoded \in Nat /\ ready \in Nat /\ frame_offset \in Nat
        /\ samp_count \in -IntMax - 1 .. IntMax /\ check_count \in -IntMax - 1 .. IntMax
        /\ IntMax \in Nat /\ HalfSecond \in Nat /\ HalfSecond <= IntMax
    BY <1>c, SessionAssumption DEF TypeOK
  <1>l. out # <<>> => Last \in Msg /\ Last.beg \in Nat /\ Last.end \in Nat /\ Last.beg < Last.end
    <2>1. out # <<>> => Len(out) \in 1 .. Len(out) BY <1>m
    <2>2. out # <<>> => Last \in Msg BY <1>m, <2>1 DEF Last
    <2>3. \A x \in Msg : x.beg \in Nat /\ x.end \in Nat BY DEF Msg
    <2> QED BY <1>c, <2>1, <2>2, <2>3 DEF TranscriptTiles, Last
  <1>k. out # <<>> => Last.kind \in {"partial", "final"}
    <2>1. \A x \in Msg : x.kind \in {"partial", "final"} BY DEF Msg
    <2> QED BY <1>l, <2>1
  <1>s. base = frame_offset /\ ~finalized
    BY <1>c DEF Frames, InSegment, EndOfAudio, Refresh, Endpoint
  <1>d. decoded' \in Nat /\ decoded' >= decoded /\ ready' \in Nat /\ base' = base
        /\ base + decoded' <= ready'
    <2>1. CASE EndOfAudio
      BY <1>c, <1>n, <2>1, SessionAssumption DEF EndOfAudio, Advance, Frames
    <2>2. CASE Refresh BY <1>c, <1>n, <2>2 DEF Refresh, decoder, Frames
    <2>3. CASE Endpoint BY <1>c, <1>n, <2>3 DEF Endpoint, Frames
    <2> QED BY <2>1, <2>2, <2>3
  <1>j. /\ out = <<>> => base = 0
        /\ out # <<>> /\ Last.kind = "final" => base = Last.end
        /\ out # <<>> /\ Last.kind = "partial" => base = Last.beg /\ base + decoded' >= Last.end
    BY <1>c, <1>d, <1>l, <1>n, <1>s DEF Front
  \* A message joins on: its type, the tiling, and what Last becomes.
  <1>w. ASSUME NEW kind \in {"partial", "final"}, decoded' > 0, Message(kind, base, decoded')
        PROVE  /\ out' \in Seq(Msg) /\ TranscriptTiles' /\ out' # <<>>
               /\ Last'.kind = kind /\ Last'.beg = base /\ Last'.end = base + decoded'
    <2> DEFINE m == [kind |-> kind, beg |-> base, end |-> base + decoded']
    <2>0. decoded' > 0 BY <1>w, Zenon
    <2>a. base \in Nat /\ decoded' \in Nat BY <1>n, <1>d
    <2>1. base + decoded' \in Nat /\ base < base + decoded' 
      <3>1. \A b, d \in Nat : d > 0 => b + d \in Nat /\ b < b + d OBVIOUS
      <3> QED BY <2>0, <2>a, <3>1, Zenon
    <2>2. m \in Msg BY <1>n, <2>1 DEF Msg
    <2>3. m.kind = kind /\ m.beg = base /\ m.end = base + decoded' OBVIOUS
    <2>4. out' = Append(out, m) BY <1>w DEF Message
    <2> HIDE DEF m
    <2>5. out' \in Seq(Msg) /\ out' # <<>> /\ Last' = m BY <1>m, <2>2, <2>4 DEF Last
    <2>6. TranscriptTiles'
      <3>1. m.beg < m.end BY <2>1, <2>3
      <3>2. /\ out = <<>> => m.beg = 0
            /\ out # <<>> /\ Last.kind = "final" => m.beg = Last.end
            /\ out # <<>> /\ Last.kind = "partial" => m.beg = Last.beg /\ m.end >= Last.end
        BY <1>j, <2>3
      <3> QED BY <1>c, <1>m, <2>2, <2>4, <3>1, <3>2, AppendTiles
    <2> QED BY <2>3, <2>5, <2>6
  <1>q. out' = out => out' \in Seq(Msg) /\ TranscriptTiles' /\ Last' = Last
    BY <1>c, <1>m DEF TranscriptTiles, Last
  <1>p. \/ out' = out
        \/ decoded' > 0 /\ Message("partial", base, decoded')
        \/ decoded' > 0 /\ Message("final", base, decoded')
    BY DEF EndOfAudio, Refresh, Endpoint, decoder
  <1>1. out' \in Seq(Msg) /\ TranscriptTiles' BY <1>p, <1>q, <1>w
  <1>2. TypeOK'
    <2>1. (terminateDecoder \in BOOLEAN /\ eos \in BOOLEAN /\ finalized \in BOOLEAN)'
      BY <1>c, Zenon DEF TypeOK, decoder, EndOfAudio, Refresh, Endpoint
    <2>2. pc' \in {"init", "head", "read", "partial", "endpoint", "left", "ended"}
      BY DEF EndOfAudio, Refresh, Endpoint
    <2>3. frame_offset' \in Nat
      BY <1>d, <1>n DEF EndOfAudio, Refresh, Endpoint, decoder, SegmentEnd
    <2>4. samp_count' \in -IntMax - 1 .. IntMax /\ check_count' \in -IntMax - 1 .. IntMax
      BY <1>n DEF EndOfAudio, Refresh, Endpoint, counters, NextCheck, Plus
    <2>5. chunks' \in 0 .. MaxChunks
      BY <1>c DEF TypeOK, EndOfAudio, Refresh, Endpoint
    <2>6. out' \in Seq([kind : {"partial", "final"}, beg : Nat, end : Nat]) BY <1>1 DEF Msg
    <2>7. base' \in Nat /\ decoded' \in Nat /\ ready' \in Nat BY <1>d, <1>n
    <2> QED BY <2>1, <2>2, <2>3, <2>4, <2>5, <2>6, <2>7, Zenon DEF TypeOK
  <1>3. CASE EndOfAudio
    <2>1. /\ pc' = "left" /\ frame_offset' = frame_offset + decoded' /\ ready' = base + decoded'
          /\ finalized'
      BY <1>d, <1>n, <1>3 DEF EndOfAudio, Advance, SegmentEnd
    <2>2. CASE decoded' > 0
      <3>1. Message("final", base, decoded') BY <1>3, <2>2 DEF EndOfAudio
      <3>2. out' # <<>> /\ Last'.kind = "final" /\ Last'.end = base + decoded'
        BY <1>w, <2>2, <3>1
      <3>3. Front' /\ Flushed' /\ Frames'
        BY <1>d, <1>n, <1>s, <2>1, <3>2 DEF Front, Flushed, Frames, InSegment
      <3> QED BY <1>1, <1>2, <3>3 DEF IInv
    <2>3. CASE decoded' = 0
      <3>1. out' = out BY <1>3, <2>3 DEF EndOfAudio
      <3>2. out # <<>> => Last.kind = "final" BY <1>j, <1>k, <1>l, <1>n, <2>3
      <3>3. Front' /\ Flushed' /\ Frames'
        BY <1>d, <1>j, <1>n, <1>q, <1>s, <2>1, <2>3, <3>1, <3>2
        DEF Front, Flushed, Frames, InSegment
      <3> QED BY <1>1, <1>2, <3>3 DEF IInv
    <2> QED BY <1>d, <2>2, <2>3
  <1>4. CASE Refresh
    <2>1. /\ pc' = "endpoint" /\ frame_offset' = frame_offset /\ ready' = ready
          /\ decoded' = decoded /\ finalized' = finalized /\ eos' = eos /\ ~eos
      BY <1>c, <1>4 DEF Refresh, decoder, Frames
    <2>2. Frames' /\ Flushed'
      BY <1>c, <1>d, <1>s, <2>1 DEF Frames, Flushed, InSegment
    <2>3. out' = out => Front' BY <1>c, <1>d, <1>n, <1>l, <1>q, <1>s, <2>1 DEF Front
    <2>4. ASSUME decoded' > 0, Message("partial", base, decoded') PROVE Front'
      <3>1. out' # <<>> /\ Last'.kind = "partial" /\ Last'.beg = base /\ Last'.end = base + decoded'
        BY <1>w, <2>4
      <3> QED BY <1>d, <1>n, <1>s, <2>1, <3>1 DEF Front
    <2>5. out' = out \/ (decoded' > 0 /\ Message("partial", base, decoded'))
      BY <1>4 DEF Refresh, decoder
    <2>6. Front' BY <2>3, <2>4, <2>5
    <2> QED BY <1>1, <1>2, <2>2, <2>6 DEF IInv
  <1>5. CASE Endpoint
    <2>1. /\ pc' = "left" /\ frame_offset' = frame_offset + decoded' /\ ready' = ready
          /\ decoded' > 0 /\ Message("final", base, decoded') /\ eos' = eos /\ ~eos
      BY <1>c, <1>n, <1>5 DEF Endpoint, SegmentEnd, Frames
    <2>2. out' # <<>> /\ Last'.kind = "final" /\ Last'.end = base + decoded' BY <1>w, <2>1
    <2>3. Front' /\ Flushed' /\ Frames'
      BY <1>d, <1>n, <1>s, <2>1, <2>2 DEF Front, Flushed, Frames, InSegment
    <2> QED BY <1>1, <1>2, <2>3 DEF IInv
  <1> QED BY <1>3, <1>4, <1>5

-----------------------------------------------------------------------------
(* The theorems                                                             *)

\* The invariant holds in every state of every session.
THEOREM Inductive == Spec => []IInv
  <1>1. Init => IInv BY InitIInv
  <1>2. IInv /\ [Next]_vars => IInv'
    <2> SUFFICES ASSUME IInv, [Next]_vars PROVE IInv' OBVIOUS
    <2>1. CASE Next BY <2>1, QuietIInv, MessageIInv DEF Next, Session
    <2>2. CASE UNCHANGED vars
      BY <2>2 DEF vars, decoder, counters, IInv, TypeOK, TranscriptTiles, Frames, Front,
                  Flushed, InSegment, Last
    <2> QED BY <2>1, <2>2
  <1> QED BY <1>1, <1>2, PTL DEF Spec

\* Every variable has its type; the sample counters never leave int32.
THEOREM TypeCorrect == Spec => []TypeOK
  <1>1. IInv => TypeOK BY DEF IInv
  <1> QED BY <1>1, Inductive, PTL

\* The messages on the output socket cover the audio once, in order.
THEOREM TranscriptTilesAlways == Spec => []TranscriptTiles
  <1>1. IInv => TranscriptTiles BY DEF IInv
  <1> QED BY <1>1, Inductive, PTL

\* Audio that ends by itself is reported to its last frame.
THEOREM AllFramesReportedAlways == Spec => []AllFramesReported
  <1>1. IInv => AllFramesReported
    BY DEF IInv, TypeOK, Flushed, Front, Last, AllFramesReported
  <1> QED BY <1>1, Inductive, PTL

\* The decoder is never advanced after FinalizeDecoding.
THEOREM NoAdvanceAfterFinalizeAlways == Spec => []NoAdvanceAfterFinalize
  <1>1. IInv => NoAdvanceAfterFinalize
    BY DEF IInv, Frames, InSegment, NoAdvanceAfterFinalize
  <1> QED BY <1>1, Inductive, PTL

-----------------------------------------------------------------------------
(* Partial transcripts: how far the client can be behind.                   *)
(*                                                                          *)
(* samp_count and check_count are int32 and count the whole connection, so  *)
(* what follows is about the time before they wrap (CountersFit).           *)

\* The counters agree after every Refresh but the first, which is not due.
Rate ==
  /\ samp_count >= 0
  /\ samp_count + (IF pc = "read" /\ ~eos THEN HalfSecond ELSE 0) <= HalfSecond * chunks
  /\ IF pc = "partial"
     THEN samp_count = check_count \/ samp_count = check_count + HalfSecond
     ELSE samp_count = check_count \/ (samp_count = 0 /\ check_count = HalfSecond)

\* The decoder has decoded what the pipeline has, and the next segment starts there.
Abreast ==
  /\ pc \in {"init", "head"} => ~eos
  /\ InSegment => ready = base + decoded
  /\ pc = "init" => ready = frame_offset
  /\ pc = "left" => IF finalized THEN ready = frame_offset ELSE terminateDecoder

\* Frames the client has not heard about.
Covered ==
  /\ samp_count = 0 /\ ~eos => ready = 0
  /\ pc = "partial" /\ samp_count = check_count => ready <= MaxFrames
  /\ pc # "partial" => ready - Reported <= MaxFrames

RInv == IInv /\ (CountersFit => Rate /\ Abreast /\ Covered)

\* The samples of one chunk more.
LEMMA NextChunk ==
  ASSUME NEW n \in Nat
  PROVE  HalfSecond * n \in Nat /\ HalfSecond * (n + 1) = HalfSecond * n + HalfSecond
  <1>1. \A a, b, c \in Nat : a * b \in Nat /\ a * (b + c) = a * b + a * c OBVIOUS
  <1>2. HalfSecond \in Nat /\ 1 \in Nat BY SessionAssumption
  <1>3. HalfSecond * (n + 1) = HalfSecond * n + HalfSecond * 1 BY <1>1, <1>2
  <1> QED BY <1>1, <1>2, <1>3

\* Counters that fit after a step fitted before it.
LEMMA FitBefore ==
  ASSUME IInv, [Next]_vars, CountersFit'
  PROVE  CountersFit
  <1>1. chunks \in Nat /\ HalfSecond \in Nat /\ IntMax \in Nat
    BY SessionAssumption DEF IInv, TypeOK
  <1>2. chunks' = chunks \/ chunks' = chunks + 1
    BY DEF Next, Session, InitDecoding, ReadChunk, Terminated, EndOfAudio, Decode, Refresh,
       Endpoint, NoEndpoint, LeaveInner, Terminate, vars
  <1>3. HalfSecond * chunks \in Nat /\ HalfSecond * (chunks + 1) = HalfSecond * chunks + HalfSecond
    BY <1>1, NextChunk
  <1> DEFINE x == HalfSecond * chunks
             y == HalfSecond * (chunks + 1)
  <1>4. x \in Nat /\ y = x + HalfSecond BY <1>3
  <1>5. x <= IntMax \/ y <= IntMax BY <1>2 DEF CountersFit
  <1> HIDE DEF x, y
  <1>6. x <= IntMax BY <1>1, <1>4, <1>5
  <1> QED BY <1>6 DEF x, CountersFit

\* At the start the first partial transcript is due after one chunk.
LEMMA InitRInv == Init => RInv
  <1> SUFFICES ASSUME Init PROVE RInv OBVIOUS
  <1>1. Rate /\ Abreast /\ Covered
    BY SessionAssumption DEF Init, Rate, Abreast, Covered, InSegment, Reported
  <1> QED BY <1>1, InitIInv DEF RInv

\* When nothing of the segment is decoded, the last message ends where it starts;
\* when something is, the next message ends with it.
LEMMA ReportedFacts ==
  ASSUME IInv
  PROVE  /\ Reported \in Nat
         /\ InSegment /\ decoded = 0 => Reported = base
  <1>1. out \in Seq(Msg) BY DEF IInv, TypeOK, Msg
  <1>2. out # <<>> => Len(out) \in 1 .. Len(out) BY <1>1
  <1>3. out # <<>> => Last \in Msg BY <1>1, <1>2 DEF Last
  <1>4. out # <<>> => /\ Last.beg \in Nat /\ Last.end \in Nat /\ Last.beg < Last.end
                      /\ Last.kind \in {"partial", "final"}
    BY <1>2, <1>3 DEF IInv, TranscriptTiles, Last, Msg
  <1>5. Reported = IF out = <<>> THEN 0 ELSE Last.end BY DEF Reported, Last
  <1>6. base \in Nat /\ frame_offset \in Nat BY DEF IInv, TypeOK
  <1>7. InSegment => base = frame_offset BY DEF IInv, Frames
  <1> QED BY <1>4, <1>5, <1>6, <1>7 DEF IInv, Front

\* A message sent for the frames decoded is Reported afterwards.
LEMMA MessageReports ==
  ASSUME out \in Seq(Msg), NEW kind, Message(kind, base, decoded')
  PROVE  Reported' = base + decoded'
  <1> DEFINE m == [kind |-> kind, beg |-> base, end |-> base + decoded']
  <1>1. out' = Append(out, m) BY DEF Message
  <1>2. m.end = base + decoded' OBVIOUS
  <1> HIDE DEF m
  <1>3. out' # <<>> /\ out'[Len(out')] = m BY <1>1
  <1> QED BY <1>2, <1>3 DEF Reported

\* Every step keeps the counters and the frames in step.
LEMMA StepRInv == ASSUME RInv, [Next]_vars PROVE RInv'
  <1>0. IInv BY DEF RInv
  <1>p. IInv'
    <2>1. CASE Next BY <1>0, <2>1, QuietIInv, MessageIInv DEF Next, Session
    <2>2. CASE UNCHANGED vars
      BY <1>0, <2>2 DEF vars, decoder, counters, IInv, TypeOK, TranscriptTiles, Frames, Front,
                        Flushed, InSegment, Last
    <2> QED BY <2>1, <2>2
  <1> DEFINE G == Rate' /\ Abreast' /\ Covered'
  <1> SUFFICES ASSUME CountersFit' PROVE G BY <1>p DEF RInv
  <1>i. IInv /\ Rate /\ Abreast /\ Covered /\ CountersFit BY <1>0, FitBefore DEF RInv
  <1>n. /\ HalfSecond \in Nat /\ HalfSecond > 0 /\ MaxFrames \in Nat /\ IntMax \in Nat
        /\ chunks \in Nat /\ ready \in Nat /\ base \in Nat /\ decoded \in Nat
        /\ frame_offset \in Nat /\ samp_count \in Int /\ check_count \in Int
    BY <1>i, SessionAssumption DEF IInv, TypeOK
  <1>h. HalfSecond * chunks \in Nat /\ HalfSecond * chunks <= IntMax
    BY <1>i, <1>n, NextChunk DEF CountersFit
  <1>r. Reported \in Nat /\ (InSegment /\ decoded = 0 => Reported = base)
    BY <1>i, ReportedFacts
  <1>s. InSegment => base = frame_offset /\ ready = base + decoded /\ ~finalized
    BY <1>i DEF IInv, Frames, Abreast
  <1>m. out \in Seq(Msg) BY <1>i DEF IInv, TypeOK, Msg
  <1>q. out' = out => Reported' = Reported BY DEF Reported
  \* Steps that neither count nor decode.
  <1>1. ASSUME InitDecoding \/ Terminated \/ NoEndpoint \/ LeaveInner \/ Terminate
               \/ UNCHANGED vars
        PROVE  G
    <2>1. out' = out /\ samp_count' = samp_count /\ check_count' = check_count
          /\ chunks' = chunks /\ ready' = ready /\ eos' = eos
      BY <1>1 DEF InitDecoding, Terminated, NoEndpoint, LeaveInner, Terminate, vars, decoder,
                  counters
    <2>2. Rate'
      BY <1>1, <1>i, <1>n, <1>h, <2>1
      DEF Rate, InitDecoding, Terminated, NoEndpoint, LeaveInner, Terminate, vars, AfterSegment
    <2>3. Covered'
      BY <1>1, <1>i, <1>q, <2>1
      DEF Covered, InitDecoding, Terminated, NoEndpoint, LeaveInner, Terminate, vars,
          AfterSegment
    <2>4. Abreast'
      BY <1>1, <1>i, <1>n, <1>s, <2>1
      DEF Abreast, IInv, Frames, InSegment, InitDecoding, Terminated, NoEndpoint, LeaveInner,
          Terminate, vars, AfterSegment, decoder
    <2> QED BY <2>2, <2>3, <2>4
  <1>2. ASSUME ReadChunk PROVE G
    <2>1. pc = "head" /\ out' = out /\ samp_count' = samp_count /\ check_count' = check_count
          /\ ready' = ready /\ base' = base /\ decoded' = decoded /\ finalized' = finalized
          /\ frame_offset' = frame_offset /\ terminateDecoder' = terminateDecoder
      BY <1>2 DEF ReadChunk, decoder, counters
    <2>2. \/ pc' = "left" /\ terminateDecoder /\ eos' = eos /\ chunks' = chunks
          \/ pc' = "read" /\ eos' = FALSE /\ chunks' = chunks + 1 /\ chunks < MaxChunks
          \/ pc' = "read" /\ eos' = TRUE /\ chunks' = chunks
      BY <1>2 DEF ReadChunk
    <2>3. Rate'
      <3>1. CASE eos' = FALSE /\ chunks' = chunks + 1 /\ pc' = "read"
        <4>1. HalfSecond * chunks' = HalfSecond * chunks + HalfSecond
          BY <1>n, <3>1, NextChunk
        <4> HIDE DEF G
        <4> QED BY <1>i, <1>n, <1>h, <2>1, <3>1, <4>1 DEF Rate
      <3>2. CASE chunks' = chunks /\ (pc' = "left" \/ eos' = TRUE) /\ pc' # "partial"
        BY <1>i, <1>n, <1>h, <2>1, <3>2 DEF Rate
      <3> QED BY <2>2, <3>1, <3>2
    <2>4. Covered' BY <1>i, <1>n, <1>q, <2>1, <2>2 DEF Covered, Abreast
    <2>5. Abreast' BY <1>i, <1>s, <2>1, <2>2 DEF Abreast, InSegment
    <2> QED BY <2>3, <2>4, <2>5
  <1>3. ASSUME Decode PROVE G
    <2>1. pc = "read" /\ pc' = "partial" /\ ~eos /\ eos' = eos /\ check_count' = check_count
          /\ chunks' = chunks /\ base' = base
      BY <1>3 DEF Decode
    <2>2. samp_count + HalfSecond <= HalfSecond * chunks /\ samp_count >= 0 BY <1>i, <2>1 DEF Rate
    <2>3. samp_count' = samp_count + HalfSecond BY <1>3, <1>n, <1>h, <2>2 DEF Decode, Plus
    <2>4. PICK n \in 0 .. MaxFrames : ready' = ready + n /\ decoded' = ready' - base
      BY <1>3 DEF Decode, Advance
    <2>5. Rate' BY <1>i, <1>n, <1>h, <2>1, <2>2, <2>3 DEF Rate
    <2>6. Covered' BY <1>i, <1>n, <2>1, <2>2, <2>3, <2>4 DEF Covered, Rate
    <2>7. Abreast' BY <1>n, <2>1, <2>4 DEF Abreast, InSegment
    <2> QED BY <2>5, <2>6, <2>7
  <1>4. ASSUME Refresh PROVE G
    <2>1. pc = "partial" /\ pc' = "endpoint" /\ eos' = eos /\ samp_count' = samp_count
          /\ chunks' = chunks /\ ready' = ready /\ base' = base /\ decoded' = decoded /\ InSegment
      BY <1>4 DEF Refresh, decoder, InSegment
    <2>2. samp_count <= HalfSecond * chunks /\ samp_count >= 0
          /\ (samp_count = check_count \/ samp_count = check_count + HalfSecond)
      BY <1>i, <1>n, <1>h, <2>1 DEF Rate
    <2>3. CASE Due
      <3>1. check_count + HalfSecond = samp_count BY <1>n, <2>2, <2>3 DEF Due
      <3>2. check_count' = samp_count
        BY <1>4, <1>n, <1>h, <2>2, <2>3, <3>1 DEF Refresh, NextCheck, Plus
      <3>3. Reported' = ready
        <4>1. CASE decoded > 0
          BY <1>4, <1>m, <1>s, <2>1, <2>3, <4>1, MessageReports DEF Refresh
        <4>2. CASE decoded = 0
          <5>1. out' = out BY <1>4, <2>3, <4>2 DEF Refresh
          <5> QED BY <1>n, <1>q, <1>r, <1>s, <2>1, <4>2, <5>1
        <4> QED BY <1>n, <4>1, <4>2
      <3>4. Rate' BY <1>n, <1>h, <2>1, <2>2, <3>2 DEF Rate
      <3>5. Covered' BY <1>i, <1>n, <2>1, <3>3 DEF Covered
      <3>6. Abreast' BY <1>s, <2>1 DEF Abreast, InSegment
      <3> QED BY <3>4, <3>5, <3>6
    <2>4. CASE ~Due
      <3>1. samp_count = check_count /\ check_count' = check_count /\ out' = out
        BY <1>4, <1>n, <2>2, <2>4 DEF Refresh, Due
      <3>2. Rate' BY <1>n, <1>h, <2>1, <2>2, <3>1 DEF Rate
      <3>3. Covered' BY <1>i, <1>n, <1>q, <1>r, <2>1, <3>1 DEF Covered
      <3>4. Abreast' BY <1>s, <2>1 DEF Abreast, InSegment
      <3> QED BY <3>2, <3>3, <3>4
    <2> QED BY <2>3, <2>4
  <1>5. ASSUME Endpoint PROVE G
    <2>1. pc = "endpoint" /\ pc' = "left" /\ eos' = eos /\ samp_count' = samp_count
          /\ check_count' = check_count /\ chunks' = chunks /\ ready' = ready /\ finalized'
          /\ InSegment /\ frame_offset' = frame_offset + decoded' /\ decoded' = decoded
      BY <1>5 DEF Endpoint, counters, InSegment, SegmentEnd
    <2>2. Message("final", base, decoded') BY <1>5, <2>1 DEF Endpoint
    <2>3. Reported' = ready BY <1>m, <1>s, <2>1, <2>2, MessageReports
    <2>4. Rate' BY <1>i, <1>n, <1>h, <2>1 DEF Rate
    <2>5. Covered' BY <1>i, <1>n, <2>1, <2>3 DEF Covered
    <2>6. Abreast' BY <1>s, <2>1 DEF Abreast, InSegment
    <2> QED BY <2>4, <2>5, <2>6
  <1>6. ASSUME EndOfAudio PROVE G
    <2>1. pc = "read" /\ pc' = "left" /\ eos /\ eos' = eos /\ samp_count' = samp_count
          /\ check_count' = check_count /\ chunks' = chunks /\ base' = base /\ finalized'
          /\ InSegment /\ frame_offset' = frame_offset + decoded'
      BY <1>6 DEF EndOfAudio, counters, InSegment, SegmentEnd
    <2>2. PICK n \in 0 .. MaxFrames : ready' = ready + n /\ decoded' = ready' - base
      BY <1>6 DEF EndOfAudio, Advance
    <2>3. decoded' \in Nat /\ decoded' >= decoded /\ ready' = base + decoded'
      BY <1>n, <1>s, <2>1, <2>2
    <2>4. Reported' = ready'
      <3>1. CASE decoded' > 0
        <4>1. Message("final", base, decoded') BY <1>6, <3>1 DEF EndOfAudio
        <4> QED BY <1>m, <2>3, <4>1, MessageReports
      <3>2. CASE decoded' = 0
        <4>1. out' = out BY <1>6, <3>2 DEF EndOfAudio
        <4> QED BY <1>n, <1>q, <1>r, <2>1, <2>3, <3>2, <4>1
      <3> QED BY <2>3, <3>1, <3>2
    <2>5. Rate' BY <1>i, <1>n, <1>h, <2>1 DEF Rate
    <2>6. Covered'
      <3>1. eos' /\ pc' # "partial" BY <2>1
      <3>0. ready' \in Nat
        <4>1. \A b, d \in Nat : b + d \in Nat OBVIOUS
        <4> QED BY <1>n, <2>3, <4>1, Zenon
      <3>2. ready' - Reported' <= MaxFrames
        <4>1. \A r, f \in Nat : r - r <= f OBVIOUS
        <4> QED BY <1>n, <2>4, <3>0, <4>1
      <3> QED BY <3>1, <3>2 DEF Covered
    <2>7. Abreast' BY <1>n, <1>s, <2>1, <2>3 DEF Abreast, InSegment
    <2> QED BY <2>5, <2>6, <2>7
  <1> HIDE DEF G
  <1> QED BY <1>1, <1>2, <1>3, <1>4, <1>5, <1>6 DEF Next, Session

\* The rate of the partial transcripts, until samp_count overflows.
THEOREM RateInductive == Spec => []RInv
  <1>1. Init => RInv BY InitRInv
  <1>2. RInv /\ [Next]_vars => RInv' BY StepRInv
  <1> QED BY <1>1, <1>2, PTL DEF Spec

\* A partial transcript is due within two chunks, as long as samp_count has not
\* overflowed.
THEOREM RefreshDueAlways == Spec => []RefreshDue
  <1>1. RInv => RefreshDue
    BY SessionAssumption DEF RInv, IInv, TypeOK, Rate, RefreshDue
  <1> QED BY <1>1, RateInductive, PTL

\* A reload in the middle of an utterance leaves the client at most one chunk's
\* frames short, as long as samp_count has not overflowed.
THEOREM InterruptionLosesAChunkAlways == Spec => []InterruptionLosesAChunk
  <1>1. RInv => InterruptionLosesAChunk BY DEF RInv, Covered, InterruptionLosesAChunk
  <1> QED BY <1>1, RateInductive, PTL
=============================================================================
