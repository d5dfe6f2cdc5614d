---------------------------- MODULE DecodeSession ----------------------------
(***************************************************************************)
(* What thr_func makes of one connection's audio: the two inner loops of   *)
(* asrbridge_online.cc, from the construction of the decoder to the end of *)
(* the utterance.  Kaldi's decoder is external: it decodes every frame the *)
(* feature pipeline has, counted from the offset InitDecoding was given,   *)
(* and reports an endpoint only after a frame.                             *)
(*                                                                         *)
(* A message on the output socket is the span of frames its words stand    *)
(* for; a partial one ends in "\r" and a final one in "\n".                *)
(***************************************************************************)
EXTENDS Integers, Sequences

CONSTANTS
  HalfSecond,  \* samples of chunk_length_secs and of output_period
  IntMax,      \* largest int32
  MaxFrames,   \* bound: frames a chunk, or the flush at the end, can add
  MaxChunks    \* bound: chunks of the connection

ASSUME SessionAssumption ==
  /\ HalfSecond \in Nat \ {0}
  /\ IntMax \in Nat /\ HalfSecond <= IntMax
  /\ MaxFrames \in Nat /\ MaxChunks \in Nat

VARIABLES
  terminateDecoder,
  pc,            \* where the loops are
  eos,
  frame_offset,  \* frames of the segments that are over
  base,          \* the offset the decoder was initialised with
  decoded,       \* NumFramesDecoded()
  finalized,     \* FinalizeDecoding was called since InitDecoding
  ready,         \* frames the feature pipeline has
  samp_count, check_count,
  chunks,        \* chunks accepted
  out            \* messages written

counters == <<samp_count, check_count>>
decoder == <<base, decoded, finalized>>
vars == <<terminateDecoder, pc, eos, frame_offset, decoder, ready, counters, chunks, out>>

\* int32 addition as the builds do it.
Plus(x, y) == IF x > IntMax - y THEN x - IntMax - 1 + y - IntMax - 1 ELSE x + y

Init ==
  /\ terminateDecoder = FALSE
  /\ pc = "init"
  /\ eos = FALSE
  /\ frame_offset = 0
  /\ base = 0 /\ decoded = 0 /\ finalized = FALSE
  /\ ready = 0
  /\ samp_count = 0
  /\ check_count = HalfSecond
  /\ chunks = 0
  /\ out = <<>>

\* loadFST, at any time.
Terminate ==
  /\ ~terminateDecoder
  /\ terminateDecoder' = TRUE
  /\ UNCHANGED <<pc, eos, frame_offset, decoder, ready, counters, chunks, out>>

\* Mutant: AdvanceDecoding before the pipeline gets the audio.
AdvanceFirst == \E n \in 0 .. MaxFrames : ready' = ready + n /\ decoded' = ready - base

\* The pipeline gets audio, or InputFinished flushes it, and has n frames more;
\* AdvanceDecoding decodes whatever it has.
Advance == \E n \in 0 .. MaxFrames : ready' = ready + n /\ decoded' = ready' - base

\* Mutant: the frames of the connection for those of the segment.
SegmentEndAll == frame_offset + ready'

\* frame_offset += NumFramesDecoded()
SegmentEnd == frame_offset + decoded'

\* Mutant: the next partial is put off only when one was sent.
NextCheckWhenSent == IF decoded > 0 THEN Plus(check_count, HalfSecond) ELSE check_count

\* check_count += check_period
NextCheck == Plus(check_count, HalfSecond)

Message(kind, first, n) == out' = Append(out, [kind |-> kind, beg |-> first, end |-> first + n])

\* while (!eos) { ddecoder.InitDecoding(frame_offset);
InitDecoding ==
  /\ pc = "init"
  /\ base' = frame_offset
  /\ decoded' = 0
  /\ finalized' = FALSE
  /\ pc' = "head"
  /\ UNCHANGED <<terminateDecoder, eos, frame_offset, ready, counters, chunks, out>>

\* while (!terminateDecoder) { eos = !inputServer->ReadChunk(chunk_len);
ReadChunk ==
  /\ pc = "head"
  /\ IF terminateDecoder
     THEN pc' = "left" /\ UNCHANGED <<eos, chunks>>
     ELSE /\ pc' = "read"
          /\ \/ chunks < MaxChunks /\ eos' = FALSE /\ chunks' = chunks + 1
             \/ eos' = TRUE /\ UNCHANGED chunks
  /\ UNCHANGED <<terminateDecoder, frame_offset, decoder, ready, counters, out>>

\* if (terminateDecoder) break;
Terminated ==
  /\ pc = "read"
  /\ terminateDecoder
  /\ pc' = "left"
  /\ UNCHANGED <<terminateDecoder, eos, frame_offset, decoder, ready, counters, chunks, out>>

\* InputFinished flushes the pipeline; the rest is decoded and, if there are
\* frames since the last endpoint, reported.
EndOfAudio ==
  /\ pc = "read" /\ ~terminateDecoder /\ eos
  /\ Advance
  /\ finalized' = TRUE
  /\ frame_offset' = SegmentEnd
  /\ IF decoded' > 0 THEN Message("final", base, decoded') ELSE UNCHANGED out
  /\ pc' = "left"
  /\ UNCHANGED <<terminateDecoder, eos, base, counters, chunks>>

\* AcceptWaveform, samp_count += chunk_len (however long the chunk was),
\* AdvanceDecoding.
Decode ==
  /\ pc = "read" /\ ~terminateDecoder /\ ~eos
  /\ Advance
  /\ samp_count' = Plus(samp_count, HalfSecond)
  /\ pc' = "partial"
  /\ UNCHANGED <<terminateDecoder, eos, frame_offset, base, finalized, check_count, chunks, out>>

\* Mutant: the comparison is the wrong way round.
NotYetDue == samp_count < check_count

\* if (samp_count > check_count)
Due == samp_count > check_count

\* A partial transcript of the segment so far.
Refresh ==
  /\ pc = "partial"
  /\ IF Due
     THEN /\ check_count' = NextCheck
          /\ IF decoded > 0 THEN Message("partial", base, decoded) ELSE UNCHANGED out
     ELSE UNCHANGED <<check_count, out>>
  /\ pc' = "endpoint"
  /\ UNCHANGED <<terminateDecoder, eos, frame_offset, decoder, ready, samp_count, chunks>>

\* An endpoint ends the segment with its final transcript.
Endpoint ==
  /\ pc = "endpoint"
  /\ decoded > 0
  /\ finalized' = TRUE
  /\ UNCHANGED <<decoded, ready>>
  /\ frame_offset' = SegmentEnd
  /\ Message("final", base, decoded)
  /\ pc' = "left"
  /\ UNCHANGED <<terminateDecoder, eos, base, counters, chunks>>

NoEndpoint ==
  /\ pc = "endpoint"
  /\ pc' = "head"
  /\ UNCHANGED <<terminateDecoder, eos, frame_offset, decoder, ready, counters, chunks, out>>

\* Mutant: InitDecoding is called once, before the loop.
AfterSegmentHead == IF terminateDecoder \/ eos THEN "ended" ELSE "head"

\* Mutant: the flag is tested in the inner loop only.
AfterSegmentFlagIgnored == IF eos THEN "ended" ELSE "init"

\* if (terminateDecoder) break; } and the test of the outer loop.
AfterSegment == IF terminateDecoder \/ eos THEN "ended" ELSE "init"

LeaveInner ==
  /\ pc = "left"
  /\ pc' = AfterSegment
  /\ UNCHANGED <<terminateDecoder, eos, frame_offset, decoder, ready, counters, chunks, out>>

Session ==
  \/ InitDecoding \/ ReadChunk \/ Terminated \/ EndOfAudio \/ Decode
  \/ Refresh \/ Endpoint \/ NoEndpoint \/ LeaveInner

Next == Session \/ Terminate

Spec == Init /\ [][Next]_vars

\* The decoder thread is scheduled, and ReadChunk and Kaldi return.
FairSpec == Spec /\ WF_vars(Session)

-----------------------------------------------------------------------------
(* Properties                                                               *)

TypeOK ==
  /\ terminateDecoder \in BOOLEAN /\ eos \in BOOLEAN /\ finalized \in BOOLEAN
  /\ pc \in {"init", "head", "read", "partial", "endpoint", "left", "ended"}
  /\ frame_offset \in Nat /\ base \in Nat /\ decoded \in Nat /\ ready \in Nat
  /\ samp_count \in -IntMax - 1 .. IntMax /\ check_count \in -IntMax - 1 .. IntMax
  /\ chunks \in 0 .. MaxChunks
  /\ out \in Seq([kind : {"partial", "final"}, beg : Nat, end : Nat])

\* The words on the output socket cover the audio once: a message starts where
\* the last final one ended, partial transcripts of a segment only grow, and no
\* message is about nothing.
TranscriptTiles ==
  /\ \A i \in 1 .. Len(out) : out[i].beg < out[i].end
  /\ out # <<>> => out[1].beg = 0
  /\ \A i \in 1 .. Len(out) - 1 :
       IF out[i].kind = "final"
       THEN out[i + 1].beg = out[i].end
       ELSE out[i + 1].beg = out[i].beg /\ out[i + 1].end >= out[i].end

\* When the audio ends by itself every frame, those the pipeline held back until
\* the end included, is in a final transcript.
AllFramesReported ==
  pc = "ended" /\ eos /\ finalized =>
    /\ frame_offset = ready
    /\ ready > 0 => out # <<>> /\ out[Len(out)].kind = "final" /\ out[Len(out)].end = ready

\* Kaldi's protocol: no AdvanceDecoding between FinalizeDecoding and the next
\* InitDecoding, whatever endpoints and reloads do to the loops.
NoAdvanceAfterFinalize == pc = "read" => ~finalized

\* The samples counted so far fit into an int32.
CountersFit == HalfSecond * chunks <= IntMax

\* "this is used for output refresh rate": a partial transcript is due within
\* two chunks, until samp_count overflows.  From then on one counter has wrapped and
\* the other has not, and it is not.
RefreshDue ==
  pc = "head" /\ CountersFit => samp_count <= check_count /\ check_count - samp_count <= HalfSecond

\* The last frame a message has been sent for.
Reported == IF out = <<>> THEN 0 ELSE out[Len(out)].end

\* A reload ends the utterance without a final transcript, and drops the chunk that
\* was being read.  Of the frames that were decoded the client has then seen all but
\* those of one chunk, in partial messages, as long as the counters that pace them
\* have not overflowed.
InterruptionLosesAChunk == pc = "ended" /\ CountersFit => ready - Reported <= MaxFrames

\* Both loops end once the flag is up, wherever it was raised, between two segments
\* too: a reload waits for this thread.
FlagEndsSession == terminateDecoder ~> pc = "ended"
=============================================================================
