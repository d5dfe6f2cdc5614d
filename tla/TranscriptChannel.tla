-------------------------- MODULE TranscriptChannel --------------------------
(***************************************************************************)
(* What the application may rely on between the decoder and the stream it  *)
(* listens to: transcripts are begun one after the other; any stretch of   *)
(* what was begun may be lost; what is heard is heard in whole characters, *)
(* in order and once; and dispose ends it.                                 *)
(*                                                                         *)
(* A byte is <<transcript, place>>, with places 1 and 2 for the character  *)
(* and 3 for the end of line.                                              *)
(***************************************************************************)
EXTENDS Naturals, Sequences

CONSTANT MaxLines  \* bound: transcripts

VARIABLES
  begun,    \* transcripts the decoder has begun to send
  heard,    \* bytes the application has heard
  disposed

vars == <<begun, heard, disposed>>

Byte(n) == <<(n \div 3) + 1, (n % 3) + 1>>

\* The bytes first .. last of the transcripts, counted from 0.
Stretch(first, last) == [i \in 1 .. last - first + 1 |-> Byte(first + i - 1)]

\* The number of the byte after the last one heard.
NextByte == IF heard = <<>> THEN 0 ELSE 3 * (heard[Len(heard)][1] - 1) + heard[Len(heard)][2]

Init ==
  /\ begun = 0
  /\ heard = <<>>
  /\ disposed = FALSE

Begin ==
  /\ begun < MaxLines
  /\ begun' = begun + 1
  /\ UNCHANGED <<heard, disposed>>

\* A stretch that is later than everything heard and cuts no character.
Hear ==
  /\ ~disposed
  /\ \E first \in NextByte .. 3 * begun - 1 : \E last \in first .. 3 * begun - 1 :
       /\ Byte(first)[2] # 2 /\ Byte(last)[2] # 1
       /\ heard' = heard \o Stretch(first, last)
  /\ UNCHANGED <<begun, disposed>>

Dispose ==
  /\ disposed' = TRUE
  /\ UNCHANGED <<begun, heard>>

Next == Begin \/ Hear \/ Dispose

Spec == Init /\ [][Next]_vars
=============================================================================
