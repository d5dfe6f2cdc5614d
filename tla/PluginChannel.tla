----------------------------- MODULE PluginChannel -----------------------------
(***************************************************************************)
(* initialize and loadFST... from the Dart application to the decoder, on  *)
(* iOS: the calls of online_kaldi_decoder.dart, the method channel, the    *)
(* handler of KaldiAsrFfiPlugin.mm with the file streams it opens, and     *)
(* what initialize and loadFST of the bridge do for it.  The decoder       *)
(* threads are those of DecoderHandoff, which AsrBridge implements.        *)
(*                                                                         *)
(* The channel delivers calls in their order and the platform thread       *)
(* handles one at a time; the application need not wait for an answer      *)
(* before it makes the next call.  A graph is named after the call that    *)
(* loads it.                                                               *)
(***************************************************************************)
EXTENDS Naturals, Sequences, FiniteSets

CONSTANTS
  Call,      \* bound: calls the application makes
  MaxFiles,  \* files the process can have open, its sockets and what else it holds aside
  None

ASSUME ChannelAssumption == None \notin Call /\ MaxFiles \in Nat

VARIABLES
  running, stopping, loaded, used,  \* see DecoderHandoff
  up,          \* the process is alive
  made,        \* the calls made so far, in order
  method,      \* what each call is
  damaged,     \* the calls whose graph is missing or one that openFST rejects
  taken,       \* calls the platform thread has taken from the channel
  pc,          \* where the handler is
  answer,      \* what the call's future completes with
  leaked,      \* open files nobody refers to any more
  fstStream,   \* fstStream holds an open file
  ports,       \* the bridge has listened on both ports
  orphaned     \* pthread_create has failed: inputServer is set, without a thread

handoffVars == <<running, stopping, loaded, used>>
callVars == <<made, method, damaged>>
fileVars == <<leaked, fstStream>>
portVars == <<ports, orphaned>>
vars == <<handoffVars, up, callVars, taken, pc, answer, fileVars, portVars>>

Handoff == INSTANCE DecoderHandoff WITH Fst <- Call

Init ==
  /\ Handoff!Init
  /\ up = TRUE
  /\ made = <<>>
  /\ method = [k \in Call |-> "none"]
  /\ damaged = {}
  /\ taken = 0
  /\ pc = "idle"
  /\ answer = [k \in Call |-> "none"]
  /\ leaked = 0
  /\ fstStream = FALSE
  /\ ports = FALSE
  /\ orphaned = FALSE

Initializes(k) == method[k] = "initialize"
Loads(k) == method[k] \in {"loadFSTFromAsset", "loadFSTFromFile"}

-----------------------------------------------------------------------------
(* The application                                                          *)

\* "This method must be called prior to loadFSTFromFile or loadFSTFromAsset."
Invoke(k) ==
  /\ method[k] = "none"
  /\ made' = Append(made, k)
  /\ \/ /\ method' = [method EXCEPT ![k] = "initialize"]
        /\ UNCHANGED damaged
     \/ /\ \E i \in Call : Initializes(i)
        /\ \E m \in {"loadFSTFromAsset", "loadFSTFromFile"} : method' = [method EXCEPT ![k] = m]
        /\ damaged' \in {damaged, damaged \cup {k}}
  /\ UNCHANGED <<handoffVars, up, taken, pc, answer, fileVars, portVars>>

-----------------------------------------------------------------------------
(* The handler                                                              *)

\* The call that is handled.
Current == made[taken]

\* An exception nothing catches.
Throw ==
  /\ up' = FALSE
  /\ UNCHANGED <<handoffVars, callVars, taken, pc, answer, fileVars, portVars>>

TakeCall ==
  /\ pc = "idle"
  /\ taken < Len(made)
  /\ taken' = taken + 1
  /\ pc' = IF Initializes(made[taken + 1]) THEN "models" ELSE "stream"
  /\ UNCHANGED <<handoffVars, up, callVars, answer, fileVars, portVars>>

Answer(value) ==
  /\ pc' = "idle"
  /\ answer' = [answer EXCEPT ![Current] = value]

\* Mutant: the file of the graph is forgotten.
FilesLeftWithoutGraph == MaxFiles - leaked

\* Files that can still be opened.
FilesLeft == MaxFiles - leaked - IF fstStream THEN 1 ELSE 0

\* Streams for the model and the symbols are opened by every call and closed by
\* none; opening fails without a word when there are no files left.  A decoder that
\* is already there is not touched, and the ports are answered.
InitializeAgain ==
  /\ pc = "models" /\ ports
  /\ leaked' = leaked + IF FilesLeft < 2 THEN FilesLeft ELSE 2
  /\ Answer("ports")
  /\ UNCHANGED <<handoffVars, up, callVars, taken, fstStream, portVars>>

\* The first call reads both streams and listens.  KALDI_ERR follows from a model or
\* symbols that cannot be read, and from a Listen that fails.
InitializeFirst ==
  /\ pc = "models" /\ ~ports
  /\ \/ /\ FilesLeft >= 2
        /\ leaked' = leaked + 2
        /\ ports' = TRUE
        /\ pc' = "start"
        /\ UNCHANGED <<handoffVars, up, callVars, taken, answer, fstStream, orphaned>>
     \/ Throw

\* Mutant: the old stream is not deleted.
KeepStream == leaked' = leaked + IF fstStream THEN 1 ELSE 0

\* delete(fstStream) closes its file.
DeleteStream == UNCHANGED leaked

\* Mutant: loadFST is left to another queue and the call answered at once.
AnswerAtOnce == answer' = [answer EXCEPT ![Current] = "null"]

\* loadFST runs on the platform thread; the call is answered when it has returned.
AnswerLater == UNCHANGED answer

\* The old stream goes, a new one is made.  The handler tests the pointer, not the
\* stream, and calls loadFST, which raises the flag.
OpenStream ==
  /\ pc = "stream"
  /\ DeleteStream
  /\ fstStream' = (Current \notin damaged /\ MaxFiles > leaked')
  /\ Handoff!AskToStop
  /\ pc' = "kill"
  /\ AnswerLater
  /\ UNCHANGED <<up, callVars, taken, portVars>>

\* inputServer->Kill().  A decoder that has seen the flag may have left already and
\* deleted the server: Kill then ends the process, or gets through on freed memory.
KillServer ==
  /\ pc = "kill"
  /\ \/ /\ pc' = "wait"
        /\ UNCHANGED <<handoffVars, up, callVars, taken, answer, fileVars, portVars>>
     \/ ~running /\ ~orphaned /\ Throw

\* while (inputServer) sleep: for ever when no thread is there to clear it.
WaitForDecoder ==
  /\ pc = "wait"
  /\ ~running /\ ~orphaned
  /\ Handoff!Unload
  /\ pc' = "open"
  /\ UNCHANGED <<up, callVars, taken, answer, fileVars, portVars>>

\* openFST, as FstReader has it, throws unless the graph can be read.
OpenFST ==
  /\ pc = "open"
  /\ \/ /\ fstStream
        /\ Handoff!Load /\ loaded' = {Current}
        /\ pc' = "relisten"
        /\ UNCHANGED <<up, callVars, taken, answer, fileVars, portVars>>
     \/ ~fstStream /\ Throw

\* Mutant: the flag stays up.
FlagStaysUp == UNCHANGED handoffVars

\* terminateDecoder = false
LowerFlag == Handoff!Resume

\* A new server listens on the old port, which may be taken: KALDI_ERR.
Relisten ==
  /\ pc = "relisten"
  /\ \/ /\ LowerFlag
        /\ pc' = "start"
        /\ UNCHANGED <<up, callVars, taken, answer, fileVars, portVars>>
     \/ Throw

\* start_decoder_thread, for either call.  initialize answers -1 and -1 when it
\* fails, of which Dart makes an exception; the code that loadFST returns is dropped,
\* and result(0) is null to Dart in any case.
StartDecoder ==
  /\ pc = "start"
  /\ \/ /\ Handoff!Start
        /\ Answer(IF Initializes(Current) THEN "ports" ELSE "null")
        /\ UNCHANGED orphaned
     \/ /\ ~stopping
        /\ orphaned' = TRUE
        /\ Answer(IF Initializes(Current) THEN "exception" ELSE "null")
        /\ UNCHANGED handoffVars
  /\ UNCHANGED <<up, callVars, taken, fileVars, ports>>

Handler ==
  \/ TakeCall \/ InitializeAgain \/ InitializeFirst
  \/ OpenStream \/ KillServer \/ WaitForDecoder \/ OpenFST \/ Relisten \/ StartDecoder

-----------------------------------------------------------------------------
(* The decoder threads                                                      *)

channelVars == <<up, callVars, taken, pc, answer, fileVars, portVars>>

BeginUtterance == Handoff!BeginUtterance /\ loaded # {} /\ UNCHANGED channelVars
EndUtterance == Handoff!EndUtterance /\ used # {} /\ UNCHANGED channelVars
Stop == Handoff!Stop /\ UNCHANGED channelVars

\* accept() fails (for a connection that was reset, or on the socket that Kill has
\* closed), or FD_SET gets the -1 that Kill leaves: nothing on this thread catches it.
DecoderThrows == running /\ (used = {} \/ stopping) /\ Throw

Decoder == BeginUtterance \/ EndUtterance \/ Stop \/ DecoderThrows

Next == up /\ (Handler \/ Decoder \/ \E k \in Call : Invoke(k))

Spec == Init /\ [][Next]_vars

\* The platform thread runs, and a decoder thread that is asked to go ends its
\* utterance and goes (LoadFSTReturns of AsrBridge).
FairSpec ==
  /\ Spec
  /\ WF_vars(up /\ Handler)
  /\ WF_vars(up /\ stopping /\ EndUtterance)
  /\ SF_vars(up /\ Stop)

-----------------------------------------------------------------------------
(* Properties                                                               *)

TypeOK ==
  /\ running \in BOOLEAN /\ stopping \in BOOLEAN
  /\ loaded \subseteq Call /\ used \subseteq Call
  /\ up \in BOOLEAN
  /\ made \in Seq(Call) /\ damaged \subseteq Call
  /\ method \in [Call -> {"none", "initialize", "loadFSTFromAsset", "loadFSTFromFile"}]
  /\ taken \in 0 .. Len(made)
  /\ pc \in {"idle", "models", "stream", "kill", "wait", "open", "relisten", "start"}
  /\ answer \in [Call -> {"none", "ports", "exception", "null"}]
  /\ leaked \in Nat /\ fstStream \in BOOLEAN
  /\ leaked + (IF fstStream THEN 1 ELSE 0) <= MaxFiles
  /\ ports \in BOOLEAN /\ orphaned \in BOOLEAN

\* A call comes after another one.
After(j, k) == \E m, n \in 1 .. Len(made) : m < n /\ made[m] = k /\ made[n] = j

\* Once loadFST... has returned in Dart, no utterance is decoded with an older graph:
\* answers, reloads and the decoder's turns do not overtake each other.
AnsweredGraphIsUsed ==
  \A k \in Call : \A g \in used :
    Loads(k) /\ answer[k] # "none" => g = k \/ After(g, k)

\* However many reloads came before, openFST gets an open stream for a good graph,
\* unless repeated calls of initialize have used up the files.  (That the process
\* survives the rest of a reload is not claimed: see KillServer, DecoderThrows and
\* Relisten.)
Initializations == Cardinality({k \in Call : Initializes(k)})
GoodGraphIsOpened ==
  pc = "open" /\ ~fstStream => Current \in damaged \/ 2 * Initializations + 1 > MaxFiles

\* Every call is answered, unless the process has ended or a failed pthread_create
\* has left a server without a decoder, for which the platform thread waits for ever.
EveryCallAnswered ==
  \A k \in Call : method[k] # "none" ~> answer[k] # "none" \/ ~up \/ orphaned
=============================================================================
