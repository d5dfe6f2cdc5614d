# TLA+ models of kaldi_asr_ffi

A Flutter plugin for online speech recognition. The Dart side asks the native
side, over a method channel, to `initialize` a decoder and to load a decoding
graph (`loadFST...`). The native side listens on two TCP ports of the loopback
interface: an audio source sends 16-bit samples to the input port, and the Dart
client reads transcripts from the output port. One native thread, `thr_func`,
accepts both connections, decodes and writes.

The plugin is about 1,600 lines; 99% of the repository are headers of Kaldi and
OpenFst, which are external here except for the two readers that `openFST` calls.
The models cover nearly all of the plugin and so about half a percent of the
repository.

Paths below are relative to `src/kaldi_asr_ffi/`.

## Inventory

| Component | State | Operations | Talks to |
|---|---|---|---|
| Life cycle, `ios/src/bridge/asrbridge_online.cc` | the globals `terminateDecoder`, `inputServer`, `outputServer`, `decode_fst`, the two port numbers | `initialize`, `loadFST`, `openFST`, `start_decoder_thread`, the outer loop of `thr_func` | the two threads share the globals; nothing is atomic or locked |
| `TcpServer`, `ios/src/server/server.cc` | `server_desc_`, `client_desc_`, `samp_buf_`, `has_read_` | `Listen`, `Accept`, `ReadChunk`, `GetChunk`, `Write`, `WriteLn`, `Disconnect`, `Kill` | the kernel; the decoder thread uses it, `loadFST` calls `Kill` on it from the platform thread |
| Utterance decoding, the inner loops of `thr_func` | `eos`, `frame_offset`, `samp_count`, `check_count`, Kaldi's decoder and feature pipeline | `InitDecoding`, `AdvanceDecoding`, `FinalizeDecoding`, partial and final messages | input server, output server |
| `OnlineKaldiDecoder`, `lib/online_kaldi_decoder.dart` | `_socket`, `_listener`, the ports, two stream controllers | `initialize`, `loadFST...`, `connect`, `disconnect`, `dispose` | method channel, output port |
| Method channel on iOS, `ios/Classes/KaldiAsrFfiPlugin.mm` | the streams of model, symbols and graph | dispatch to `initialize` and `loadFST`, answers | Dart, the bridge |
| Method channel on Android, `android/.../KaldiAsrFfiPlugin.kt`, `ios/src/bridge/asrbridge_online_android.cc` | the mapped files | the same, through JNI | Dart, the bridge |
| Reading a graph: `openFST`, `VectorFst::Read`, `ConstFst::Read` (`ios/include/fst/`) | where the reader is, the graph so far | header, states, arcs, alignment | an `istream` over a file or an `mmap_stream` |
| `mmap_stream`, `ios/src/mmap/` | `current_` and the get area | `underflow`, `uflow`, `pbackfail`, `seekoff`, `seekpos` | the readers, in `main` and the Android glue |

What is hard here:

* Two threads and no lock. `loadFST` raises a flag, kills the server the decoder
  is using, spins until the decoder has deleted it and cleared the pointer, and
  builds everything anew. `Kill` may fall between any two accesses of `Accept`,
  `ReadChunk` and `Disconnect` to the same members.
* Descriptor numbers. A closed number is soon used by another part of the
  process (Dart's sockets, the log), and two threads may close the same one.
* Errors. `KALDI_ERR` throws; on the decoder thread nothing catches it, and in
  `initialize` the catch clauses throw again.
* A byte stream cut at arbitrary places, time-outs, signals, an `errno` nobody
  resets, and a silence test on every piece.
* Coroutines: `connect` and `disconnect` read `_socket` before and after an await,
  while other calls replace or clear it.
* An output socket with one client for ever, blocking writes, and characters cut
  by them.
* Calls that Dart does not wait for: reloads queue behind one that spins, answers
  and graphs must not overtake each other, streams must be closed.
* Graph files cut anywhere, read on the platform thread while no decoder runs, and
  a stream buffer that gives out its file twice.
* Loops with four exits (endpoint, end of audio, termination, time-out) that
  must leave Kaldi's decoder and the frame counters in step.

What makes each component correct:

* life cycle: one decoder at most; a graph outlives the utterances that use it;
  the decoder's server is allocated; a reload ends; the port never changes;
* `TcpServer`: the decoder hears what was sent, in order, whole, without gaps; a
  client that closes is released and one that waits is served, under conditions the
  code makes (a graph, a reader of transcripts, nobody who sends for ever); no
  descriptor leaks, and none that belongs to somebody else is used or closed but in
  two moments of a reload;
* utterance decoding: the messages cover the audio once; all of it is reported;
  Kaldi's call protocol is respected; partial transcripts keep coming;
* Dart client: one socket and one subscription after any sequence of calls; every
  call returns;
* method channel: every call is answered while the process lives and has a decoder, an
  answered reload is in force, reloads do not use up the files of the process;
* graph readers: the graph that was written or an exception, never a part of one;
* output socket: what the application hears is made of whole characters in order;
  the decoder thread gets out of every `write()`; a client that reconnects is
  served (it is not).

## Modules

| Module | Models | Kind |
|---|---|---|
| `InputServer` | `TcpServer`'s methods as the two threads execute them on the input server, one action per access to a member | component |
| `AsrBridge` | the life cycle: both threads, composed with `InputServer` | component, composition |
| `DecoderHandoff` | what the life cycle promises about the graph | abstract specification |
| `AsrBridgeProofs`, `DescriptorProofs` | theorems about `AsrBridge`: graph and threads; descriptors | proofs |
| `TcpServer` | `ReadChunk`, `GetChunk`, `Accept`, `Disconnect` with the bytes | component |
| `TcpServerProofs` | theorems about `TcpServer` | proofs |
| `DecodeSession` | the inner loops of `thr_func` for one connection | component |
| `DecodeSessionProofs` | theorems about `DecodeSession` | proofs |
| `OnlineKaldiDecoder` | `connect`, `disconnect` and `dispose` of the Dart client, from await to await | component |
| `OnlineKaldiDecoderProofs` | theorems about `OnlineKaldiDecoder` | proofs |
| `AsrSystem` | the output server (`Accept`, `Write`, `WriteLn`) composed with `OnlineKaldiDecoder` over TCP | component, composition |
| `TranscriptChannel` | what the application may rely on between the decoder and its stream | abstract specification |
| `AsrSystemProofs` | theorems about `AsrSystem`, the refinement of `TranscriptChannel` among them | proofs |
| `PluginChannel` | the calls of Dart, the channel handler on iOS and its streams, composed with `DecoderHandoff` | component, composition |
| `PluginChannelProofs` | theorems about `PluginChannel` | proofs |
| `FstReader` | `openFST` and the readers of graphs, over a file stream and over `mmap_stream` | component |
| `FstReaderProofs` | theorems about `FstReader` | proofs |
| `MCAsrBridge`, `MCTcpServer`, `MCFstReader` | symmetry, sample sets and graph files for TLC | model checking |

### InputServer and AsrBridge

`pc[a]` is where thread `a` is: `Main` is the platform thread that runs method
channel handlers one at a time, the members of `Thread` are the ids
`pthread_create` may hand out. A label is a point between two accesses to shared
state; inside a method, `this[a]` is the object and `ret[a]` where `Disconnect`
returns to, because `ReadChunk`, `Kill` and the destructor call it from
different places. `heap` is the set of allocated `TcpServer`s, so a method of a
deleted object is visible: it goes on with what the destructor left, faults, or
reads what a new owner of the memory wrote (`FreedAccess`, `FreedReused`).
`fd` is the kernel's descriptor table. `Die` is an uncaught exception, a null
dereference or an abort; after it nothing happens.

`terminateDecoder`, `inputServer`, `server_desc_` and `client_desc_` are plain
variables written on one thread and read on the other: data races in C++. All
are aligned words and every loop that reads them calls functions the compiler
cannot see into, so the builds read memory once per access and do not tear;
the models take each access as one step of a sequentially consistent memory.

The output server is used by the decoder thread only and, having accepted a
client, returns it for ever: it is the flag `outputAccepted`. Its two
descriptors are not in `fd`. The bytes of a chunk and the transcripts are left
to the other two modules: here `ReadChunk` returns true, returns false, goes on,
or disconnects, as the kernel likes. Reading models and configuring Kaldi, which
happens before there is a decoder thread, is one step with `Listen`.

`loadFST` is called only after an `initialize` that reported ports, as the
Dart documentation demands (`reported`).

`DecoderHandoff` says in eight actions what all this is for: a decoder starts
only when none runs and no reload is under way; an utterance takes the graph
that is loaded; a graph is unloaded only after the decoder has gone.
`Handoff` in `AsrBridge` maps to it.

Two properties say what a reload does to descriptors, inside its window too.
`UsesOpenDescriptors`: `Accept` and `ReadChunk` select, poll, read and accept on open
descriptors of their own server; in a reload there are two exceptions, a member that
`Kill` has cleared by then (-1) and one that it has closed and not yet cleared (EBADF,
or a number of somebody else). `ForeignCloseOnlyInReload`: the bridge closes a
descriptor of somebody else only as the second of two closes of one member, with both
threads past the test and neither past the clearing, or in a `Kill` that outlives its
server. The code does reach every one of these exceptions: TLC finds a counterexample
when any of them is taken out of its property.

### TcpServer

One decoder thread, no reload, but bytes: `wire[c]` is what the kernel holds,
`read()` returns any prefix of it that fits, `samp_buf` starts uninitialised and
is never cleared, `errno` is set by failing calls only. `why` records which of
its exits `ReadChunk` took, and `got` counts the bytes `read()` has returned. The
`while (to_read > 0)` loop is the labels
`select`, `poll` and `read`. The silence test (`Total`) sums the new whole
samples from index `has_read_ / 2`, as the code does. An orderly close leaves
bytes readable, a reset discards them. The descriptor set that `ReadChunk` fills
once is always the client's here, since it stays ready or the loop returns.

The outer loop of `thr_func` is there as well. It takes an audio client only when the
output server has one (`output`, which never becomes false again), and goes round
again, holding the client and reading nothing, while no graph is loaded
(`decode_fst`, which only a reload would change). `accept()` may throw for a connection
that was reset in the queue, and the process ends (`dead`).

Every exit of `ReadChunk` that gives up a chunk is there: the 30s time-out, a signal in
`select()` or `poll()`, a reset, an `errno` left over from an earlier call, silence.
`LossBounded` says of all of them, together, that of the bytes `read()` returned from
one client, at most one chunk was not heard. It says nothing of the bytes that were
still unread: the `Disconnect` that follows discards them, however many.
`WaitingIsServed` is conditional on the other clients stopping to send: the code reads
one client for as long as it sends, and no other is served meanwhile.

### DecodeSession

One connection from the construction of `ddecoder` to the end of the utterance.
A message is the span of frames its words stand for, so "partial" and "final"
messages can be compared with the audio. Kaldi is external: a chunk adds any
number of frames to the pipeline, `AdvanceDecoding` decodes them all,
`InputFinished` may flush more, and an endpoint may be reported when the segment
has a frame. `samp_count` and `check_count` wrap as int32. `terminateDecoder` may be
raised at any point: `FlagEndsSession` says that every loop is then left, and
`InterruptionLosesAChunk` how much of what was decoded the client has not seen.
That and `RefreshDue` hold until `samp_count` overflows (`CountersFit`); the run goes
on past the overflow, and without `CountersFit` TLC refutes `RefreshDue`.

### OnlineKaldiDecoder and AsrSystem

A call is a coroutine of one isolate, named `k`; `pc[k]` is the await it stands
at. `_socket` is a `Future<Socket>`: the model names the future, and the socket
it may yield, after the call of `connect` that made it. `awaited[k]` is the
future a call waits for, which need not be the one in `_socket` when it goes on.
`closed` stands for both stream controllers. `Socket.close()` shuts down the
sending side (`sending`); cancelling a subscription shuts down the receiving side
(`listening`), and only `connect` cancels. The steps a microtask makes at once
are steps of their own: TLC sees more interleavings than Dart has. The
application may call at any time until it calls `dispose`; the history variable
`overlapped` records that it once made a call while another had not returned.
Of `initialize` there is only what `connect` needs, that `_outputPortNum` is set
(`Initialized`); a connect before that throws inside its try block
(`ConnectUninitialized`). The calls themselves are in `PluginChannel`.

In `AsrSystem` a connection is open as soon as the kernel has it in the listen
queue (`backlog`, `Backlog` places); `Accept` takes the first client and keeps it.
A transcript is three bytes, a character of two and the end of line; `wire` is
what the kernel holds, at most `Buffer` bytes. `Write` is one `write()` of the
loop in `TcpServer::Write`, of the message or of the end of line, and `Receive` is
the listener's callback with any piece of the stream, which `utf8.decode` takes or
rejects; a rejected piece is lost. A connection of which the client has closed
both sides is reset, and `write()` fails; one that is only not read fills up and
`write()` waits, as it does on Linux. A `write()` that a signal interrupts is
restarted by the kernel, so signals are left out.

`TranscriptChannel` says in three actions what the application may rely on:
transcripts are begun one after the other, any stretch of them may be lost, what is
heard is heard in whole characters, in order and once, and nothing is heard after
`dispose`. `AsrSystem` maps to it with `begun`, `heard` and `disposed` its own
`lines`, `decoded` and `closed`.

### PluginChannel

The channel delivers calls in their order (`made`, `taken`) and the platform thread
handles one at a time; the application does not wait for answers. `pc` is where the
handler is. The decoder threads are those of `DecoderHandoff`, which the bridge
implements, so a reload is its five steps and the decoder's own turns fall between
them. A graph is named after the call that loads it; `damaged` are the calls whose
file is missing or rejected by `openFST`. `leaked` counts the open files nobody refers
to: two for each `initialize`, because its streams for the model and the symbols are
never deleted, and `fstStream` is the one graph that is kept open. `orphaned` is the
state that a failed `pthread_create` leaves: a server without a thread that would
clear its pointer, so the next reload waits for ever. An unknown method is answered
without a change of state and left out.

A call may end the process wherever the code does. `initialize`: an unreadable model or
symbol table, a `Listen` that fails. A reload: `Kill` on a server that the decoder has
deleted already (`KillServer`; `LoadFSTKill` is the same in `AsrBridge`), a damaged
graph, a `Listen` that fails (`Relisten`). The decoder: `accept()` throws, or
`FD_SET(-1)` aborts, between utterances or in the window of a reload (`DecoderThrows`).
That a process survives its reloads is therefore not a property. `GoodGraphIsOpened` is
what the handler itself owes a reload: the stream it hands to `openFST` is open, however
many reloads came before, unless the file is damaged or missing or calls of `initialize`
have used up the files.

### FstReader

The files are those that `VectorFst::WriteFst` and `ConstFst::WriteFst` make
(`WrittenByVectorFst`, `WrittenByConstFst`, which `FileAssumption` demands), cut
anywhere, and files of another type. `starts` says where the parts of a file begin: its
states, or its two tables. `Graph` is the file without the padding, which is how a
reader's result is compared with what was written.

A file is a sequence of cells: what one step of a reader asks for (the header, a
final weight, a number of arcs, an arc, an entry of `ConstFst`'s table of states, a
byte of padding). The reader does not see the kind of a cell. A cell of another kind
than it asked for is `Junk`, and numbers read from `Junk` may be any. `kept` cells of
a file are left, so a file may be cut between any two; a cut inside a cell is a cut
before it or, over `mmap_stream`, `Junk`.

`mmap_stream` gives the whole file to `std::streambuf` as the get area, which moves
through it by itself; `current_` does not. When the area is used up, `uflow` returns
the file from `current_` on, a second time. Three conditions in the properties are
what this costs, and each is needed: without `buf = "filebuf"` in `FileStreamExact` TLC
finds a cut graph that is completed from its own beginning and accepted; without
`~Header(file).aligned` in `WholeGraphAccepted` it finds `AlignInput`, whose `tellg`
is answered from `current_`, skipping no padding; without `Counted(file)` it finds a
graph without a number of states read on into the second reading.

## Runs

| Run | Shows |
|---|---|
| `AsrBridge` | nine properties, in and out of the window of `Kill`, under every interleaving of a reload with accepting, reading and disconnecting, failed thread creations and retries; 44,597 states up to symmetry |
| `AsrBridgeLive` | `loadFST` gets past its wait whenever a decoder lives, or the process ends |
| `InitializeTwice` | a counterexample: `pthread_create` fails, `initialize` replies -1, -1 and is called again; it now reports ports nobody serves |
| `LoadFSTKill` | a counterexample: the decoder sees the flag, deletes the server and clears the pointer before `loadFST` calls `Kill` |
| `TcpServer` | the decoder hears a prefix of what was sent, all of it at an orderly end; of what `read()` took, whatever exit `ReadChunk` takes, it misses one chunk at most; with a graph, a client that closes is released; with a reader of transcripts too, one that waits is served if the others stop sending; 495,728 states |
| `EndOfStream` | a counterexample: one byte, or two samples that cancel out, end the utterance of a connected client |
| `DecodeSession` | the messages of a connection tile its audio; the refresh counters stay in step; a termination ends both loops and hides one chunk at most; counters that overflow included; 258,392 states |
| `OnlineKaldiDecoder` | one after the other, calls leave one subscription and one open socket, the one `_socket` names; overlapping in any way, they all return; 270,280 states |
| `AsrSystem` | whole characters in order, with overlapping calls, reconnections and every cut of the bytes: a `TranscriptChannel`; every `write()` of the decoder thread ends while the application awaits its calls; 330,401 states |
| `Reconnect` | a counterexample: connect, disconnect, connect; the second connection waits in the listen queue for ever |
| `PluginChannel` | calls that do not wait for one another are all answered, an answered reload is in force, reloads alone never use up the files, although most steps may end the process; 138,041 states |
| `FstReader` | `openFST` returns the graph that was written or throws, for files cut anywhere; `mmap_stream` does no harm to whole graphs of known size; it always returns; 1,983 states |

### Bounds

`AsrBridge`: two thread ids and two addresses let an old and a new decoder and
server overlap if the code allowed it; a deleted object's address can be
allocated again. Two graphs distinguish the old one from the new one. Three
descriptors are a listening socket, a client and one for the rest of the
process, so a freed number can be taken by somebody else; two ports show a
reload that would choose another. Reloads are unbounded: the state space is
finite without a counter. `AsrBridgeLive` has one port and two descriptors and
no symmetry. All bounds are the sizes of constants.

`TcpServer`: chunks of two samples and four samples in all (`MaxSamples`), on one
connection or spread over two, give full chunks, an incomplete one, and pieces that
begin and end inside a sample. -1 (both bytes set) and 1 detect bytes that are swapped
or shifted, and cancel out. Two connections show the hand-over to the next client.
`Signals` says whether system calls may be interrupted. Because of `MaxSamples` every
client of the run stops sending, so the hypothesis of `WaitingIsServed` is always met
there; the property states it because without the bound it need not be.

`DecodeSession`: six chunks (`MaxChunks`) of up to two frames (`MaxFrames`)
give several segments with several partials each. `HalfSecond` is 2 and `IntMax` is 8:
the counters fit for four chunks, which is where `RefreshDue` and
`InterruptionLosesAChunk` say something, and wrap with the fifth.

`OnlineKaldiDecoder`: four calls make connect, disconnect, connect and one more
of either kind, and let every pair overlap with two that replace and clear the
socket. `AsrSystem`: two transcripts of three bytes against three bytes of buffer
(`MaxLines`, `Buffer`) put the end of one and the beginning of the next into the same
piece, cut every character and fill the buffer in the middle of a
message; three calls are a connection, its end and a second one; the queue has
two places (`Backlog`), what Linux makes of `listen(server_desc_, 1)`.

`PluginChannel`: four calls are an `initialize`, two reloads that queue, and one more
of either kind; five files (`MaxFiles`) are used up by two calls of `initialize` and a
reload, not by reloads; after a third `initialize` a reload fails.

`FstReader`: graphs of up to two states and three arcs, with a state without arcs and
an empty graph, as vector graphs with and without a number of states and as const
graphs with and without alignment, each cut at every place. `Align` is 3, which the
header does not divide and neither table need divide; a `Junk` number of arcs is at
most two (`MaxNarcs`). `CharSigned` lets a byte be taken for the end of the file.

### Fairness

`AsrBridge`: weak fairness of what the platform thread does once a call has
begun and of every decoder thread. The operating system schedules both; every
blocking call on the input side has a time-out (100us in `Accept`, 30s in
`ReadChunk`, 5s in `poll`). `write()` on the output side has none: that it ends is
`WritesReturn` of `AsrSystem`, for an application that awaits its calls. Without
that condition it fails: two connects open a socket each, the server serves the
one `_socket` does not name, a later connect cancels its subscription without
closing it, and the decoder thread waits for room for ever.

Nobody has to call anything, so calls are not fair. `TcpServer`: weak fairness of
the decoder thread, which rests on `write()` in the same way; clients may do nothing
for ever, and nobody has to connect to the output server. `OnlineKaldiDecoder` and
`AsrSystem`: weak fairness of each coroutine whose future has completed and of
the listener (Dart's event loop), of the answer to a connection attempt
(`Socket.connect` has a time-out of 30s), and of `Accept` and `Write` (the decoder
thread). When a transcript is written is up to the audio and not fair.
`DecodeSession` and `FstReader`: weak fairness of the one thread that runs them.
`PluginChannel`: weak fairness of the handler and, once a reload has asked the decoder
to go, of the end of its utterance, and strong fairness of its leaving (`Stop`),
because an utterance that begins in between disables it: that a decoder which is
asked to go does go is what the run `AsrBridgeLive` shows.

`CHECK_DEADLOCK` is off in every configuration but that of `FstReader`: the process may
have ended, the clients may all have gone, the session may be over, the application
may make no further call.

## Proofs

`AsrBridgeProofs` proves for every value of the constants, from
`BridgeAssumption` alone (the sets do not contain each other's special values):
`TypeCorrect`, `OneDecoderAlways`, `FstSafeAlways`, `DecoderOwnsServerAlways`,
`FlagAlways` and `BridgeImplementsHandoff`.

None of the properties is inductive alone: that the decoder is the only one
depends on when the platform thread starts another, which depends on its having
waited, which depends on what the pointer means. The invariant `IInv` adds the
missing link, the phase of the platform thread: which decoders may be active and
whether `inputServer` is null at each of its labels, and that the flag is up from
`stop` to `relisten`. With it, `Kill` by the platform thread needs no argument
about where the decoder is: it changes descriptors, never ownership. One lemma
per group of actions shows that the group keeps `IInv`; one per thread shows that
a step maps to a step of `DecoderHandoff` or to a stutter.

`DecodeSessionProofs` proves, from `SessionAssumption`, for any number of chunks
and frames and any point of termination: `TypeCorrect`, `TranscriptTilesAlways`,
`AllFramesReportedAlways` and `NoAdvanceAfterFinalizeAlways`. `TranscriptTiles`
speaks about neighbouring messages; `Front` says what the last message is in
terms of `frame_offset` and `base`, and the lemma `AppendTiles` that a message
that joins on to it keeps the tiling. `Frames` keeps the decoder behind the
pipeline, `Flushed` says what has been reported once the audio is over.

`DescriptorProofs` extends the first of them: `DescriptorsOwnedAlways`,
`PortHonouredAlways`, `UsesOpenDescriptorsAlways` and
`ForeignCloseOnlyInReloadAlways`. The danger is `Kill` on the platform thread clearing
a member between the decoder's `accept()` and its own `Disconnect`, so that a client
is open and nobody holds it. What excludes it is where the decoder can be by then:
past its loop head it has seen the flag, and before that `Accept` returns a client
that is not yet forgotten (`AcceptingAlone`). Nothing is left to own when the pointer
is cleared (`NoClientLeft`, `NoPortLeft`). For the other two, what a member holds is
open in every state, a reload's too, except while some thread is between its `close()`
and the clearing (`ServerOpen`, `ClientOpen`); a second close that hits a foreign number
therefore has a first one at that place. While the flag is down nobody else is there to
clear a member (`ServerHeld`, `ClientHeld`).

`PluginChannelProofs` proves, from `ChannelAssumption`, for any number of calls and
files: `TypeCorrect`, `AnsweredGraphIsUsedAlways` and `GoodGraphIsOpenedAlways`. An answer
says nothing about graphs by itself; the order of the calls ties them. Calls stand
once in the channel (`Listed`), answered ones before the one that is handled
(`Handled`, `Answered`), and a graph in memory is that of a call taken and never older
than an answered reload (`GraphsTaken`, `GraphsInForce`); `Stages` says where in a
reload there is no decoder. For the files, `FilesCounted` bounds the leak by the calls
of `initialize` that have opened theirs, and `StreamOpened` says why a stream may be
closed when `openFST` needs it.

`DecodeSessionProofs` also has `RefreshDueAlways` and `InterruptionLosesAChunkAlways`,
without a hypothesis on the length of the connection: both properties speak of the
states in which the samples so far fit in an int32 (`CountersFit`, the first 37 hours),
and a step never makes them fit again (`FitBefore`).
After every `Refresh` but the first the two counters agree (`Rate`), so that from the
second chunk on every chunk brings a message with all that is decoded, which by then is
all the pipeline has (`Abreast`); what the client has not heard about is what the last
chunk added (`Covered`).

`TcpServerProofs` proves, from `TcpAssumption`, for any samples, chunk length, number of
connections and any cut of the bytes: `TypeCorrect`, `HeardInOrderAlways`,
`AllHeardAtEndAlways` and `LossBoundedAlways`. The bytes of a connection are numbered.
`Follows` and `Collects` say that what was heard, what `samp_buf_` holds and what the
kernel holds follow one another in these numbers without a gap, until `ReadChunk`
returns false; `HeardInOrder` then needs that a chunk begins and ends between samples.
That is `Complete`: a chunk that is handed on is full, or nothing is left to follow it.
`Ended` is what is left when `ReadChunk` has returned false. `LossBounded` counts what
`read()` returned: of a client that is still read, what was not heard is in `samp_buf_`
or was the end of its stream, and what was not heard of one that was left stays as it
was then (`Lost`), whichever exit that was. That `GetChunk` undoes the
client's little-endian encoding is the lemma `Int16OfBytes`.

`OnlineKaldiDecoderProofs` proves, from `ClientAssumption`, for any number of calls:
`TypeCorrect`, `OneSubscriptionAlways` and `SettledAlways`. The last two are about an
application that awaits its calls (`~overlapped`). The invariant follows the one call in
flight from await to await (`Serial`): which future it has in hand, what is subscribed,
what is open. `Futures` holds whatever overlaps: a future belongs to the connect that
made it, and only an open one can be written.

`AsrSystemProofs` proves, from `SystemAssumption`, for any calls, overlapping or not,
any number of transcripts, any buffer and listen queue: `TypeCorrect`,
`TranscriptInOrderAlways` and `ImplementsChannelAlways`, the refinement of
`TranscriptChannel` step by step. The client's steps are those of `OnlineKaldiDecoder`,
so what was proved there is used here (`SameClient`, `ClientHolds`). As long as the
connection can be read, the kernel holds the bytes just before those still to be
written, by their numbers in `TranscriptChannel`, and none that was heard (`Stream`);
once it is reset it stays so, and what is written then is never read. A connection in
the queue is open at its client (`Queued`), so that a server without a client has
written nothing (`Silent`).

`FstReaderProofs` proves, from `FileAssumption`, for every graph, every place a file is
cut at and every number read from `Junk`: `TypeCorrect`, `FileStreamExactAlways` and
`WholeGraphAcceptedAlways`. The invariant `Position` places the reader in the layout
`WriteFst` made: in which part, how many cells before its end (`InParts`, `InTables`),
and that it has read the cells of the graph up to there (`Read`). It holds as long as
the reader sees the first reading of the file only (`Straight`): over a file stream, and
over an `mmap_stream` when the file is whole, its size known and no `tellg` asked.
`AlignOutput` says that no multiple of the alignment lies inside the padding, and that
is why `AlignInput` stops at its end.

Every invariant was checked by TLC on the instance of the component's run before it
was proved. Each safety invariant of a run that passes is now a theorem, and so are the
action property and both refinements.

Only model-checked: liveness (`LoadFSTReturns`, `ClosedIsReleased`, `WaitingIsServed`,
`FlagEndsSession`, `CallsReturn`, `WritesReturn`, `EveryCallAnswered`,
`OpenFSTReturns`), which is out of the prover's reach, as are ENABLED and induction over
data; and the four counterexamples, which are found and not proved.

## Findings

1. `initialize` after a failed `pthread_create` reports ports without a decoder
   (`InitializeTwice`).
2. `loadFST` raises the flag before it calls `Kill` (`LoadFSTKill`).
3. `ReadChunk` returns false in the middle of a stream (`EndOfStream`).
4. A client that connects again is never accepted, because nothing disconnects
   `outputServer` (`Reconnect`).

Related behaviour the models contain and no property forbids, because nothing in
the repository promises otherwise: a reload that closes the socket between
`select()` and `accept()` ends the process; a piece that ends inside a character is
lost; two connects that overlap leak a socket; a connect after a failed one throws
until `disconnect` is called; transcripts are emitted after `disconnect` has
returned, until the next connect cancels the subscription; the refresh counters
overflow after 37 hours; `read()` that returns 0 after an interrupted call finds EINTR
in `errno`, and the last incomplete chunk is dropped; what a client has sent and nobody
has read is discarded when its utterance ends early; without a graph an audio client is
held and not read; a client that never stops sending makes the next one wait for ever;
a reload may end the process in several ways; every
`initialize` leaks two open files; a missing or damaged graph ends the process, after
the old one has been unloaded; the code `loadFST` returns is dropped, and after a
failed `pthread_create` the next reload waits for ever; `mmap_stream` lets a cut graph
pass and misreads an aligned one.

## Plan

Every part of the plugin that can be built at this commit is modelled, and every safety
property that holds is proved. What remains:

1. That `PluginChannel`'s view of the bridge and `AsrBridge` fit together is the
   refinement `ImplementsHandoff`; a theorem that composes the two would state
   `AnsweredGraphIsUsed` for the two threads themselves.
2. That the two models of `ReadChunk`, `InputServer` with its accesses and `TcpServer`
   with its bytes, allow the same returns, as a common abstract specification.

## Not modelled

* Kaldi and OpenFst: external, 99% of the lines. What the plugin relies on is stated
  in `DecodeSession`; the two readers of graphs are in `FstReader`. Header, symbol
  tables and the numbers inside a cell are abstracted there.
* The method channel on Android and its JNI glue. They cannot be built at this commit:
  `asrbridge_online_android.cc:109` assigns the `DecoderConfiguration` of `initialize`
  to an int, `CMakeLists.txt` names sources under `src/main/c` that the repository
  does not have, and the Kotlin side answers an Int where Dart casts a List and has no
  handler for `loadFSTFromAsset` and `loadFSTFromFile`. There is no program a model
  could be faithful to. What it would share with iOS, the bridge, is modelled, and so
  is its `mmap_stream`.
* `pbackfail`, `seekpos`, `showmanyc` and the seeks of `mmap_stream` other than
  `tellg`: nothing that reads a graph reaches them.
* `main` of `asrbridge_online.cc` (a demonstration), `decode` of the Dart client
  (always throws), the platform interface, the Swift stub, the example application and
  the build files, which have no behaviour of their own.
* Wording, logging and the time stamps `produce_time` would add, which is always
  false.
