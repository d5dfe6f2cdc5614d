------------------------------ MODULE FstReader ------------------------------
(***************************************************************************)
(* How loadFST reads a decoding graph: openFST of asrbridge_online.cc and  *)
(* the readers it dispatches to, VectorFst::Read and ConstFst::Read, on an *)
(* istream over a std::filebuf (iOS) or over an mmap_stream (main and the  *)
(* Android glue).                                                          *)
(*                                                                         *)
(* A file is a sequence of cells, a cell being what one step of a reader   *)
(* asks for: the header, a final weight, a number of arcs, an arc, an      *)
(* entry of ConstFst's table of states, or a byte of padding.  The reader  *)
(* does not see what kind of cell it gets: a cell of another kind, or one  *)
(* made of what a cut file and its second reading leave, is Junk, and      *)
(* numbers read from it may be any.                                        *)
(*                                                                         *)
(* mmap_stream gives the get area [begin_, end_) to std::streambuf, which  *)
(* moves through it by itself; current_ stays at begin_ until the area is  *)
(* used up, and uflow then reads the file a second time.                   *)
(***************************************************************************)
EXTENDS Integers, Sequences

CONSTANTS
  File,        \* the files a caller may pass
  Align,       \* cells of an alignment unit
  MaxNarcs,    \* bound: the number of arcs that Junk may be read as
  CharSigned   \* plain char is signed, so that the byte 255 is the eof of uflow

\* A file was written with a header and cells; `kept` of them are left.  `starts`
\* are the numbers of cells before its parts, see the writers below.
Header(f) == f.header
Whole(f) == f.kept = Len(f.written)
Counted(f) == Header(f).states # -1

Kind(f, i) == f.written[i][1]

\* VectorFst::WriteFst: a part for each state, its weight, the number of its arcs and
\* these; the last start is the end.  The header may lack the number of states.
WrittenByVectorFst(f) ==
  LET n == Len(f.starts) - 1
  IN  /\ n \in Nat /\ Header(f).states \in {-1, n}
      /\ f.starts \in Seq(1 .. Len(f.written))
      /\ Kind(f, 1) = "header"
      /\ f.starts[1] = 1 /\ f.starts[n + 1] = Len(f.written)
      /\ \A s \in 1 .. n :
           /\ f.starts[s] + 2 <= Len(f.written)
           /\ Kind(f, f.starts[s] + 1) = "weight"
           /\ Kind(f, f.starts[s] + 2) = "narcs"
           /\ f.starts[s + 1] = f.starts[s] + 2 + f.written[f.starts[s] + 2][2]
           /\ \A i \in f.starts[s] + 3 .. f.starts[s + 1] : Kind(f, i) = "arc"

\* AlignOutput: bytes are added until tellp is a multiple of the alignment.
AlignOutput(f, from, to) ==
  IF Header(f).aligned
  THEN from <= to /\ to % Align = 0 /\ \A i \in from .. to - 1 : i % Align # 0
  ELSE to = from

\* ConstFst::WriteFst: two parts, the table of states and the table of arcs.
WrittenByConstFst(f) ==
  /\ Header(f).states \in Nat
  /\ f.starts \in Seq(1 .. Len(f.written)) /\ Len(f.starts) = 2
  /\ AlignOutput(f, 1, f.starts[1])
  /\ AlignOutput(f, f.starts[1] + Header(f).states, f.starts[2])
  /\ Len(f.written) = f.starts[2] + Header(f).arcs
  /\ Kind(f, 1) = "header"
  /\ \A i \in f.starts[1] + 1 .. f.starts[1] + Header(f).states : Kind(f, i) = "state"
  /\ \A i \in f.starts[2] + 1 .. Len(f.written) : Kind(f, i) = "arc"

CellsWritten == {"header", "weight", "narcs", "arc", "state", "pad"} \X Nat

ASSUME FileAssumption ==
  /\ Align \in Nat \ {0} /\ MaxNarcs \in Nat /\ CharSigned \in BOOLEAN
  /\ \A f \in File :
       /\ Header(f).type \in {"vector", "const", "other", "unreadable"}
       /\ Header(f).states \in Nat \cup {-1} /\ Header(f).arcs \in Nat
       /\ Header(f).aligned \in BOOLEAN
       /\ f.written \in Seq(CellsWritten)
       /\ f.kept \in 0 .. Len(f.written)
       /\ Header(f).type = "vector" => WrittenByVectorFst(f)
       /\ Header(f).type = "const" => WrittenByConstFst(f)

VARIABLES
  file, buf,   \* the stream: what it reads, and its kind of stream buffer
  gptr,        \* cells taken from the get area
  current,     \* cells taken by uflow: current_ - begin_
  pc,          \* where openFST is
  state,       \* states read
  left,        \* arcs or entries still to be read
  got,         \* what the reader has taken for the graph, cell by cell
  result       \* openFST's

streamVars == <<file, buf, gptr, current>>
vars == <<streamVars, pc, state, left, got, result>>

Junk == <<"junk", 0>>

Init ==
  /\ file \in File
  /\ buf \in {"filebuf", "mmap"}
  /\ gptr = 0 /\ current = 0
  /\ pc = "header"
  /\ state = 0 /\ left = 0
  /\ got = <<>>
  /\ result = "none"

-----------------------------------------------------------------------------
(* The stream                                                               *)

\* Cells are left in the get area: std::streambuf takes them without a call of
\* underflow or uflow; a filebuf refills its area until the file ends.
InGetArea == gptr < file.kept

\* Mutant: uflow tests current_ against the wrong end.
InUflowOneMore == buf = "mmap" /\ ~InGetArea /\ current <= file.kept

\* uflow: current_ has not reached end_.
InUflow == buf = "mmap" /\ ~InGetArea /\ current < file.kept

\* The end of the file, or a byte that uflow returns as eof.
EndOfFile == ~InGetArea /\ (InUflow => CharSigned)

\* The cell a reader that wants one of this kind gets.
Cell(kind) ==
  IF InGetArea /\ file.written[gptr + 1][1] = kind THEN file.written[gptr + 1] ELSE Junk

Advance ==
  \/ InGetArea /\ gptr' = gptr + 1 /\ UNCHANGED current
  \/ InUflow /\ current' = current + 1 /\ UNCHANGED gptr

Take(kind) ==
  /\ Advance
  /\ got' = Append(got, Cell(kind))
  /\ UNCHANGED <<file, buf>>

\* tellg: seekoff(0, cur), which knows current_ only.
Tell == IF buf = "mmap" THEN current ELSE gptr

-----------------------------------------------------------------------------
(* openFST                                                                  *)

\* KALDI_ERR: openFST throws.
Reject ==
  /\ pc' = "done" /\ result' = "error"
  /\ UNCHANGED <<streamVars, state, left, got>>

Accept ==
  /\ pc' = "done" /\ result' = "fst"
  /\ UNCHANGED <<streamVars, state, left, got>>

\* The header, its arc type and the dispatch on its fst type.
ReadHeader ==
  /\ pc = "header"
  /\ \/ /\ InGetArea
        /\ Header(file).type \in {"vector", "const"}
        /\ Take("header")
        /\ pc' = IF Header(file).type = "vector" THEN "state"
                 ELSE IF Header(file).aligned THEN "alignStates" ELSE "states"
        /\ left' = Header(file).states
        /\ UNCHANGED <<state, result>>
     \/ (~InGetArea \/ Header(file).type \notin {"vector", "const"}) /\ Reject

-----------------------------------------------------------------------------
(* VectorFst::Read                                                          *)

\* All the states the header promises; without a number there is always another.
LastState ==
  /\ pc = "state"
  /\ state = Header(file).states
  /\ Accept

ReadWeight ==
  /\ pc = "state"
  /\ state # Header(file).states
  /\ Take("weight")
  /\ pc' = "narcs"
  /\ UNCHANGED <<state, left, result>>

\* Mutant: no test for "Unexpected end of file".
NoWeightAccepted == pc = "state" /\ state # Header(file).states /\ EndOfFile /\ Accept

\* The weight cannot be read: the end of a graph without a number of states, or an
\* unexpected end of file.
NoWeight ==
  /\ pc = "state"
  /\ state # Header(file).states
  /\ EndOfFile
  /\ IF Counted(file) THEN Reject ELSE Accept

\* A number of arcs; a negative one is none.  ReserveArcs throws for one that is
\* out of reach.
ReadNarcs ==
  /\ pc = "narcs"
  /\ \/ /\ Take("narcs")
        /\ left' \in IF Cell("narcs") = Junk THEN 0 .. MaxNarcs ELSE {Cell("narcs")[2]}
        /\ pc' = "arcs"
        /\ UNCHANGED <<state, result>>
     \/ (EndOfFile \/ InUflow) /\ Reject

NextState ==
  /\ pc = "arcs" /\ left = 0
  /\ state' = state + 1
  /\ pc' = "state"
  /\ UNCHANGED <<streamVars, left, got, result>>

\* An arc, of VectorFst or of the table of ConstFst.
ReadArc ==
  /\ pc \in {"arcs", "table"} /\ left > 0
  /\ \/ Take("arc") /\ left' = left - 1 /\ UNCHANGED <<pc, state, result>>
     \/ EndOfFile /\ Reject

-----------------------------------------------------------------------------
(* ConstFst::Read                                                           *)

\* Mutant: AlignInput does not take the padding.
PaddingLeft == UNCHANGED <<gptr, current>>

\* strm.read(&c, 1)
TakePadding == Advance

\* AlignInput: bytes are skipped until tellg is a multiple of the alignment.
AlignInput ==
  /\ pc \in {"alignStates", "alignArcs"}
  /\ IF Tell % Align = 0
     THEN /\ pc' = IF pc = "alignStates" THEN "states" ELSE "table"
          /\ UNCHANGED <<streamVars, state, left, got, result>>
     ELSE \/ TakePadding /\ UNCHANGED <<file, buf, pc, state, left, got, result>>
          \/ EndOfFile /\ Reject

\* The table of states; then the table of arcs.
ReadState ==
  /\ pc = "states" /\ left > 0
  /\ \/ Take("state") /\ left' = left - 1 /\ UNCHANGED <<pc, state, result>>
     \/ EndOfFile /\ Reject

\* Mutant: the input is aligned once.
AlignedOnce == "table"

AfterStates == IF Header(file).aligned THEN "alignArcs" ELSE "table"

StatesRead ==
  /\ pc = "states" /\ left = 0
  /\ left' = Header(file).arcs
  /\ pc' = AfterStates
  /\ UNCHANGED <<streamVars, state, got, result>>

ArcsRead ==
  /\ pc = "table" /\ left = 0
  /\ Accept

OpenFST ==
  \/ ReadHeader
  \/ LastState \/ ReadWeight \/ NoWeight \/ ReadNarcs \/ NextState \/ ReadArc
  \/ AlignInput \/ ReadState \/ StatesRead \/ ArcsRead

\* loadFST goes on.
Finished == pc = "done" /\ UNCHANGED vars

Next == OpenFST \/ Finished

Spec == Init /\ [][Next]_vars

FairSpec == Spec /\ WF_vars(OpenFST)

-----------------------------------------------------------------------------
(* Properties                                                               *)

Labels == {"header", "state", "narcs", "arcs", "alignStates", "states", "alignArcs", "table", "done"}

TypeOK ==
  /\ file \in File /\ buf \in {"filebuf", "mmap"}
  /\ gptr \in 0 .. file.kept /\ current \in 0 .. file.kept
  /\ pc \in Labels
  /\ state \in Nat /\ left \in Nat \cup {-1}
  /\ got \in Seq(CellsWritten \cup {Junk})
  /\ result \in {"none", "fst", "error"}

\* Where the i-th cell of the graph is in the file.
Place(f, i) ==
  IF Header(f).type # "const" \/ i = 1 THEN i
  ELSE IF i <= 1 + Header(f).states THEN f.starts[1] + (i - 1)
  ELSE f.starts[2] + (i - 1 - Header(f).states)

\* Its number of cells: those of the file without the padding.
Size(f) ==
  IF Header(f).type = "const" THEN 1 + Header(f).states + Header(f).arcs ELSE Len(f.written)

\* The graph a file was written for.
Graph(f) == [i \in 1 .. Size(f) |-> f.written[Place(f, i)]]

\* From a file stream openFST returns the graph that was written, every state and arc
\* of it, or throws; a graph written without a number of states may lose its last
\* ones, never a part of one.
FileStreamExact ==
  buf = "filebuf" /\ result = "fst" =>
    IF Counted(file)
    THEN got = Graph(file)
    ELSE /\ got = SubSeq(Graph(file), 1, Len(got))
         /\ got # Graph(file) => ~Whole(file) /\ Graph(file)[Len(got) + 1][1] = "weight"

\* A whole graph is read, exactly, from either stream: the double reading of an
\* mmap_stream does no harm unless the reader looks for the end of the file, and its
\* tellg none unless the graph is aligned.
WholeGraphAccepted ==
  pc = "done" /\ Whole(file) /\ Header(file).type \in {"vector", "const"}
    /\ (buf = "mmap" => Counted(file) /\ ~Header(file).aligned)
  => result = "fst" /\ got = Graph(file)

\* openFST returns for every file, cut anywhere: loadFST runs it on the platform
\* thread, with no decoder running.
OpenFSTReturns == <>(pc = "done")
=============================================================================
