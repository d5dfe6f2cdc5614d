--------------------------- MODULE FstReaderProofs ---------------------------
(***************************************************************************)
(* openFST reads the graph that was written, for every file that WriteFst  *)
(* made, cut anywhere, or throws.                                          *)
(*                                                                         *)
(* The invariant says, for each label, where the reader is in the file:    *)
(* counted from the start of the part it reads, as WriteFst laid it out.   *)
(* Of the graph it has then what precedes that place.                      *)
(***************************************************************************)
EXTENDS FstReader, TLAPS

\* The reader sees the file as it was written, or never gets to its end.
Straight == buf = "mmap" => Whole(file) /\ Counted(file) /\ ~Header(file).aligned

Start(s) == file.starts[s]
States == Header(file).states
Arcs == Header(file).arcs

InVector == pc \in {"state", "narcs", "arcs"}
InConst == pc \in {"alignStates", "states", "alignArcs", "table"}

\* Where the reader is.
AtHeader == pc = "header" => gptr = 0 /\ state = 0 /\ got = <<>>

InParts ==
  InVector =>
    /\ Header(file).type = "vector"
    /\ state + (IF pc = "state" THEN 0 ELSE 1) <= Len(file.starts) - 1
    /\ Len(got) = gptr
    /\ pc = "state" => gptr = Start(state + 1)
    /\ pc = "narcs" => gptr = Start(state + 1) + 1
    /\ pc = "arcs" => left >= 0 /\ gptr + left = Start(state + 2) /\ gptr >= Start(state + 1) + 2

InTables ==
  InConst =>
    /\ Header(file).type = "const"
    /\ left >= 0
    /\ pc = "alignStates" =>
         /\ Header(file).aligned /\ left = States
         /\ 1 <= gptr /\ gptr <= Start(1) /\ Len(got) = 1
    /\ pc = "states" =>
         left <= States /\ gptr + left = Start(1) + States /\ Len(got) + left = 1 + States
    /\ pc = "alignArcs" =>
         /\ Header(file).aligned /\ left = Arcs
         /\ Start(1) + States <= gptr /\ gptr <= Start(2) /\ Len(got) = 1 + States
    /\ pc = "table" =>
         left <= Arcs /\ gptr + left = Start(2) + Arcs /\ Len(got) + left = 1 + States + Arcs

\* What the reader has.
Read ==
  /\ Len(got) <= Size(file)
  /\ \A i \in 1 .. Len(got) : got[i] = Graph(file)[i]

Position ==
  Straight /\ pc # "done" =>
    current = 0 /\ result = "none" /\ AtHeader /\ InParts /\ InTables
    /\ (pc # "header" => Read)

IInv == TypeOK /\ Position /\ FileStreamExact /\ WholeGraphAccepted

-----------------------------------------------------------------------------
(* What is known of a file, and the types                                   *)

Kinds == {"header", "weight", "narcs", "arc", "state", "pad"}

\* FileAssumption for the file that is read.
LEMMA FileFacts ==
  ASSUME file \in File
  PROVE  /\ file.written \in Seq(CellsWritten) /\ Len(file.written) \in Nat
         /\ file.kept \in Nat /\ file.kept <= Len(file.written)
         /\ States \in Nat \cup {-1} /\ Arcs \in Nat
         /\ Header(file).type = "vector" => WrittenByVectorFst(file)
         /\ Header(file).type = "const" => WrittenByConstFst(file)
  BY FileAssumption DEF States, Arcs

\* A cell of a file has a kind, which is never that of Junk, and a number.
LEMMA CellFacts ==
  ASSUME file \in File, NEW i \in 1 .. Len(file.written)
  PROVE  /\ file.written[i] \in CellsWritten
         /\ file.written[i] # Junk
         /\ file.written[i][1] \in Kinds /\ file.written[i][2] \in Nat
  <1>1. file.written[i] \in CellsWritten BY FileFacts
  <1>2. \A c \in CellsWritten : c[1] \in Kinds /\ c[2] \in Nat /\ c # Junk
    BY DEF CellsWritten, Kinds, Junk
  <1> QED BY <1>1, <1>2

\* What a reader gets is a cell of the file, or Junk.
LEMMA CellTyped ==
  ASSUME TypeOK, NEW kind
  PROVE  /\ Cell(kind) \in CellsWritten \cup {Junk}
         /\ Cell(kind) # Junk => Cell(kind)[2] \in Nat
  <1>1. file \in File /\ gptr \in Nat BY FileFacts DEF TypeOK
  <1>2. CASE InGetArea /\ file.written[gptr + 1][1] = kind
    <2>1. gptr + 1 \in 1 .. Len(file.written) BY <1>1, <1>2, FileFacts DEF InGetArea
    <2>2. Cell(kind) = file.written[gptr + 1] BY <1>2 DEF Cell
    <2> QED BY <1>1, <2>1, <2>2, CellFacts
  <1>3. CASE ~(InGetArea /\ file.written[gptr + 1][1] = kind) BY <1>3 DEF Cell
  <1> QED BY <1>2, <1>3

\* Neither pointer passes the end of the file.
LEMMA AdvanceTyped ==
  ASSUME TypeOK, Advance, file' = file
  PROVE  gptr' \in 0 .. file'.kept /\ current' \in 0 .. file'.kept
  <1>1. /\ file.kept \in Nat
        /\ gptr \in 0 .. file.kept /\ current \in 0 .. file.kept
    BY FileFacts DEF TypeOK
  <1> QED BY <1>1 DEF Advance, InGetArea, InUflow

\* A cell that is taken keeps the types.
LEMMA TakeTyped ==
  ASSUME TypeOK, NEW kind, Take(kind)
  PROVE  /\ file' \in File /\ buf' \in {"filebuf", "mmap"}
         /\ gptr' \in 0 .. file'.kept /\ current' \in 0 .. file'.kept
         /\ got' \in Seq(CellsWritten \cup {Junk})
  <1>1. file' = file /\ buf' = buf /\ Advance /\ got' = Append(got, Cell(kind)) BY DEF Take
  <1>2. Cell(kind) \in CellsWritten \cup {Junk} BY CellTyped
  <1>3. got \in Seq(CellsWritten \cup {Junk}) BY DEF TypeOK
  <1>4. got' \in Seq(CellsWritten \cup {Junk}) BY <1>1, <1>2, <1>3
  <1> QED BY <1>1, <1>4, AdvanceTyped DEF TypeOK

\* The types at the start, and after every step.
LEMMA InitTyped == Init => TypeOK
  <1> SUFFICES ASSUME Init PROVE TypeOK OBVIOUS
  <1>1. file.kept \in Nat BY FileFacts DEF Init
  <1>2. got = <<>> BY DEF Init
  <1>3. got \in Seq(CellsWritten \cup {Junk}) BY <1>2
  <1> QED BY <1>1, <1>3 DEF Init, TypeOK, Labels

LEMMA StepTyped == TypeOK /\ [Next]_vars => TypeOK'
  <1> SUFFICES ASSUME TypeOK, [Next]_vars PROVE TypeOK' OBVIOUS
  <1> DEFINE Stream == /\ file \in File /\ buf \in {"filebuf", "mmap"}
                       /\ gptr \in 0 .. file.kept /\ current \in 0 .. file.kept
             Got == got \in Seq(CellsWritten \cup {Junk})
             Control == /\ pc \in Labels /\ state \in Nat /\ left \in Nat \cup {-1}
                        /\ result \in {"none", "fst", "error"}
  <1>0. Stream /\ Got /\ Control BY DEF TypeOK
  <1>a. UNCHANGED streamVars => Stream' BY <1>0 DEF streamVars
  <1>b. UNCHANGED got => Got' BY <1>0
  <1>f. /\ Header(file).states \in Nat \cup {-1} /\ Header(file).arcs \in Nat
        /\ Header(file).type = "const" => Header(file).states \in Nat
    BY <1>0, FileFacts DEF States, Arcs, WrittenByConstFst
  <1>t. ASSUME NEW kind, Take(kind) PROVE Stream' /\ Got' BY <1>t, TakeTyped
  <1>r. Reject \/ Accept => Stream' /\ Got' /\ Control'
    BY <1>0, <1>a, <1>b DEF Reject, Accept, Labels
  <1> SUFFICES Stream' /\ Got' /\ Control' BY DEF TypeOK
  <1>1. CASE ReadHeader
    <2>1. CASE Reject BY <2>1, <1>r
    <2>2. CASE ~Reject
      <3>1. Take("header") /\ pc' \in Labels /\ left' = Header(file).states
            /\ UNCHANGED <<state, result>>
        BY <1>1, <2>2 DEF ReadHeader, Labels
      <3> QED BY <1>0, <1>f, <1>t, <3>1
    <2> QED BY <2>1, <2>2
  <1>2. CASE LastState BY <1>2, <1>r DEF LastState
  <1>3. CASE ReadWeight
    <2>1. Take("weight") /\ Control' BY <1>0, <1>3 DEF ReadWeight, Labels
    <2> QED BY <1>t, <2>1
  <1>4. CASE NoWeight
    <2>1. Reject \/ Accept BY <1>4 DEF NoWeight
    <2> QED BY <2>1, <1>r
  <1>5. CASE ReadNarcs
    <2>1. CASE Reject BY <2>1, <1>r
    <2>2. CASE ~Reject
      <3>1. /\ Take("narcs") /\ pc' = "arcs" /\ UNCHANGED <<state, result>>
            /\ left' \in IF Cell("narcs") = Junk THEN 0 .. MaxNarcs ELSE {Cell("narcs")[2]}
        BY <1>5, <2>2 DEF ReadNarcs
      <3>2. left' \in Nat BY <3>1, CellTyped, FileAssumption
      <3> QED BY <1>0, <1>t, <3>1, <3>2 DEF Labels
    <2> QED BY <2>1, <2>2
  <1>6. CASE NextState BY <1>0, <1>6, <1>a, <1>b DEF NextState, Labels
  <1>7. CASE ReadArc \/ ReadState
    <2>1. CASE Reject BY <2>1, <1>r
    <2>2. CASE ~Reject
      <3>1. Take("arc") \/ Take("state") BY <1>7, <2>2 DEF ReadArc, ReadState
      <3>2. left > 0 /\ left' = left - 1 /\ UNCHANGED <<pc, state, result>>
        BY <1>7, <2>2 DEF ReadArc, ReadState
      <3>3. Control' BY <1>0, <3>2
      <3> QED BY <1>t, <3>1, <3>3
    <2> QED BY <2>1, <2>2
  <1>8. CASE AlignInput
    <2>1. CASE Reject BY <2>1, <1>r
    <2>2. CASE TakePadding /\ UNCHANGED <<file, buf, pc, state, left, got, result>>
      BY <1>0, <1>b, <2>2, AdvanceTyped DEF TakePadding
    <2>3. CASE pc' \in Labels /\ UNCHANGED <<streamVars, state, left, got, result>>
      BY <1>0, <1>a, <1>b, <2>3
    <2> QED BY <1>8, <2>1, <2>2, <2>3 DEF AlignInput, Labels
  <1>9. CASE StatesRead
    BY <1>0, <1>9, <1>a, <1>b, <1>f DEF StatesRead, AfterStates, Labels
  <1>10. CASE ArcsRead BY <1>10, <1>r DEF ArcsRead
  <1>11. CASE Finished \/ UNCHANGED vars
    BY <1>0, <1>11, <1>a, <1>b DEF Finished, vars
  <1> QED BY <1>1, <1>2, <1>3, <1>4, <1>5, <1>6, <1>7, <1>8, <1>9, <1>10, <1>11 DEF Next, OpenFST

-----------------------------------------------------------------------------
(* The graph and the layout of its file                                     *)

\* What WriteFst says of the file that is read, with the numbers it stands for.
LEMMA VectorLayout ==
  ASSUME file \in File, Header(file).type = "vector"
  PROVE  /\ Len(file.starts) - 1 \in Nat
         /\ States = -1 \/ States = Len(file.starts) - 1
         /\ Start(1) = 1 /\ Start(Len(file.starts)) = Len(file.written)
         /\ 1 <= Len(file.written) /\ Kind(file, 1) = "header"
         /\ \A s \in 1 .. Len(file.starts) :
              Start(s) \in Nat /\ 1 <= Start(s) /\ Start(s) <= Len(file.written)
         /\ \A s \in 1 .. Len(file.starts) - 1 :
              /\ Start(s) + 2 <= Len(file.written)
              /\ Kind(file, Start(s) + 1) = "weight" /\ Kind(file, Start(s) + 2) = "narcs"
              /\ Start(s + 1) = Start(s) + 2 + file.written[Start(s) + 2][2]
              /\ \A i \in Start(s) + 3 .. Start(s + 1) : Kind(file, i) = "arc"
  <1>1. WrittenByVectorFst(file) BY FileFacts
  <1>2. file.starts \in Seq(1 .. Len(file.written)) /\ Len(file.written) \in Nat
    BY <1>1, FileFacts DEF WrittenByVectorFst
  <1>3. Len(file.starts) - 1 \in Nat /\ Len(file.starts) \in Nat
    BY <1>1, <1>2 DEF WrittenByVectorFst
  <1>4. \A s \in 1 .. Len(file.starts) : file.starts[s] \in 1 .. Len(file.written) BY <1>2
  <1>5. (Len(file.starts) - 1) + 1 = Len(file.starts) BY <1>3
  <1>6. Start(Len(file.starts)) = Len(file.written) BY <1>1, <1>5 DEF WrittenByVectorFst, Start
  <1>7. \A s \in 1 .. Len(file.starts) :
          Start(s) \in Nat /\ 1 <= Start(s) /\ Start(s) <= Len(file.written)
    BY <1>2, <1>4 DEF Start
  <1>8. Start(1) = 1 /\ Kind(file, 1) = "header" /\ 1 <= Len(file.written)
    BY <1>1, <1>3, <1>7 DEF WrittenByVectorFst, Start
  <1>9. States = -1 \/ States = Len(file.starts) - 1 BY <1>1 DEF WrittenByVectorFst, States
  <1>10. \A s \in 1 .. Len(file.starts) - 1 :
              /\ Start(s) + 2 <= Len(file.written)
              /\ Kind(file, Start(s) + 1) = "weight" /\ Kind(file, Start(s) + 2) = "narcs"
              /\ Start(s + 1) = Start(s) + 2 + file.written[Start(s) + 2][2]
              /\ \A i \in Start(s) + 3 .. Start(s + 1) : Kind(file, i) = "arc"
    BY <1>1, Zenon DEF WrittenByVectorFst, Start
  <1> QED BY <1>3, <1>6, <1>7, <1>8, <1>9, <1>10, Zenon

\* The same of a const graph.
LEMMA ConstLayout ==
  ASSUME file \in File, Header(file).type = "const"
  PROVE  /\ States \in Nat /\ Arcs \in Nat
         /\ Start(1) \in Nat /\ Start(2) \in Nat /\ 1 <= Start(1)
         /\ AlignOutput(file, 1, Start(1)) /\ AlignOutput(file, Start(1) + States, Start(2))
         /\ Start(1) + States <= Start(2) /\ Start(2) + Arcs = Len(file.written)
         /\ Kind(file, 1) = "header"
         /\ \A i \in Start(1) + 1 .. Start(1) + States : Kind(file, i) = "state"
         /\ \A i \in Start(2) + 1 .. Start(2) + Arcs : Kind(file, i) = "arc"
  <1>1. WrittenByConstFst(file) BY FileFacts
  <1>2. file.starts \in Seq(1 .. Len(file.written)) /\ Len(file.written) \in Nat
        /\ Len(file.starts) = 2 /\ Arcs \in Nat /\ States \in Nat
    BY <1>1, FileFacts DEF WrittenByConstFst, States
  <1>3. \A s \in 1 .. 2 : file.starts[s] \in 1 .. Len(file.written) BY <1>2
  <1>4. Start(1) \in Nat /\ Start(2) \in Nat /\ 1 <= Start(1) BY <1>2, <1>3 DEF Start
  <1>5. AlignOutput(file, 1, Start(1)) /\ AlignOutput(file, Start(1) + States, Start(2))
    BY <1>1 DEF WrittenByConstFst, Start, States
  <1>6. Start(1) + States <= Start(2) BY <1>2, <1>4, <1>5 DEF AlignOutput
  <1>7. Start(2) + Arcs = Len(file.written) BY <1>1 DEF WrittenByConstFst, Start, Arcs
  <1>8. /\ Kind(file, 1) = "header"
        /\ \A i \in Start(1) + 1 .. Start(1) + States : Kind(file, i) = "state"
        /\ \A i \in Start(2) + 1 .. Start(2) + Arcs : Kind(file, i) = "arc"
    BY <1>1, <1>7 DEF WrittenByConstFst, Start, States
  <1> QED BY <1>2, <1>4, <1>5, <1>6, <1>7, <1>8

\* Every cell of the graph is in the file, where Place says.
LEMMA GraphFacts ==
  ASSUME file \in File, Header(file).type \in {"vector", "const"}
  PROVE  /\ Size(file) \in Nat /\ 1 <= Size(file)
         /\ \A i \in 1 .. Size(file) :
              Place(file, i) \in 1 .. Len(file.written)
              /\ Graph(file)[i] = file.written[Place(file, i)]
         /\ Graph(file) \in Seq(CellsWritten) /\ Len(Graph(file)) = Size(file)
  <1>1. Size(file) \in Nat /\ 1 <= Size(file)
    <2>1. CASE Header(file).type = "vector"
      BY <2>1, VectorLayout, FileFacts DEF Size
    <2>2. CASE Header(file).type = "const"
      BY SMTT(30), <2>2, ConstLayout DEF Size, States, Arcs
    <2> QED BY <2>1, <2>2
  <1>2. ASSUME NEW i \in 1 .. Size(file) PROVE Place(file, i) \in 1 .. Len(file.written)
    <2>1. CASE Header(file).type = "vector" BY <2>1, FileFacts DEF Size, Place
    <2>2. CASE Header(file).type = "const"
      <3>1. /\ States \in Nat /\ Arcs \in Nat /\ Start(1) \in Nat /\ Start(2) \in Nat
            /\ 1 <= Start(1) /\ Start(1) + States <= Start(2)
            /\ Start(2) + Arcs = Len(file.written)
        BY <2>2, ConstLayout
      <3>2. i \in Nat /\ 1 <= i /\ i <= 1 + States + Arcs
        BY <1>1, <2>2 DEF Size, States, Arcs
      <3>3. Place(file, i) = IF i = 1 THEN 1
                             ELSE IF i <= 1 + States THEN Start(1) + (i - 1)
                             ELSE Start(2) + (i - 1 - States)
        BY <2>2 DEF Place, Start, States
      <3> QED BY <3>1, <3>2, <3>3
    <2> QED BY <2>1, <2>2
  <1>3. \A i \in 1 .. Size(file) : file.written[Place(file, i)] \in CellsWritten
    BY <1>2, CellFacts
  <1>4. \A i \in 1 .. Size(file) : Graph(file)[i] = file.written[Place(file, i)] BY DEF Graph
  <1>5. Graph(file) \in [1 .. Size(file) -> CellsWritten] BY <1>3 DEF Graph
  <1>6. Graph(file) \in Seq(CellsWritten) /\ Len(Graph(file)) = Size(file) BY <1>1, <1>5
  <1> QED BY <1>1, <1>2, <1>4, <1>6

\* A reader that has read a part of the graph and takes the next cell has read more.
LEMMA ReadMore ==
  ASSUME got \in Seq(CellsWritten \cup {Junk}), Read, Len(got) + 1 <= Size(file),
         Size(file) \in Nat,
         got' = Append(got, Graph(file)[Len(got) + 1]), file' = file
  PROVE  Read'
  <1>1. Len(got') = Len(got) + 1 /\ Len(got) \in Nat OBVIOUS
  <1>2. \A i \in 1 .. Len(got) : got'[i] = got[i] OBVIOUS
  <1>3. got'[Len(got) + 1] = Graph(file)[Len(got) + 1] OBVIOUS
  <1>4. ASSUME NEW i \in 1 .. Len(got') PROVE got'[i] = Graph(file)[i]
    BY <1>1, <1>2, <1>3 DEF Read
  <1>5. Graph(file)' = Graph(file) /\ Size(file)' = Size(file) BY DEF Graph, Size, Place, Header
  <1> QED BY <1>1, <1>4, <1>5 DEF Read

\* A reader that has read as many cells as the graph has, has read the graph.
LEMMA ReadAll ==
  ASSUME file \in File, Header(file).type \in {"vector", "const"},
         got \in Seq(CellsWritten \cup {Junk}), Read, Len(got) = Size(file)
  PROVE  got = Graph(file)
  <1>1. Graph(file) \in Seq(CellsWritten) /\ Len(Graph(file)) = Size(file) BY GraphFacts
  <1>2. \A i \in 1 .. Len(got) : got[i] = Graph(file)[i] BY DEF Read
  <1> QED BY <1>1, <1>2

-----------------------------------------------------------------------------
(* The reader does not leave the first reading of the file                  *)

\* Cells that are wanted are in the file, so the second reading does not begin.
LEMMA StillInFile ==
  ASSUME TypeOK, Straight, current = 0, gptr < Len(file.written)
  PROVE  /\ ~InUflow
         /\ Whole(file) => ~EndOfFile
  <1>1. file.kept \in Nat /\ Len(file.written) \in Nat /\ gptr \in Nat BY FileFacts DEF TypeOK
  <1> QED BY <1>1 DEF Straight, Whole, InGetArea, InUflow, EndOfFile

\* What a file has at the reader's place is what the reader gets.
LEMMA TakeStraight ==
  ASSUME TypeOK, Straight, current = 0,
         gptr < Len(file.written) \/ buf = "filebuf",
         NEW kind, Take(kind),
         gptr < Len(file.written) => Kind(file, gptr + 1) = kind
  PROVE  /\ gptr < Len(file.written)
         /\ gptr' = gptr + 1 /\ current' = 0 /\ file' = file /\ buf' = buf
         /\ got' = Append(got, file.written[gptr + 1])
  <1>1. file.kept \in Nat /\ Len(file.written) \in Nat /\ gptr \in Nat
        /\ file.kept <= Len(file.written)
    BY FileFacts DEF TypeOK
  <1>2. ~InUflow
    <2>1. CASE gptr < Len(file.written) BY <2>1, StillInFile
    <2>2. CASE buf = "filebuf" BY <2>2 DEF InUflow
    <2> QED BY <2>1, <2>2
  <1>3. InGetArea /\ gptr' = gptr + 1 /\ current' = current BY <1>2 DEF Take, Advance
  <1>4. gptr < Len(file.written) BY <1>1, <1>3 DEF InGetArea
  <1>5. Cell(kind) = file.written[gptr + 1] BY <1>3, <1>4 DEF Cell, Kind
  <1> QED BY <1>3, <1>4, <1>5 DEF Take

Good == FileStreamExact /\ WholeGraphAccepted

\* Nothing is promised before openFST returns,
LEMMA NotYetDone == ASSUME pc' # "done", result' = "none" PROVE Good'
  BY DEF Good, FileStreamExact, WholeGraphAccepted

\* a file that is not a whole graph may be rejected,
LEMMA MayReject ==
  ASSUME Reject, file \in File, ~Whole(file) \/ Header(file).type \notin {"vector", "const"}
  PROVE  Position' /\ Good'
  BY DEF Reject, streamVars, Position, Good, FileStreamExact, WholeGraphAccepted, Whole, Header

\* and the graph accepted when all of it has been read.
LEMMA MayAccept ==
  ASSUME Accept, TypeOK, Header(file).type \in {"vector", "const"}, Read, Len(got) = Size(file)
  PROVE  Position' /\ Good'
  <1>1. got = Graph(file) BY ReadAll DEF TypeOK
  <1>2. pc' = "done" /\ result' = "fst" /\ file' = file /\ got' = got
    BY DEF Accept, streamVars
  <1>3. Graph(file)' = Graph(file) BY <1>2 DEF Graph, Size, Place, Header
  <1>4. got' = Graph(file)' BY <1>1, <1>2, <1>3
  <1>5. Graph(file) \in Seq(CellsWritten) BY GraphFacts DEF TypeOK
  <1>6. got' = SubSeq(Graph(file)', 1, Len(got'))
    <2>1. \A q \in Seq(CellsWritten) : q = SubSeq(q, 1, Len(q)) OBVIOUS
    <2> QED BY <1>3, <1>4, <1>5, <2>1
  <1> QED BY <1>2, <1>4, <1>6 DEF Position, Good, FileStreamExact, WholeGraphAccepted

\* The header.
LEMMA HeaderStep ==
  ASSUME TypeOK, Position, Straight, ReadHeader
  PROVE  Position' /\ Good'
  <1>1. pc = "header" /\ gptr = 0 /\ got = <<>> /\ current = 0 /\ result = "none" /\ file \in File
    BY DEF ReadHeader, Position, AtHeader, TypeOK
  <1>2. CASE Take("header") /\ Header(file).type \in {"vector", "const"} /\ ~Reject
    <2>1. Kind(file, 1) = "header" /\ 1 <= Len(file.written)
      <3>1. CASE Header(file).type = "vector" BY <1>1, <3>1, VectorLayout
      <3>2. CASE Header(file).type = "const" BY <1>1, <3>2, ConstLayout, FileFacts
      <3> QED BY <1>2, <3>1, <3>2
    <2>2. Len(file.written) \in Nat BY <1>1, FileFacts
    <2>3. /\ gptr' = 1 /\ current' = 0 /\ file' = file /\ buf' = buf
          /\ got' = Append(got, file.written[1])
      <3>1. 0 < Len(file.written) /\ 0 + 1 = 1 BY <2>1, <2>2
      <3> QED BY <1>1, <1>2, <2>1, <3>1, TakeStraight
    <2>4. /\ result' = "none" /\ state' = state /\ left' = States
          /\ pc' = IF Header(file).type = "vector" THEN "state"
                   ELSE IF Header(file).aligned THEN "alignStates" ELSE "states"
      BY <1>1, <1>2 DEF ReadHeader, States
    <2>5. Read'
      <3>1. Graph(file)[1] = file.written[1] /\ 1 <= Size(file) /\ Size(file) \in Nat
        BY <1>1, <1>2, GraphFacts DEF Graph, Place
      <3>2. Len(got) = 0 /\ 0 + 1 = 1 /\ Read BY <1>1, <3>1 DEF Read
      <3> QED BY <2>3, <3>1, <3>2, ReadMore DEF TypeOK
    <2>6. Len(got') = 1 BY <1>1, <2>3
    <2>7. InParts'
      <3>1. CASE Header(file).type = "vector"
        <4>1. state = 0 BY <1>1 DEF Position, AtHeader
        <4> QED BY <1>1, <2>3, <2>4, <2>6, <3>1, <4>1, VectorLayout DEF InParts, InVector, Header, Start
      <3>2. CASE Header(file).type = "const"
        BY <2>4, <3>2 DEF InParts, InVector
      <3> QED BY <1>2, <3>1, <3>2
    <2>8. InTables'
      <3>1. CASE Header(file).type = "vector"
        BY <2>4, <3>1 DEF InTables, InConst
      <3>2. CASE Header(file).type = "const"
        BY <1>1, <2>3, <2>4, <2>6, <3>2, ConstLayout
        DEF InTables, InConst, Header, Start, States, AlignOutput
      <3> QED BY <1>2, <3>1, <3>2
    <2>9. Good' BY <2>4, NotYetDone
    <2> QED BY <2>3, <2>4, <2>5, <2>7, <2>8, <2>9 DEF Position, AtHeader
  <1>3. CASE Reject /\ (~InGetArea \/ Header(file).type \notin {"vector", "const"})
    <2>1. CASE Header(file).type \notin {"vector", "const"} BY <1>1, <1>3, <2>1, MayReject
    <2>2. CASE Header(file).type \in {"vector", "const"} /\ ~InGetArea
      <3>1. 1 <= Len(file.written)
        <4>1. CASE Header(file).type = "vector" BY <1>1, <4>1, VectorLayout
        <4>2. CASE Header(file).type = "const" BY <1>1, <4>2, ConstLayout, FileFacts
        <4> QED BY <2>2, <4>1, <4>2
      <3>2. ~Whole(file) BY <1>1, <2>2, <3>1, FileFacts DEF InGetArea, Whole
      <3> QED BY <1>1, <1>3, <3>2, MayReject
    <2> QED BY <1>3, <2>1, <2>2
  <1> QED BY <1>2, <1>3 DEF ReadHeader, Reject, Take

\* The states of a vector graph.
LEMMA VectorStep ==
  ASSUME TypeOK, Position, Straight, InVector,
         \/ LastState \/ ReadWeight \/ NoWeight \/ ReadNarcs \/ NextState \/ ReadArc
  PROVE  Position' /\ Good'
  <1>1. file \in File /\ pc # "done" BY DEF TypeOK, InVector
  <1>2. /\ current = 0 /\ result = "none" /\ Header(file).type = "vector" /\ Len(got) = gptr
        /\ Read
        /\ pc = "state" => gptr = Start(state + 1) /\ state <= Len(file.starts) - 1
        /\ pc # "state" => state + 1 <= Len(file.starts) - 1
        /\ pc = "narcs" => gptr = Start(state + 1) + 1
        /\ pc = "arcs" =>
             left >= 0 /\ gptr + left = Start(state + 2) /\ gptr >= Start(state + 1) + 2
    <2>1. state \in Nat BY DEF TypeOK
    <2>2. pc # "header" BY DEF InVector
    <2>3. InParts /\ Read /\ current = 0 /\ result = "none" BY <1>1, <2>2 DEF Position
    <2> QED BY <2>1, <2>3 DEF InParts, InVector
  <1>3. PICK n \in Nat : n = Len(file.starts) - 1 BY <1>1, <1>2, VectorLayout
  <1>4. /\ States = -1 \/ States = n
        /\ Start(n + 1) = Len(file.written)
        /\ \A s \in 1 .. n + 1 : Start(s) \in Nat /\ 1 <= Start(s) /\ Start(s) <= Len(file.written)
        /\ \A s \in 1 .. n :
              /\ Start(s) + 2 <= Len(file.written)
              /\ Kind(file, Start(s) + 1) = "weight" /\ Kind(file, Start(s) + 2) = "narcs"
              /\ Start(s + 1) = Start(s) + 2 + file.written[Start(s) + 2][2]
              /\ \A i \in Start(s) + 3 .. Start(s + 1) : Kind(file, i) = "arc"
    <2>1. n + 1 = Len(file.starts) BY <1>1, <1>2, <1>3, VectorLayout
    <2> QED BY <1>1, <1>2, <1>3, <2>1, VectorLayout
  <1>5. /\ Len(file.written) \in Nat /\ gptr \in Nat /\ state \in Nat /\ left \in Int
        /\ Size(file) = Len(file.written)
        /\ \A i \in 1 .. Len(file.written) : Graph(file)[i] = file.written[i]
    BY <1>1, <1>2, FileFacts DEF TypeOK, Size, Graph, Place
  <1>6. got \in Seq(CellsWritten \cup {Junk}) BY DEF TypeOK
  \* One cell more.
  <1>t. ASSUME NEW kind, Take(kind), gptr < Len(file.written) => Kind(file, gptr + 1) = kind,
               gptr < Len(file.written) \/ buf = "filebuf"
        PROVE  /\ gptr < Len(file.written)
               /\ gptr' = gptr + 1 /\ current' = 0 /\ file' = file /\ buf' = buf
               /\ got' = Append(got, file.written[gptr + 1])
               /\ Len(got') = gptr' /\ Read'
    <2>1. /\ gptr < Len(file.written)
          /\ gptr' = gptr + 1 /\ current' = 0 /\ file' = file /\ buf' = buf
          /\ got' = Append(got, file.written[gptr + 1])
      BY <1>2, <1>t, TakeStraight
    <2>2. Len(got') = gptr' BY <1>2, <1>6, <2>1
    <2>3. Graph(file)[Len(got) + 1] = file.written[gptr + 1] /\ Len(got) + 1 <= Size(file)
      BY <1>2, <1>5, <2>1
    <2>4. Read' BY <1>2, <1>5, <1>6, <2>1, <2>3, ReadMore
    <2> QED BY <2>1, <2>2, <2>4
  \* A cell that is in the file can be read from it.
  <1>r. ASSUME Reject, gptr < Len(file.written), EndOfFile \/ InUflow
        PROVE  Position' /\ Good'
    <2>1. ~InUflow /\ (Whole(file) => ~EndOfFile) BY <1>2, <1>r, StillInFile
    <2> QED BY <1>1, <1>r, <2>1, MayReject
  <1>7. ASSUME pc = "state", state # States PROVE gptr < Len(file.written) => state + 1 <= n
    BY <1>2, <1>3, <1>4, <1>5, <1>7
  <1>w. ASSUME pc = "state", state # States, gptr < Len(file.written)
        PROVE  Kind(file, gptr + 1) = "weight"
    <2>1. state + 1 \in 1 .. n BY <1>5, <1>7, <1>w
    <2>2. Kind(file, Start(state + 1) + 1) = "weight" BY <1>4, <2>1
    <2> QED BY <1>2, <1>w, <2>2
  <1>8. CASE LastState
    <2>1. state = n /\ gptr = Len(file.written) /\ Accept
      BY <1>2, <1>4, <1>5, <1>8 DEF LastState, States
    <2> QED BY <1>2, <1>5, <2>1, MayAccept
  <1>9. CASE ReadWeight
    <2>1. pc = "state" /\ pc' = "narcs" /\ state # States /\ Take("weight")
          /\ state' = state /\ left' = left /\ result' = "none"
      BY <1>2, <1>9 DEF ReadWeight, States
    <2>2. gptr < Len(file.written) \/ buf = "filebuf"
      <3>1. CASE States = -1 BY <1>1, <3>1 DEF Straight, Counted, States, TypeOK
      <3>2. CASE States = n
        <4>1. state + 1 <= n BY <1>2, <1>3, <1>5, <2>1, <3>2
        <4>2. state + 1 \in 1 .. n BY <1>5, <4>1
        <4>3. Start(state + 1) \in Nat /\ Start(state + 1) + 2 <= Len(file.written)
          BY <1>4, <4>2
        <4> QED BY <1>2, <1>5, <2>1, <4>3
      <3> QED BY <1>4, <3>1, <3>2
    <2>3. gptr < Len(file.written) => Kind(file, gptr + 1) = "weight"
      BY <1>w, <2>1
    <2>4. gptr < Len(file.written) /\ gptr' = gptr + 1 /\ current' = 0 /\ file' = file
          /\ Len(got') = gptr' /\ Read'
      BY <1>t, <2>1, <2>2, <2>3
    <2>5. InParts'
      BY <1>2, <1>3, <1>5, <1>7, <2>1, <2>4 DEF InParts, InVector, Header, Start
    <2> QED BY <2>1, <2>4, <2>5, NotYetDone DEF Position, AtHeader, InTables, InConst
  <1>10. CASE NoWeight
    <2>1. pc = "state" /\ state # States /\ EndOfFile BY <1>10 DEF NoWeight, States
    <2>2. CASE Counted(file)
      <3>1. States = n BY <1>4, <2>2 DEF Counted, States
      <3>2. gptr < Len(file.written)
        <4>1. state + 1 \in 1 .. n BY <1>2, <1>3, <1>5, <2>1, <3>1
        <4>2. Start(state + 1) \in Nat /\ Start(state + 1) + 2 <= Len(file.written)
          BY <1>4, <4>1
        <4> QED BY <1>2, <1>5, <2>1, <4>2
      <3> QED BY <1>10, <1>r, <2>1, <2>2, <3>2 DEF NoWeight
    <2>3. CASE ~Counted(file)
      <3>1. Accept /\ buf = "filebuf" BY <1>10, <2>3 DEF NoWeight, Straight, TypeOK
      <3>2. CASE gptr = Len(file.written) BY <1>2, <1>5, <3>1, <3>2, MayAccept
      <3>3. CASE gptr < Len(file.written)
        <4>1. Kind(file, gptr + 1) = "weight" BY <1>w, <2>1, <3>3
        <4>2. ~Whole(file) BY <1>2, <2>1, <3>3, StillInFile
        <4>3. Graph(file) \in Seq(CellsWritten) /\ Len(Graph(file)) = Len(file.written)
          BY <1>1, <1>2, <1>5, GraphFacts
        <4>4. got = SubSeq(Graph(file), 1, Len(got))
          BY <1>2, <1>5, <1>6, <3>3, <4>3 DEF Read
        <4>5. Graph(file)[Len(got) + 1][1] = "weight" BY <1>2, <1>5, <3>3, <4>1 DEF Kind
        <4>6. pc' = "done" /\ file' = file /\ got' = got /\ buf' = buf
          BY <3>1 DEF Accept, streamVars
        <4>7. Graph(file)' = Graph(file) /\ (Whole(file) <=> Whole(file)')
              /\ (Counted(file) <=> Counted(file)')
          BY <4>6 DEF Graph, Size, Place, Header, Whole, Counted
        <4>8. FileStreamExact' BY <2>3, <4>2, <4>4, <4>5, <4>6, <4>7 DEF FileStreamExact
        <4>9. WholeGraphAccepted' BY <4>2, <4>7 DEF WholeGraphAccepted
        <4> QED BY <4>6, <4>8, <4>9 DEF Position, Good
      <3> QED BY <1>2, <1>5, <3>2, <3>3 DEF Read
    <2> QED BY <2>2, <2>3
  <1>11. CASE ReadNarcs
    <2>1. pc = "narcs" /\ gptr = Start(state + 1) + 1 /\ state + 1 <= n
          /\ gptr < Len(file.written) /\ Kind(file, gptr + 1) = "narcs"
      <3>1. pc = "narcs" /\ gptr = Start(state + 1) + 1 /\ state + 1 <= n /\ state + 1 \in 1 .. n
        BY <1>2, <1>3, <1>5, <1>11 DEF ReadNarcs
      <3>2. Start(state + 1) \in Nat /\ Start(state + 1) + 2 <= Len(file.written)
            /\ Kind(file, Start(state + 1) + 2) = "narcs"
        BY <1>4, <3>1
      <3>3. gptr + 1 = Start(state + 1) + 2 BY <3>1, <3>2
      <3> QED BY <1>5, <3>1, <3>2, <3>3
    <2>2. CASE Reject /\ (EndOfFile \/ InUflow) BY <1>r, <2>1, <2>2
    <2>3. CASE Take("narcs") /\ ~Reject
      <3>1. /\ gptr' = gptr + 1 /\ current' = 0 /\ file' = file /\ Len(got') = gptr' /\ Read'
            /\ got' = Append(got, file.written[gptr + 1])
        BY <1>t, <2>1, <2>3
      <3>2. Cell("narcs") = file.written[gptr + 1]
        <4>1. file.written[gptr + 1] = Cell("narcs")
          <5>1. \A a, b : Append(got, a) = Append(got, b) => a = b
            <6> TAKE a, b
            <6>1. Append(got, a)[Len(got) + 1] = a /\ Append(got, b)[Len(got) + 1] = b
              BY <1>6
            <6> QED BY <6>1
          <5>2. got' = Append(got, Cell("narcs")) BY <2>3 DEF Take
          <5> QED BY <3>1, <5>1, <5>2
        <4> QED BY <4>1
      <3>3. gptr + 1 \in 1 .. Len(file.written) BY <1>5, <2>1
      <3>4. file.written[gptr + 1] # Junk /\ file.written[gptr + 1][2] \in Nat
        BY <1>1, <3>3, CellFacts
      <3>5. left' = file.written[gptr + 1][2] /\ pc' = "arcs" /\ state' = state /\ result' = "none"
        <4>1. left' \in {Cell("narcs")[2]} /\ pc' = "arcs" /\ UNCHANGED <<state, result>>
          BY <1>11, <2>3, <3>2, <3>4 DEF ReadNarcs
        <4> QED BY <1>2, <3>2, <4>1
      <3>6. state + 1 \in 1 .. n /\ Start(state + 1) \in Nat /\ gptr + 1 = Start(state + 1) + 2
            /\ (state + 1) + 1 = state + 2
        BY <1>4, <1>5, <2>1
      <3>7. Start(state + 2) = gptr + 1 + file.written[gptr + 1][2]
        BY <1>4, <3>6
      <3>8. left' >= 0 /\ gptr' + left' = Start(state + 2) /\ gptr' >= Start(state + 1) + 2
        BY <3>1, <3>4, <3>5, <3>6, <3>7
      <3>9. InParts'
        BY <1>3, <2>1, <3>1, <3>5, <3>8, <1>2 DEF InParts, InVector, Header, Start
      <3> QED BY <3>1, <3>5, <3>9, NotYetDone DEF Position, AtHeader, InTables, InConst
    <2> QED BY <1>11, <2>2, <2>3 DEF ReadNarcs, Reject, Take
  <1>12. CASE NextState
    <2>1. pc = "arcs" /\ pc' = "state" /\ left = 0 /\ state' = state + 1 /\ gptr' = gptr
          /\ current' = current /\ got' = got /\ file' = file /\ result' = result
      BY <1>12 DEF NextState, streamVars
    <2>2. state' <= n /\ gptr' = Start(state' + 1) /\ Len(got') = gptr'
      BY <1>2, <1>3, <1>5, <2>1
    <2>3. InParts' BY <1>2, <1>3, <1>5, <2>1, <2>2 DEF InParts, InVector, Header, Start
    <2>4. Read' BY <1>2, <2>1 DEF Read, Graph, Size, Place, Header
    <2> QED BY <1>2, <2>1, <2>3, <2>4, NotYetDone DEF Position, AtHeader, InTables, InConst
  <1>13. CASE ReadArc
    <2>1. pc = "arcs" /\ left > 0 BY <1>13 DEF ReadArc, InVector
    <2>2. state + 1 \in 1 .. n /\ state + 2 \in 1 .. n + 1 /\ (state + 1) + 1 = state + 2
      BY <1>2, <1>3, <1>5, <2>1
    <2>3. gptr < Len(file.written) /\ Kind(file, gptr + 1) = "arc"
      <3>1. Start(state + 1) \in Nat /\ Start(state + 2) \in Nat
            /\ Start(state + 2) <= Len(file.written)
        BY <1>4, <2>2, SMTT(30)
      <3>2. gptr + 1 \in Start(state + 1) + 3 .. Start(state + 2)
        BY <1>2, <1>5, <2>1, <3>1
      <3> QED BY <1>4, <1>5, <2>2, <3>1, <3>2
    <2>4. CASE Reject /\ EndOfFile BY <1>r, <2>3, <2>4
    <2>5. CASE Take("arc") /\ ~Reject
      <3>1. gptr' = gptr + 1 /\ current' = 0 /\ file' = file /\ Len(got') = gptr' /\ Read'
        BY <1>t, <2>3, <2>5
      <3>2. left' = left - 1 /\ pc' = pc /\ state' = state /\ result' = "none"
        BY <1>2, <1>13, <2>5 DEF ReadArc
      <3>3. gptr' + left' = Start(state + 2) /\ left' >= 0 /\ gptr' >= Start(state + 1) + 2
        <4>1. Start(state + 1) \in Nat BY <1>4, <2>2
        <4> QED BY <1>2, <1>5, <2>1, <3>1, <3>2, <4>1
      <3>4. InParts' BY <1>2, <2>1, <3>1, <3>2, <3>3 DEF InParts, InVector, Header, Start
      <3> QED BY <2>1, <3>1, <3>2, <3>4, NotYetDone DEF Position, AtHeader, InTables, InConst
    <2> QED BY <1>13, <2>4, <2>5 DEF ReadArc, Reject, Take
  <1> QED BY <1>8, <1>9, <1>10, <1>11, <1>12, <1>13

\* The two tables of a const graph, and the padding before them.
LEMMA ConstStep ==
  ASSUME TypeOK, Position, Straight, InConst,
         AlignInput \/ ReadState \/ StatesRead \/ ReadArc \/ ArcsRead
  PROVE  Position' /\ Good'
  <1>1. file \in File /\ pc # "done" /\ pc # "header" BY DEF TypeOK, InConst
  <1>2. current = 0 /\ result = "none" /\ Header(file).type = "const" /\ Read /\ InTables
    BY <1>1 DEF Position, InTables
  <1>3. /\ States \in Nat /\ Arcs \in Nat /\ Start(1) \in Nat /\ Start(2) \in Nat
        /\ 1 <= Start(1) /\ Start(1) + States <= Start(2)
        /\ Start(2) + Arcs = Len(file.written)
        /\ AlignOutput(file, 1, Start(1)) /\ AlignOutput(file, Start(1) + States, Start(2))
        /\ \A i \in Start(1) + 1 .. Start(1) + States : Kind(file, i) = "state"
        /\ \A i \in Start(2) + 1 .. Start(2) + Arcs : Kind(file, i) = "arc"
    BY <1>1, <1>2, ConstLayout
  <1>4. /\ Len(file.written) \in Nat /\ gptr \in Nat /\ left \in Nat
        /\ Size(file) = 1 + States + Arcs /\ Size(file) \in Nat
    BY SMTT(30), <1>1, <1>2, <1>3, FileFacts DEF TypeOK, InTables, Size, States, Arcs
  <1>5. got \in Seq(CellsWritten \cup {Junk}) /\ Len(got) \in Nat BY DEF TypeOK
  <1>k. file' = file => States' = States /\ Arcs' = Arcs /\ Start(1)' = Start(1)
                        /\ Start(2)' = Start(2) /\ Header(file)' = Header(file)
    BY DEF States, Arcs, Start, Header
  <1>g. file' = file /\ got' = got => Read' BY <1>2 DEF Read, Graph, Size, Place, Header
  \* Where the cells of the graph are.
  <1>p. ASSUME NEW k \in Nat, 0 < k, k <= States
        PROVE  Graph(file)[1 + k] = file.written[Start(1) + k]
    <2>1. 1 + k \in 1 .. Size(file) /\ 1 + k # 1 /\ 1 + k <= 1 + States /\ (1 + k) - 1 = k
      BY <1>3, <1>4, <1>p
    <2>2. Graph(file)[1 + k] = file.written[Place(file, 1 + k)] BY <2>1 DEF Graph
    <2>3. Place(file, 1 + k) = Start(1) + k BY <1>2, <2>1 DEF Place, States, Start
    <2> QED BY <2>2, <2>3
  <1>q. ASSUME NEW k \in Nat, 0 < k, k <= Arcs
        PROVE  Graph(file)[1 + States + k] = file.written[Start(2) + k]
    <2>1. 1 + States + k \in 1 .. Size(file) /\ 1 + States + k # 1
          /\ ~(1 + States + k <= 1 + States) /\ (1 + States + k) - 1 - States = k
      BY <1>3, <1>4, <1>q
    <2>2. Graph(file)[1 + States + k] = file.written[Place(file, 1 + States + k)]
      BY <2>1 DEF Graph
    <2>3. Place(file, 1 + States + k) = Start(2) + k BY <1>2, <2>1 DEF Place, States, Start
    <2> QED BY <2>2, <2>3
  <1>t. ASSUME NEW kind, Take(kind), Kind(file, gptr + 1) = kind, gptr < Len(file.written),
               Graph(file)[Len(got) + 1] = file.written[gptr + 1], Len(got) + 1 <= Size(file)
        PROVE  /\ gptr' = gptr + 1 /\ current' = 0 /\ file' = file /\ buf' = buf
               /\ Len(got') = Len(got) + 1 /\ Read'
    <2>1. /\ gptr' = gptr + 1 /\ current' = 0 /\ file' = file /\ buf' = buf
          /\ got' = Append(got, file.written[gptr + 1])
      BY <1>2, <1>t, TakeStraight
    <2> QED BY <1>2, <1>4, <1>5, <1>t, <2>1, ReadMore
  <1>r. ASSUME Reject, gptr < Len(file.written), EndOfFile PROVE Position' /\ Good'
    <2>1. ~Whole(file) BY <1>2, <1>r, StillInFile
    <2> QED BY <1>1, <1>r, <2>1, MayReject
  <1>6. CASE AlignInput
    <2>1. pc \in {"alignStates", "alignArcs"} BY <1>6 DEF AlignInput
    <2>2. Header(file).aligned /\ buf = "filebuf" /\ Tell = gptr
      BY <1>2, <2>1 DEF InTables, InConst, Straight, TypeOK, Tell
    <2> DEFINE from == IF pc = "alignStates" THEN 1 ELSE Start(1) + States
               to == IF pc = "alignStates" THEN Start(1) ELSE Start(2)
    <2>3. /\ from \in Nat /\ to \in Nat /\ from <= gptr /\ gptr <= to /\ to <= Len(file.written)
          /\ AlignOutput(file, from, to)
      BY <1>2, <1>3, <1>4, <2>1 DEF InTables, InConst
    <2>4. to % Align = 0 /\ \A i \in from .. to - 1 : i % Align # 0
      BY <2>2, <2>3 DEF AlignOutput
    <2>5. CASE gptr % Align = 0
      <3>1. gptr = to
        <4>1. ~(gptr \in from .. to - 1) BY <2>4, <2>5
        <4> HIDE DEF from, to
        <4> QED BY <1>4, <2>3, <4>1
      <3>2. /\ pc' = IF pc = "alignStates" THEN "states" ELSE "table"
            /\ file' = file /\ gptr' = gptr /\ current' = current /\ left' = left
            /\ got' = got /\ result' = result
        BY <1>6, <2>2, <2>5 DEF AlignInput, streamVars
      <3>3. InTables'
        <4>1. CASE pc = "alignStates"
          <5>1. left = States /\ Len(got) = 1 /\ gptr = Start(1) /\ pc' = "states"
            BY <1>2, <3>1, <3>2, <4>1 DEF InTables, InConst
          <5>2. left' <= States' /\ gptr' + left' = Start(1)' + States'
                /\ Len(got') + left' = 1 + States' /\ left' >= 0
            BY <1>3, <1>k, <3>2, <5>1
          <5> QED BY <1>2, <1>k, <3>2, <5>1, <5>2 DEF InTables, InConst
        <4>2. CASE pc = "alignArcs"
          <5>1. left = Arcs /\ Len(got) = 1 + States /\ gptr = Start(2) /\ pc' = "table"
            BY <1>2, <3>1, <3>2, <4>2 DEF InTables, InConst
          <5>2. left' <= Arcs' /\ gptr' + left' = Start(2)' + Arcs'
                /\ Len(got') + left' = 1 + States' + Arcs' /\ left' >= 0
            BY <1>3, <1>k, <3>2, <5>1
          <5> QED BY <1>2, <1>k, <3>2, <5>1, <5>2 DEF InTables, InConst
        <4> QED BY <2>1, <4>1, <4>2
      <3> QED BY <1>2, <1>g, <2>1, <3>2, <3>3, NotYetDone DEF Position, AtHeader, InParts, InVector
    <2>6. CASE gptr % Align # 0
      <3>1. gptr < to
        <4>1. gptr # to BY <2>4, <2>6
        <4> HIDE DEF from, to
        <4> QED BY <1>4, <2>3, <4>1
      <3>2. gptr < Len(file.written)
        <4> HIDE DEF from, to
        <4> QED BY <1>4, <2>3, <3>1
      <3>3. CASE EndOfFile /\ Reject BY <1>r, <3>2, <3>3
      <3>4. CASE TakePadding /\ UNCHANGED <<file, buf, pc, state, left, got, result>>
        <4>1. gptr' = gptr + 1 /\ current' = current
          BY <2>2, <3>4 DEF TakePadding, Advance, InUflow
        <4>2. InTables'
          BY <1>2, <1>3, <1>4, <1>k, <2>1, <2>2, <3>1, <3>4, <4>1 DEF InTables, InConst
        <4> QED BY <1>2, <1>g, <2>1, <3>4, <4>1, <4>2, NotYetDone
                DEF Position, AtHeader, InParts, InVector
      <3> QED BY <1>6, <2>2, <2>6, <3>3, <3>4 DEF AlignInput
    <2> QED BY <2>5, <2>6
  <1>7. CASE ReadState
    <2>1. pc = "states" /\ left > 0 BY <1>7 DEF ReadState
    <2>2. left <= States /\ gptr + left = Start(1) + States /\ Len(got) + left = 1 + States
      BY <1>2, <2>1 DEF InTables, InConst
    <2>3. gptr < Len(file.written) /\ Kind(file, gptr + 1) = "state"
      <3>1. gptr + 1 \in Start(1) + 1 .. Start(1) + States BY <1>3, <1>4, <2>1, <2>2
      <3> QED BY <1>3, <1>4, <2>1, <2>2, <3>1
    <2>4. Graph(file)[Len(got) + 1] = file.written[gptr + 1] /\ Len(got) + 1 <= Size(file)
      <3>1. PICK k \in Nat : k = States - left + 1
        <4>1. States - left + 1 \in Nat BY <1>3, <1>4, <2>2
        <4> QED BY <4>1
      <3>2. 0 < k /\ k <= States /\ Len(got) + 1 = 1 + k /\ gptr + 1 = Start(1) + k
        <4>1. \A n, g, l, s, a \in Nat :
                l > 0 /\ l <= s /\ g + l = a + s /\ n + l = 1 + s /\ k = s - l + 1
                => 0 < k /\ k <= s /\ n + 1 = 1 + k /\ g + 1 = a + k
          OBVIOUS
        <4>2. /\ States \in Nat /\ Arcs \in Nat /\ Start(1) \in Nat /\ Start(2) \in Nat
              /\ gptr \in Nat /\ left \in Nat /\ Len(got) \in Nat
          BY <1>3, <1>4, <1>5
        <4> QED BY <2>1, <2>2, <3>1, <4>1, <4>2, SMTT(30)
      <3>3. 1 + k <= Size(file) BY <1>3, <1>4, <3>2
      <3> QED BY <1>p, <3>2, <3>3
    <2>5. CASE Reject /\ EndOfFile BY <1>r, <2>3, <2>5
    <2>6. CASE Take("state") /\ ~Reject
      <3>1. gptr' = gptr + 1 /\ current' = 0 /\ file' = file /\ Len(got') = Len(got) + 1 /\ Read'
        BY <1>t, <2>3, <2>4, <2>6
      <3>2. left' = left - 1 /\ pc' = pc /\ result' = "none"
        BY <1>2, <1>7, <2>6 DEF ReadState
      <3>3. left' <= States' /\ gptr' + left' = Start(1)' + States'
            /\ Len(got') + left' = 1 + States' /\ left' >= 0
        BY SMTT(30), <1>3, <1>4, <1>5, <1>k, <2>1, <2>2, <3>1, <3>2
      <3>4. InTables' BY <1>2, <1>k, <2>1, <3>1, <3>2, <3>3 DEF InTables, InConst
      <3> QED BY <2>1, <3>1, <3>2, <3>4, NotYetDone DEF Position, AtHeader, InParts, InVector
    <2> QED BY <1>7, <2>5, <2>6 DEF ReadState, Reject, Take
  <1>8. CASE StatesRead
    <2>1. /\ pc = "states" /\ left = 0 /\ left' = Arcs
          /\ pc' = IF Header(file).aligned THEN "alignArcs" ELSE "table"
          /\ file' = file /\ gptr' = gptr /\ current' = current /\ got' = got /\ result' = result
      BY <1>8 DEF StatesRead, AfterStates, Arcs, streamVars
    <2>2. gptr = Start(1) + States /\ Len(got) = 1 + States
      BY <1>2, <1>3, <1>4, <1>5, <2>1 DEF InTables, InConst
    <2>3. ~Header(file).aligned => gptr = Start(2) BY <1>3, <2>2 DEF AlignOutput
    <2>4. InTables'
      BY <1>2, <1>3, <1>4, <1>5, <1>k, <2>1, <2>2, <2>3 DEF InTables, InConst
    <2> QED BY <1>2, <1>g, <2>1, <2>4, NotYetDone DEF Position, AtHeader, InParts, InVector
  <1>9. CASE ReadArc
    <2>1. pc = "table" /\ left > 0 BY <1>9 DEF ReadArc, InConst
    <2>2. left <= Arcs /\ gptr + left = Start(2) + Arcs /\ Len(got) + left = 1 + States + Arcs
      BY <1>2, <2>1 DEF InTables, InConst
    <2>3. gptr < Len(file.written) /\ Kind(file, gptr + 1) = "arc"
      <3>1. gptr + 1 \in Start(2) + 1 .. Start(2) + Arcs BY <1>3, <1>4, <2>1, <2>2
      <3> QED BY <1>3, <1>4, <2>1, <2>2, <3>1
    <2>4. Graph(file)[Len(got) + 1] = file.written[gptr + 1] /\ Len(got) + 1 <= Size(file)
      <3>1. PICK k \in Nat : k = Arcs - left + 1
        <4>1. Arcs - left + 1 \in Nat BY <1>3, <1>4, <2>2
        <4> QED BY <4>1
      <3>2. 0 < k /\ k <= Arcs /\ Len(got) + 1 = 1 + States + k /\ gptr + 1 = Start(2) + k
        <4>1. \A n, g, l, s, a, b \in Nat :
                l > 0 /\ l <= b /\ g + l = a + b /\ n + l = 1 + s + b /\ k = b - l + 1
                => 0 < k /\ k <= b /\ n + 1 = 1 + s + k /\ g + 1 = a + k
          OBVIOUS
        <4>2. /\ States \in Nat /\ Arcs \in Nat /\ Start(1) \in Nat /\ Start(2) \in Nat
              /\ gptr \in Nat /\ left \in Nat /\ Len(got) \in Nat
          BY <1>3, <1>4, <1>5
        <4> QED BY <2>1, <2>2, <3>1, <4>1, <4>2, SMTT(30)
      <3>3. 1 + States + k <= Size(file) BY <1>3, <1>4, <3>2
      <3> QED BY <1>q, <3>2, <3>3
    <2>5. CASE Reject /\ EndOfFile BY <1>r, <2>3, <2>5
    <2>6. CASE Take("arc") /\ ~Reject
      <3>1. gptr' = gptr + 1 /\ current' = 0 /\ file' = file /\ Len(got') = Len(got) + 1 /\ Read'
        BY <1>t, <2>3, <2>4, <2>6
      <3>2. left' = left - 1 /\ pc' = pc /\ result' = "none"
        BY <1>2, <1>9, <2>6 DEF ReadArc
      <3>3. left' <= Arcs' /\ left' >= 0 /\ gptr' + left' = Start(2)' + Arcs'
        BY <1>3, <1>4, <1>k, <2>1, <2>2, <3>1, <3>2
      <3>5. Len(got') + left' = 1 + States' + Arcs'
        BY <1>3, <1>4, <1>5, <1>k, <2>2, <3>1, <3>2
      <3>4. InTables' BY <1>2, <1>k, <2>1, <3>1, <3>2, <3>3, <3>5 DEF InTables, InConst
      <3> QED BY <2>1, <3>1, <3>2, <3>4, NotYetDone DEF Position, AtHeader, InParts, InVector
    <2> QED BY <1>9, <2>5, <2>6 DEF ReadArc, Reject, Take
  <1>10. CASE ArcsRead
    <2>1. pc = "table" /\ left = 0 /\ Accept BY <1>10 DEF ArcsRead
    <2>2. Len(got) = Size(file) BY <1>2, <1>4, <1>5, <2>1 DEF InTables, InConst
    <2> QED BY <1>2, <2>1, <2>2, MayAccept
  <1> QED BY <1>6, <1>7, <1>8, <1>9, <1>10

-----------------------------------------------------------------------------
(* The theorems                                                             *)

\* Nothing is read yet.
LEMMA InitIInv == Init => IInv
  <1> SUFFICES ASSUME Init PROVE IInv OBVIOUS
  <1>1. TypeOK BY InitTyped
  <1>2. Position BY DEF Init, Position, AtHeader, InParts, InVector, InTables, InConst
  <1>3. FileStreamExact /\ WholeGraphAccepted BY DEF Init, FileStreamExact, WholeGraphAccepted
  <1> QED BY <1>1, <1>2, <1>3 DEF IInv

\* Every step keeps the invariant: one lemma above for each part of the readers.
LEMMA StepIInv == ASSUME IInv, [Next]_vars PROVE IInv'
  <1>1. TypeOK /\ Position /\ Good BY DEF IInv, Good
  <1>2. TypeOK' BY <1>1, StepTyped
  <1>3. CASE UNCHANGED vars \/ Finished
    <2>1. UNCHANGED vars BY <1>3 DEF Finished
    <2>2. Position'
      <3> USE <2>1 DEF vars, streamVars
      <3>1. (Straight <=> Straight') /\ (AtHeader <=> AtHeader')
        BY DEF Straight, Whole, Counted, Header, AtHeader
      <3>2. (InParts <=> InParts') /\ (InTables <=> InTables')
        BY DEF InParts, InVector, InTables, InConst, Header, Start, States, Arcs
      <3>3. Read <=> Read' BY DEF Read, Graph, Size, Place, Header
      <3> QED BY <1>1, <3>1, <3>2, <3>3 DEF Position
    <2>3. Good'
      BY <1>1, <2>1
      DEF vars, streamVars, Good, FileStreamExact, WholeGraphAccepted, Whole, Counted, Header,
          Graph, Size, Place
    <2> QED BY <1>2, <2>2, <2>3 DEF IInv, Good
  <1>4. CASE OpenFST
    <2>1. CASE Straight
      <3>1. CASE pc = "header"
        <4>1. ReadHeader
          BY <1>4, <3>1
          DEF OpenFST, LastState, ReadWeight, NoWeight, ReadNarcs, NextState, ReadArc,
              AlignInput, ReadState, StatesRead, ArcsRead
        <4> QED BY <1>1, <1>2, <2>1, <4>1, HeaderStep DEF IInv, Good
      <3>2. CASE InVector
        <4>1. LastState \/ ReadWeight \/ NoWeight \/ ReadNarcs \/ NextState \/ ReadArc
          BY <1>4, <3>2
          DEF OpenFST, InVector, ReadHeader, AlignInput, ReadState, StatesRead, ArcsRead
        <4> QED BY <1>1, <1>2, <2>1, <3>2, <4>1, VectorStep DEF IInv, Good
      <3>3. CASE InConst
        <4>1. AlignInput \/ ReadState \/ StatesRead \/ ReadArc \/ ArcsRead
          BY <1>4, <3>3
          DEF OpenFST, InConst, ReadHeader, LastState, ReadWeight, NoWeight, ReadNarcs,
              NextState
        <4> QED BY <1>1, <1>2, <2>1, <3>3, <4>1, ConstStep DEF IInv, Good
      <3>4. pc \in Labels /\ pc # "done"
        BY <1>1, <1>4
        DEF TypeOK, OpenFST, ReadHeader, LastState, ReadWeight, NoWeight, ReadNarcs, NextState,
            ReadArc, AlignInput, ReadState, StatesRead, ArcsRead
      <3> QED BY <3>1, <3>2, <3>3, <3>4 DEF Labels, InVector, InConst
    <2>2. CASE ~Straight
      <3>1. UNCHANGED <<file, buf>>
        BY <1>4
        DEF OpenFST, ReadHeader, LastState, ReadWeight, NoWeight, ReadNarcs, NextState, ReadArc,
            AlignInput, ReadState, StatesRead, ArcsRead, Reject, Accept, Take, streamVars
      <3>2. ~Straight' /\ buf = "mmap"
        BY <2>2, <3>1 DEF Straight, Whole, Counted, Header
      <3>3. Good'
        BY <3>1, <3>2 DEF Good, FileStreamExact, WholeGraphAccepted, Straight
      <3> QED BY <1>2, <3>2, <3>3 DEF IInv, Good, Position
    <2> QED BY <2>1, <2>2
  <1> QED BY <1>3, <1>4 DEF Next

\* The invariant holds in every state, for every file and either stream.
THEOREM Inductive == Spec => []IInv
  <1>1. Init => IInv BY InitIInv
  <1>2. IInv /\ [Next]_vars => IInv' BY StepIInv
  <1> QED BY <1>1, <1>2, PTL DEF Spec

\* Every variable has its type: the reader leaves neither reading of the file.
THEOREM TypeCorrect == Spec => []TypeOK
  <1>1. IInv => TypeOK BY DEF IInv
  <1> QED BY <1>1, Inductive, PTL

\* From a file stream openFST returns the graph that was written, or throws: for any
\* graph, cut anywhere, and whatever number of arcs is read from Junk.
THEOREM FileStreamExactAlways == Spec => []FileStreamExact
  <1>1. IInv => FileStreamExact BY DEF IInv
  <1> QED BY <1>1, Inductive, PTL

\* A whole graph of known size without alignment is read from an mmap_stream as from a
\* file stream.
THEOREM WholeGraphAcceptedAlways == Spec => []WholeGraphAccepted
  <1>1. IInv => WholeGraphAccepted BY DEF IInv
  <1> QED BY <1>1, Inductive, PTL
=============================================================================
