----------------------------- MODULE MCFstReader -----------------------------
(* Small graph files for FstReader: a graph is the number of arcs of each    *)
(* state; every file is cut at every place.                                  *)
EXTENDS FstReader, SequencesExt

Graphs == {<<>>, <<1>>, <<0, 2>>, <<2, 1>>}

ArcCells(n) == [i \in 1 .. n |-> <<"arc", 0>>]
Padding(n) == [i \in 1 .. (Align - (n % Align)) % Align |-> <<"pad", 0>>]
ArcCount(g) == FoldSeq(LAMBDA n, sum : n + sum, 0, g)

VectorCells(g) ==
  <<<<"header", 0>>>>
    \o FlattenSeq([s \in DOMAIN g |-> <<<<"weight", 0>>, <<"narcs", g[s]>>>> \o ArcCells(g[s])])

ConstCells(g, aligned) ==
  LET top == <<<<"header", 0>>>> \o IF aligned THEN Padding(1) ELSE <<>>
      states == top \o [s \in DOMAIN g |-> <<"state", 0>>]
  IN  states \o (IF aligned THEN Padding(Len(states)) ELSE <<>>) \o ArcCells(ArcCount(g))

VectorStarts(g) ==
  [s \in 1 .. Len(g) + 1 |-> FoldSeq(LAMBDA n, sum : n + 2 + sum, 1, SubSeq(g, 1, s - 1))]

ConstStarts(g, aligned) ==
  LET cells == Len(ConstCells(g, aligned))
  IN  <<IF aligned THEN 1 + Len(Padding(1)) ELSE 1, cells - ArcCount(g)>>

HeaderOf(type, states, g, aligned) ==
  [type |-> type, states |-> states, arcs |-> ArcCount(g), aligned |-> aligned]

Cuts(header, cells, starts) ==
  {[header |-> header, written |-> cells, starts |-> starts, kept |-> k] :
     k \in 0 .. Len(cells)}

Files ==
  UNION {Cuts(HeaderOf("vector", n, g, FALSE), VectorCells(g), VectorStarts(g)) :
           <<g, n>> \in {<<g, n>> \in Graphs \X (-1 .. 2) : n \in {-1, Len(g)}}}
  \cup UNION {Cuts(HeaderOf("const", Len(g), g, aligned), ConstCells(g, aligned),
                   ConstStarts(g, aligned)) :
                <<g, aligned>> \in Graphs \X BOOLEAN}
  \cup UNION {Cuts(HeaderOf(type, 1, <<1>>, FALSE), VectorCells(<<1>>), VectorStarts(<<1>>)) :
                type \in {"other", "unreadable"}}
=============================================================================
