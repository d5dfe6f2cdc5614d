SPECIFICATION Spec
CONSTANTS
  Main = Main
  None = None
  Thread = {t1, t2}
  Addr = {a1, a2}
  Fst = {f1, f2}
  Desc = {d1, d2, d3}
  Port = {p1, p2}
SYMMETRY Symmetry
INVARIANT RepliedPortsAreServed
\* The process may have ended.
CHECK_DEADLOCK FALSE
