SPECIFICATION FairSpec
CONSTANTS
  File <- Files
  Align = 3
  MaxNarcs = 2
  CharSigned = TRUE
INVARIANTS TypeOK FileStreamExact WholeGraphAccepted
PROPERTY OpenFSTReturns
