SPECIFICATION FairSpec
CONSTANTS
  Call = {k1, k2, k3, k4}
  None = None
INVARIANTS TypeOK OneSubscription Settled
PROPERTY CallsReturn
\* The application may make no further call.
CHECK_DEADLOCK FALSE
