\* Six events, one undecodable, through a ring of two and channels of two.
SPECIFICATION FairSpec
CONSTANTS
    RingSize = 2
    BufSize = 2
    MaxEvents = 6
    Malformed = {3}
INVARIANTS ReadIsHandledOrInFlight ClosedInOrder
PROPERTIES ImplementsDelivery ReadLeadsToHandled StopLeadsToExit
