CONSTANTS
    NumNodes = 3
    Cids = {1, 2, 3}
    Transfer <- MC_Transfer
SPECIFICATION Spec
INVARIANT AwaitCompleteMeansWritten
INVARIANT BlackboardMatchesRendezvous
INVARIANT TypeOK
PROPERTY ImplementsRendezvous
PROPERTY AllTransfersComplete
