\* One session channel; more window sizes than the channel holds.  The model rests
\* when the session is over.
SPECIFICATION FairSpec
CONSTANTS
    Cap = 3
    MaxSizes = 7
INVARIANT TypeOK
PROPERTIES SizesInOrder LatestSizeArrives HandlerEnds SessionCloses
CHECK_DEADLOCK FALSE
