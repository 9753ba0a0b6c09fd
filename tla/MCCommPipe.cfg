CONSTANTS
    Size = 4
    Chunks = 2
    MaxSent = 9
SPECIFICATION FairSpec
INVARIANTS ReadsInOrder FlushedReaderWakes SleepersHaveAWaker PolledReadNeverSleeps
PROPERTIES ImplementsFifo FlushedIsRead
CHECK_DEADLOCK FALSE
