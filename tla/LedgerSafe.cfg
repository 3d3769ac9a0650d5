\* A short write under the run lock, or a power loss among concurrent writers.
CONSTANTS
    w1 = w1  w2 = w2  w3 = w3  a = a  b = b  c = c  d = d
    NL = NL  Mark = Mark
    Writers <- MCWriters
    RecordsOf <- MCRecordsOf
    Batches <- MCBatches
    Settings <- MCSettings
SPECIFICATION LedgerSpec
CHECK_DEADLOCK FALSE
INVARIANTS NeverStopsReaders AckedStaysReadable
PROPERTIES UndoneBatchIsGone ImplementsLedger
