CONSTANTS
    CtrBits = 8
    MaxBlocks <- MCMaxBlocks
SPECIFICATION Spec
INVARIANTS TypeOK CounterNeverCarries
CHECK_DEADLOCK FALSE
