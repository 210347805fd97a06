\* A ring of four samples, blocks of two.
SPECIFICATION Spec
CONSTANTS
    Half = 2
    Block = 2
    MaxTicks = 5
INVARIANTS TypeOK CountIsExact DelayLine
\* Every block is back and popped.
CHECK_DEADLOCK FALSE
