\* Two threads write to one pipe; every outcome of the kernel.
SPECIFICATION Spec
CONSTANTS
    Senders = {s1, s2}
    Lengths = {0, 2, 3}
    HeaderLen = 2
    BufSize = 3
    SocketBuffer = 4
    MaxFrames = 2
    Kernel = {"short_send", "short_read", "close"}
SYMMETRY Symmetry
INVARIANTS TypeOK FramingHolds
\* Every message is sent and the receiver waits in recv().
CHECK_DEADLOCK FALSE
