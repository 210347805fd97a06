\* One thread writes messages that fit; a process may go down.
SPECIFICATION FairSpec
CONSTANTS
    Senders = {s1}
    Lengths = {1, 2, 3}
    HeaderLen = 2
    BufSize = 4
    SocketBuffer = 3
    MaxFrames = 4
    Kernel = {"close"}
PROPERTIES ChannelSpec Delivery
\* Every message is sent and the receiver waits in recv().
CHECK_DEADLOCK FALSE
