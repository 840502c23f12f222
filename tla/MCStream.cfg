\* An outbound stream against a peer that may send any message, up to
\* MaxRecv (two) of them, while other goroutines send two messages of any
\* priority.  Channels hold one message each, messageNotifChan three, the
\* same ratio (1 : 3) as the code's 2048 : 6144.  The stream stops when
\* both loops have returned (or a goroutine is blocked), so deadlock is not
\* checked.
CONSTANTS
    Outbound = TRUE
    ClientVersion <- MCClientVersion
    PeerVersions <- MCPeerVersions
    QueueCap = 1
    NotifCap = 3
    MaxRecv = 2
    MaxSends = 2
SPECIFICATION StreamSpec
INVARIANT StreamTypeOK
INVARIANT QueuedMessagesNotified
CHECK_DEADLOCK FALSE
