\* The same stream as MCStream.cfg, with a peer that may send three
\* messages: enough for a greeting to be repeated twice, or for the
\* handshake timer to fire and two greetings to follow.  A blocked
\* goroutine is a state with no successor for it, so deadlock is not
\* checked.
CONSTANTS
    Outbound = TRUE
    ClientVersion <- MCClientVersion
    PeerVersions <- MCPeerVersions
    QueueCap = 1
    NotifCap = 3
    MaxRecv = 3
    MaxSends = 2
SPECIFICATION StreamSpec
INVARIANT NoStuckGoroutine
CHECK_DEADLOCK FALSE
