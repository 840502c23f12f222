------------------------------- MODULE Stream -------------------------------
(***************************************************************************)
(* One peer stream of network/stream.go, with the route-table operations  *)
(* it calls (network/route_table.go).                                      *)
(*                                                                         *)
(* StartLoop runs two goroutines per stream: readLoop (connect and Hello   *)
(* for an outbound stream, then read, parse and handleMessage) and         *)
(* writeLoop (wait for the handshake, then drain the three priority        *)
(* channels on each notification).  A third actor, app, stands for the     *)
(* other goroutines that call SendMessage on the stream: the route table's *)
(* SyncWithPeer (SyncRoute, high priority) and SendMessageToPeer (sync      *)
(* responses, low priority).  close is called from any of them and is     *)
(* serialized by syncMutex.                                                 *)
(*                                                                         *)
(* Go channels are their lengths: handshakeSucceedCh and quitWriteCh have  *)
(* capacity 1; the priority channels QueueCap; messageNotifChan NotifCap.  *)
(* A send on a full channel blocks, a select with default drops.           *)
(*                                                                         *)
(* The peer writes framed messages into the connection in order; one Read *)
(* returns any non-empty prefix of what has arrived, and readLoop handles  *)
(* every complete message of its buffer before it reads again.  A message *)
(* is its name and the fields the handlers test: the NodeId match, the     *)
(* client version, the compression flag bit, and whether its payload      *)
(* decodes.  A frame whose header fails VerifyHeader, whose ChainID        *)
(* differs or whose data checksum fails is the name "bad".                 *)
(***************************************************************************)
EXTENDS Naturals, Sequences

CONSTANTS
    Outbound,       \* TRUE: NewStreamFromPID (we dial); FALSE: NewStream (peer dialled)
    PeerVersions,   \* client versions the peer may announce, as <<X, Y, Z>>
    ClientVersion,  \* our ClientVersion "0.1.0" as <<0, 1, 0>>
    QueueCap,       \* capacity of each priority channel (2*1024 in the code)
    NotifCap,       \* capacity of messageNotifChan (6*1024 in the code)
    MaxRecv,        \* bound on the messages the peer sends
    MaxSends        \* bound on the SendMessage calls of app

ASSUME /\ Outbound \in BOOLEAN
       /\ QueueCap \in Nat \ {0} /\ NotifCap \in Nat
       /\ MaxRecv \in Nat /\ MaxSends \in Nat

VARIABLES
    status,     \* s.status: "init", "succeed" or "closed"
    conn,       \* s.stream: "none" (nil), "open", or "closed" (by us or the peer)
    inbox,      \* what the peer has written that readLoop has not read
    nrecv,      \* messages the peer has sent
    compressed, \* s.reservedFlag = CompressionReserved
    hsCh,       \* len(handshakeSucceedCh)
    quitCh,     \* len(quitWriteCh)
    notif,      \* len(messageNotifChan)
    queued,     \* len of the high, normal and low priority channels
    inRouteTable, \* routeTable holds s.pid (AddPeerStream / RemovePeerStream)
    learned,    \* routeTable holds the peers of a ROUTETABLE message (AddPeers)
    buf,        \* readLoop's messageBuffer: read, not yet handled
    gr,         \* per loop goroutine ("rd", "wr"): pc and where close returns to
    app,        \* the SendMessage caller: pc, priority, calls made
    mutex       \* holder of syncMutex: "rd", "wr" or "none"

vars == <<status, conn, inbox, nrecv, compressed, hsCh, quitCh, notif, queued,
          inRouteTable, learned, buf, gr, app, mutex>>

Prios == {"high", "normal", "low"}
Names == {"hello", "ok", "bye", "syncroute", "routetable", "data", "bad"}

\* The messages the peer may write.  Only HELLO and OK carry a NodeId and
\* version, only ROUTETABLE and data messages a payload the handler decodes.
Msg(n, id, v, c, d) == [name |-> n, idOK |-> id, version |-> v, compress |-> c, intact |-> d]
PeerMsgs ==
    {Msg(n, id, v, c, TRUE) : n \in {"hello", "ok"}, id \in BOOLEAN, v \in PeerVersions, c \in BOOLEAN}
    \cup {Msg(n, TRUE, ClientVersion, FALSE, TRUE) : n \in {"bye", "syncroute", "bad"}}
    \cup {Msg(n, TRUE, ClientVersion, FALSE, d) : n \in {"routetable", "data"}, d \in BOOLEAN}

Loops == {"rd", "wr"}
PCs == {"connect", "hello", "loop", "hsSendHello", "hsSendOk", "okWrite", "rtQueue", "rtNotify",
        "waitHs", "dispatch", "closeLock", "closeQuit", "exited"}
AppPCs == {"idle", "queue", "notify"}

StreamTypeOK ==
    /\ status \in {"init", "succeed", "closed"}
    /\ conn \in {"none", "open", "closed"}
    /\ inbox \in Seq(PeerMsgs) /\ nrecv \in 0..MaxRecv
    /\ compressed \in BOOLEAN
    /\ hsCh \in 0..1 /\ quitCh \in 0..1
    /\ notif \in 0..NotifCap /\ queued \in [Prios -> 0..QueueCap]
    /\ inRouteTable \in BOOLEAN /\ learned \in BOOLEAN
    /\ buf \in Seq(PeerMsgs)
    /\ \A g \in Loops : gr[g].pc \in PCs /\ gr[g].ret \in {"loop", "exit"}
    /\ app.pc \in AppPCs /\ app.prio \in Prios /\ app.calls \in 0..MaxSends
    /\ mutex \in {"rd", "wr", "none"}

\* newStreamInstance; StartLoop has started both loops.  An inbound
\* stream already has the libp2p stream, an outbound one has nil.
StreamInit ==
    /\ status = "init"
    /\ conn = IF Outbound THEN "none" ELSE "open"
    /\ inbox = <<>> /\ nrecv = 0
    /\ compressed = FALSE
    /\ hsCh = 0 /\ quitCh = 0 /\ notif = 0
    /\ queued = [p \in Prios |-> 0]
    /\ inRouteTable = FALSE /\ learned = FALSE
    /\ buf = <<>>
    /\ gr = [rd |-> [pc |-> IF Outbound THEN "connect" ELSE "loop", ret |-> "exit"],
             wr |-> [pc |-> "waitHs", ret |-> "exit"]]
    /\ app = [pc |-> "idle", prio |-> "high", calls |-> 0]
    /\ mutex = "none"

-----------------------------------------------------------------------------
(* CheckClientVersionCompatibility(v1, v2): both are split on "."; the     *)
(* second split is of v1, so v2 is never looked at.                        *)
CheckClientVersionCompatibility(v1, v2) ==
    LET s1 == v1
        s2 == v1
    IN Len(s1) = 3 /\ Len(s2) = 3 /\ s1[1] = s2[1] /\ s1[2] = s2[2]

\* The HELLO/OK checks of onHello and onOk.
ValidGreeting(m) == m.idOK /\ CheckClientVersionCompatibility(ClientVersion, m.version)

\* Write(data): with a nil or closed stream, or a failed write, the writer
\* calls close and gets an error back.
WriteOK == conn = "open"

\* Loop goroutine g calls close(reason) and then goes on at ret: back to
\* its loop, or out of it.
CallClose(g, ret) == gr' = [gr EXCEPT ![g] = [pc |-> "closeLock", ret |-> ret]]
Goto(g, pc) == gr' = [gr EXCEPT ![g].pc = pc]

\* The route-table operations the stream calls: its peer id in or out of
\* the routing table, and the peers of a ROUTETABLE message added to it.
AddPeerStream == inRouteTable' = TRUE
RemovePeerStream == inRouteTable' = FALSE
\* AddPeerInfo: a peer id that decodes goes into the routing table.
AddPeerInfo == learned' = TRUE
AddPeers == AddPeerInfo

\* close, first part: take syncMutex; a closed stream returns at once.
\* Otherwise the status becomes closed and the stream leaves the stream
\* manager (not in src/) and the route table (RemovePeerStream).
CloseLock(g) ==
    /\ gr[g].pc = "closeLock" /\ mutex = "none"
    /\ IF status = "closed"
       THEN /\ Goto(g, IF gr[g].ret = "exit" THEN "exited" ELSE "loop")
            /\ UNCHANGED <<status, inRouteTable, mutex>>
       ELSE /\ status' = "closed"
            /\ RemovePeerStream
            /\ mutex' = g
            /\ Goto(g, "closeQuit")
    /\ UNCHANGED <<conn, inbox, nrecv, compressed, hsCh, quitCh, notif, queued, learned, buf, app>>

\* close, second part: quitWriteCh <- true (blocks while it is full), then
\* the libp2p stream is closed if there is one, and syncMutex released.
CloseQuit(g) ==
    /\ gr[g].pc = "closeQuit" /\ quitCh = 0
    /\ quitCh' = 1
    /\ conn' = IF conn = "none" THEN "none" ELSE "closed"
    /\ mutex' = "none"
    /\ Goto(g, IF gr[g].ret = "exit" THEN "exited" ELSE "loop")
    /\ UNCHANGED <<status, inbox, nrecv, compressed, hsCh, notif, queued, inRouteTable, learned, buf, app>>

-----------------------------------------------------------------------------
(* readLoop *)

\* An outbound stream: Connect (host.NewStream), which may fail; a
\* failure closes the stream and ends the loop.
Connect ==
    /\ gr.rd.pc = "connect"
    /\ \E ok \in BOOLEAN :
         IF ok THEN conn' = "open" /\ Goto("rd", "hello")
               ELSE CallClose("rd", "exit") /\ UNCHANGED conn
    /\ UNCHANGED <<status, inbox, nrecv, compressed, hsCh, quitCh, notif, queued,
                   inRouteTable, learned, buf, app, mutex>>

\* Hello: WriteProtoMessage(HELLO).  A failed Write closes the stream,
\* and readLoop's own close after it returns at once; the loop ends.
Hello ==
    /\ gr.rd.pc = "hello"
    /\ IF WriteOK THEN Goto("rd", "loop") ELSE CallClose("rd", "exit")
    /\ UNCHANGED <<status, conn, inbox, nrecv, compressed, hsCh, quitCh, notif, queued,
                   inRouteTable, learned, buf, app, mutex>>

\* stream.Read, with nothing complete in messageBuffer: it returns what has
\* arrived, or an error once the stream is closed; an error closes.
ReadData ==
    /\ gr.rd.pc = "loop" /\ buf = <<>>
    /\ \/ /\ conn = "open" /\ inbox # <<>>
          /\ \E k \in 1..Len(inbox) :
               buf' = SubSeq(inbox, 1, k) /\ inbox' = SubSeq(inbox, k + 1, Len(inbox))
          /\ UNCHANGED gr
       \/ conn = "closed" /\ CallClose("rd", "exit") /\ UNCHANGED <<inbox, buf>>
    /\ UNCHANGED <<status, conn, nrecv, compressed, hsCh, quitCh, notif, queued,
                   inRouteTable, learned, app, mutex>>

\* The part of onHello and onOk after the checks: the compression flag,
\* AddPeerStream, and finishHandshake's status change (its channel send
\* is the next step, hsSend).
Greet(m, next) ==
    /\ compressed' = (compressed \/ m.compress)
    /\ AddPeerStream
    /\ status' = "succeed"
    /\ Goto("rd", next)

\* onHello and onOk past their checks (ValidGreeting, in ShouldClose):
\* Greet; after finishHandshake's send onHello answers with Ok().
onHello(m) == Greet(m, "hsSendHello")
onOk(m) == Greet(m, "hsSendOk")

\* A handler outcome that changes nothing but readLoop's pc.
Only(step) == step /\ UNCHANGED <<compressed, inRouteTable, status, learned>>

\* onSyncRoute: RouteTable(), whose SendMessage is readLoop's next steps.
onSyncRoute == Only(Goto("rd", "rtQueue"))

\* ParsegamcMessage, the ChainID check and ParseMessageData: the magic
\* number, header checksum, data length limit, chain id and data checksum
\* all hold for any frame but a "bad" one.
ParsegamcMessage(m) == m.name # "bad"

\* Data(): snappy decoding of the payload, which fails on a corrupt one.
Data(m) == m.intact

\* getData decodes only when reservedFlag is CompressionReserved; it
\* returns the payload as it is otherwise.
GetDataFails(m) == compressed /\ ~Data(m)

\* onRouteTable: getData, whose error drops the message; then
\* proto.Unmarshal of what it returned, which fails on a corrupt payload
\* (ErrShouldCloseConnectionAndExitLoop); then AddPeers.
onRouteTable(m) ==
    CASE GetDataFails(m) -> "drop"
      [] ~Data(m)        -> "close"
      [] OTHER           -> "addPeers"

\* Bye: WriteMessage(BYE), whose error is ignored, then close; readLoop
\* returns after it.
Bye == CallClose("rd", "exit")

\* The messages on which handleMessage returns
\* ErrShouldCloseConnectionAndExitLoop: a HELLO or OK that fails the
\* checks, BYE, any other before the handshake, and a ROUTETABLE whose
\* payload does not unmarshal (proto.Unmarshal of the raw, compressed or
\* corrupt, bytes when getData did not decode them).
ShouldClose(m) ==
    \/ m.name \in {"hello", "ok"} /\ ~ValidGreeting(m)
    \/ m.name = "bye"
    \/ m.name \in {"syncroute", "routetable", "data"} /\ status # "succeed"
    \/ m.name = "routetable" /\ status = "succeed" /\ onRouteTable(m) = "close"

\* The next complete message of messageBuffer: a frame failing parsing
\* or the chain id says Bye, and so does ShouldClose; Bye writes BYE and
\* closes.  Otherwise HELLO and OK finish the handshake, SYNCROUTE
\* answers with RouteTable, ROUTETABLE goes to AddPeers, and a data
\* message goes to the net service; an error other than ShouldClose (a
\* payload getData cannot decode) drops the message.
Handle ==
    /\ gr.rd.pc = "loop" /\ buf # <<>>
    /\ buf' = Tail(buf)
    /\ LET m == Head(buf) IN
       \/ /\ ~ParsegamcMessage(m) \/ ShouldClose(m)
          /\ Only(Bye)
       \/ /\ ParsegamcMessage(m) /\ ~ShouldClose(m)
          /\ \/ m.name = "hello" /\ onHello(m) /\ UNCHANGED learned
             \/ m.name = "ok" /\ onOk(m) /\ UNCHANGED learned
             \/ m.name = "syncroute" /\ onSyncRoute
             \/ m.name = "routetable" /\ onRouteTable(m) = "addPeers" /\ AddPeers
                /\ UNCHANGED <<gr, compressed, inRouteTable, status>>
             \/ \/ m.name = "data"
                \/ m.name = "routetable" /\ onRouteTable(m) = "drop"
                /\ Only(UNCHANGED gr)
    /\ UNCHANGED <<conn, inbox, nrecv, hsCh, quitCh, notif, queued, app, mutex>>

\* finishHandshake: handshakeSucceedCh <- true, blocking while it is full.
\* After onHello comes Ok(); after onOk the loop goes on.
HsSend ==
    /\ gr.rd.pc \in {"hsSendHello", "hsSendOk"} /\ hsCh = 0
    /\ hsCh' = 1
    /\ Goto("rd", IF gr.rd.pc = "hsSendHello" THEN "okWrite" ELSE "loop")
    /\ UNCHANGED <<status, conn, inbox, nrecv, compressed, quitCh, notif, queued,
                   inRouteTable, learned, buf, app, mutex>>

\* Ok(): WriteProtoMessage(OK).  A failed Write closes the stream; the
\* error goes back to the loop, which reads on.
OkWrite ==
    /\ gr.rd.pc = "okWrite"
    /\ IF WriteOK THEN Goto("rd", "loop") ELSE CallClose("rd", "loop")
    /\ UNCHANGED <<status, conn, inbox, nrecv, compressed, hsCh, quitCh, notif, queued,
                   inRouteTable, learned, buf, app, mutex>>

-----------------------------------------------------------------------------
(* SendMessage, from readLoop (RouteTable's reply) or from app *)

\* The channel send of SendMessage: the high channel blocks while full,
\* the others drop the message (and return) when full.
Enqueue(p) == queued' = [queued EXCEPT ![p] = @ + 1]
\* Mutation: the fullness test lets one message more into a channel.
HasRoom_OffByOne(p) == queued[p] <= QueueCap
HasRoom(p) == queued[p] < QueueCap

\* The non-blocking messageNotifChan send that ends SendMessage.
\* Mutation: messageNotifChan made as large as one priority channel.
NotifCapacity_OneQueue == QueueCap
NotifCapacity == NotifCap
Notify == notif' = IF notif < NotifCapacity THEN notif + 1 ELSE notif

\* RouteTable: GetRandomPeers, then SendProtoMessage(ROUTETABLE, high).
RtQueue ==
    /\ gr.rd.pc = "rtQueue" /\ HasRoom("high")
    /\ Enqueue("high")
    /\ Goto("rd", "rtNotify")
    /\ UNCHANGED <<status, conn, inbox, nrecv, compressed, hsCh, quitCh, notif,
                   inRouteTable, learned, buf, app, mutex>>

RtNotify ==
    /\ gr.rd.pc = "rtNotify"
    /\ Notify
    /\ Goto("rd", "loop")
    /\ UNCHANGED <<status, conn, inbox, nrecv, compressed, hsCh, quitCh, queued,
                   inRouteTable, learned, buf, app, mutex>>

\* Another goroutine calls SendMessage with priority p; the encoding by
\* NewgamcMessage is left out.
AppSend(p) ==
    /\ app.pc = "idle" /\ app.calls < MaxSends
    /\ app' = [pc |-> "queue", prio |-> p, calls |-> app.calls + 1]
    /\ UNCHANGED <<status, conn, inbox, nrecv, compressed, hsCh, quitCh, notif, queued,
                   inRouteTable, learned, buf, gr, mutex>>

\* SyncRoute: SendMessage(SYNCROUTE) at high priority.
SyncRoute == AppSend("high")

\* SyncWithPeer finds the stream of the peer and calls SyncRoute.
SyncWithPeer == SyncRoute

\* The route table's syncLoop ticker runs SyncRouteTable, which calls
\* SyncWithPeer for every seed node and for up to half of
\* maxPeersCountToSync randomly chosen peers (none when the table holds
\* at most one).  Seen from this stream: its peer is chosen, or nothing
\* happens to it.
SyncRouteTable == SyncWithPeer

\* Node.SendMessageToPeer finds the stream by peer id and calls SendMessage
\* with the caller's priority (the block pool normal, sync responses low).
SendMessageToPeer(p) == AppSend(p)

AppQueue ==
    /\ app.pc = "queue"
    /\ \/ HasRoom(app.prio) /\ Enqueue(app.prio) /\ app' = [app EXCEPT !.pc = "notify"]
       \/ ~HasRoom(app.prio) /\ app.prio # "high" /\ app' = [app EXCEPT !.pc = "idle"]
          /\ UNCHANGED queued
    /\ UNCHANGED <<status, conn, inbox, nrecv, compressed, hsCh, quitCh, notif,
                   inRouteTable, learned, buf, gr, mutex>>

AppNotify ==
    /\ app.pc = "notify"
    /\ Notify
    /\ app' = [app EXCEPT !.pc = "idle"]
    /\ UNCHANGED <<status, conn, inbox, nrecv, compressed, hsCh, quitCh, queued,
                   inRouteTable, learned, buf, gr, mutex>>

-----------------------------------------------------------------------------
(* writeLoop *)

\* The first select: the handshake, a quit, or the 30 s ticker, which
\* closes the stream.
WaitHs ==
    /\ gr.wr.pc = "waitHs"
    /\ \/ hsCh = 1 /\ hsCh' = 0 /\ Goto("wr", "loop") /\ UNCHANGED quitCh
       \/ quitCh = 1 /\ quitCh' = 0 /\ Goto("wr", "exited") /\ UNCHANGED hsCh
       \/ CallClose("wr", "exit") /\ UNCHANGED <<hsCh, quitCh>>
    /\ UNCHANGED <<status, conn, inbox, nrecv, compressed, notif, queued,
                   inRouteTable, learned, buf, app, mutex>>

\* The main select: a quit ends the loop, a notification starts a dispatch.
WrLoop ==
    /\ gr.wr.pc = "loop"
    /\ \/ quitCh = 1 /\ quitCh' = 0 /\ Goto("wr", "exited") /\ UNCHANGED notif
       \/ notif > 0 /\ notif' = notif - 1 /\ Goto("wr", "dispatch") /\ UNCHANGED quitCh
    /\ UNCHANGED <<status, conn, inbox, nrecv, compressed, hsCh, queued,
                   inRouteTable, learned, buf, app, mutex>>

\* The channel a dispatch takes from: the first non-empty one in priority
\* order.
Order == <<"high", "normal", "low">>
NextPrio == CHOOSE i \in 1..4 : (i = 4 \/ queued[Order[i]] > 0)
                                /\ \A j \in 1..(i - 1) : queued[Order[j]] = 0

\* One message from the first non-empty channel goes to WritegamcMessage,
\* whose failed Write closes the stream (the loop then sees the quit).
\* The code falls through when all three are empty; that cannot happen
\* here, every notification having its message (QueuedMessagesNotified).
Dispatch ==
    /\ gr.wr.pc = "dispatch" /\ NextPrio < 4
    /\ queued' = [queued EXCEPT ![Order[NextPrio]] = @ - 1]
    /\ IF WriteOK THEN Goto("wr", "loop") ELSE CallClose("wr", "loop")
    /\ UNCHANGED <<status, conn, inbox, nrecv, compressed, hsCh, quitCh, notif,
                   inRouteTable, learned, buf, app, mutex>>

-----------------------------------------------------------------------------
(* The peer *)

\* The peer writes one framed message into the connection.
PeerSend(m) ==
    /\ conn = "open" /\ nrecv < MaxRecv
    /\ inbox' = Append(inbox, m) /\ nrecv' = nrecv + 1
    /\ UNCHANGED <<status, conn, compressed, hsCh, quitCh, notif, queued,
                   inRouteTable, learned, buf, gr, app, mutex>>

\* The peer, or the network, closes the connection.
PeerClose ==
    /\ conn = "open"
    /\ conn' = "closed"
    /\ UNCHANGED <<status, inbox, nrecv, compressed, hsCh, quitCh, notif, queued,
                   inRouteTable, learned, buf, gr, app, mutex>>

StreamNext ==
    \/ Connect \/ Hello \/ ReadData \/ Handle \/ HsSend \/ OkWrite \/ RtQueue \/ RtNotify
    \/ WaitHs \/ WrLoop \/ Dispatch
    \/ \E g \in Loops : CloseLock(g) \/ CloseQuit(g)
    \/ SyncRouteTable
    \/ \E p \in Prios : SendMessageToPeer(p)
    \/ AppQueue \/ AppNotify
    \/ \E m \in PeerMsgs : PeerSend(m)
    \/ PeerClose

StreamSpec == StreamInit /\ [][StreamNext]_vars

-----------------------------------------------------------------------------
\* Every message waiting in a priority channel has exactly one notification
\* waiting for it in messageNotifChan, whenever no SendMessage is between its two
\* sends and writeLoop is not between a notification and its channel
\* read.  writeLoop takes a message only after taking a notification, so
\* a message without one stays queued until some later SendMessage, and a
\* spare one makes writeLoop find all channels empty.  The drop of a
\* notification by SendMessage's select default is harmless only because
\* messageNotifChan is as large as the three channels together.
QueuedMessagesNotified ==
    (app.pc # "notify" /\ gr.rd.pc # "rtNotify" /\ gr.wr.pc # "dispatch")
        => queued["high"] + queued["normal"] + queued["low"] = notif

\* No goroutine of the stream blocks forever on a channel send: readLoop
\* in finishHandshake with handshakeSucceedCh full while writeLoop has
\* left its first select (the only receive of that channel), or a close
\* with quitWriteCh full after writeLoop has returned (the only receiver).
NoStuckGoroutine ==
    /\ ~(gr.rd.pc \in {"hsSendHello", "hsSendOk"} /\ hsCh = 1 /\ gr.wr.pc # "waitHs")
    /\ ~(\E g \in Loops : gr[g].pc = "closeQuit" /\ quitCh = 1 /\ gr.wr.pc = "exited")

=============================================================================
