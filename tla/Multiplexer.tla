---------------------------- MODULE Multiplexer ----------------------------
(***************************************************************************)
(* One endpoint: the socket's reader, the routing of datagrams to          *)
(* connections, the dialling, accepting and closing of connections, and    *)
(* the closing of the whole (multiplexer.go; NewConnection, closeInternal, *)
(* the idle watchdog, enqueue and inboundLoop in connection.go).           *)
(*                                                                         *)
(* The goroutines are readLoop, idleTimeoutLoop, one inboundLoop and one   *)
(* idle timer for each connection, and the application.  A datagram that a *)
(* peer sent may arrive at any time, again, or never.  Of a packet only    *)
(* its CID and what decides about connections is kept: whether it carries  *)
(* a SYN or a CONNECTION_CLOSE.                                            *)
(***************************************************************************)
EXTENDS Integers, FiniteSets, Sequences, Functions

CONSTANTS
    PeerCids,       \* the CIDs under which peers dial this endpoint
    OwnCids,        \* the CIDs this endpoint draws for the connections it dials
    EarlyCids,      \* CIDs earlyPackets has room for
    EarlyPerCid,    \* packets it keeps for one of them
    InboundQueue,   \* capacity of a connection's inbound queue
    AcceptQueue,    \* capacity of incoming
    ReadBatch,      \* datagrams one readMessages returns at most
    MaxConns        \* bound: connections made

ASSUME MultiplexerAssumption ==
    /\ PeerCids \cap OwnCids = {}
    /\ EarlyCids \in Nat /\ EarlyPerCid \in Nat
    /\ InboundQueue \in Nat \ {0} /\ AcceptQueue \in Nat
    /\ ReadBatch \in Nat \ {0} /\ MaxConns \in Nat

Cids == PeerCids \cup OwnCids

\* A packet with neither SYN nor CONNECTION_CLOSE is to a connection what a
\* repeated SYN is, and before its SYN what a CONNECTION_CLOSE is.
Kinds == {"syn", "close"}
Packet == [cid : Cids, kind : Kinds]

VARIABLES
    conns,          \* the connections made, in that order
    routes,         \* connections: CID to index in conns
    early,          \* earlyPackets
    incoming,       \* connections waiting for Accept
    reader,         \* where readLoop is
    sweeping,       \* idleTimeoutLoop runs
    closing,        \* where Multiplexer.Close is
    toClose         \* the connections it has collected and has yet to close

vars == <<conns, routes, early, incoming, reader, sweeping, closing, toClose>>

muxVars == <<sweeping, closing, toClose>>

At(place) == [at |-> place, left |-> 0, conn |-> 0, packets |-> <<>>, notify |-> FALSE]

Init ==
    /\ conns = <<>> /\ routes = [cid \in {} |-> 0] /\ early = [cid \in {} |-> <<>>]
    /\ incoming = <<>> /\ reader = At("top") /\ sweeping = TRUE
    /\ closing = "open" /\ toClose = {}

\* late: that Close had already collected; orphaned: that its route was
\* removed for another connection; first: the first packet it handled, if a
\* peer dialled it.
NewConnection(cid) ==
    [cid |-> cid, state |-> "open", by |-> "none", inbound |-> <<>>, first |-> "none",
     late |-> closing \notin {"open", "closed"}, orphaned |-> FALSE]

Route(cid, c) == [k \in DOMAIN routes \cup {cid} |-> IF k = cid THEN c ELSE routes[k]]

Without(f, S) == [k \in DOMAIN f \ S |-> f[k]]

Routed(cid) == cid \in DOMAIN routes

Conns == 1..Len(conns)

(***************************************************************************)
(* readLoop and handleDatagram.                                            *)
(***************************************************************************)
ReadTop ==
    /\ reader.at = "top"
    /\ reader' = At(IF closing = "open" THEN "read" ELSE "stopped")
    /\ UNCHANGED <<conns, routes, early, incoming, muxVars>>

SocketClosed == closing \in {"socketClosed", "returned"}

\* readMessages returns up to ReadBatch datagrams, or fails once the socket is
\* closed.
readMessages ==
    /\ reader.at = "read" /\ ~SocketClosed
    /\ \E n \in 1..ReadBatch : reader' = [At("batch") EXCEPT !.left = n]
    /\ UNCHANGED <<conns, routes, early, incoming, muxVars>>

ReadFails ==
    /\ reader.at = "read" /\ SocketClosed
    /\ reader' = At("top")
    /\ UNCHANGED <<conns, routes, early, incoming, muxVars>>

\* The reader is through with a datagram.
NextOfBatch ==
    reader' = IF reader.left = 0 THEN At("top") ELSE [At("batch") EXCEPT !.left = reader.left]

\* Peers may have dialled at any time; a connection of this endpoint's is known
\* to its peer once it is dialled, and gets no SYN.
Arrives(p) == p.cid \in OwnCids => p.kind # "syn" /\ \E c \in Conns : conns[c].cid = p.cid

\* Mutant: a SYN makes a connection before its CID is looked up.
Known_NotSyn(p) == p.kind # "syn" /\ Routed(p.cid)

\* Is the packet for a connection in the map?
Known(p) == Routed(p.cid)

\* The look-up under m.mu; what follows uses its result without the lock.
Lookup(p) ==
    /\ reader.at = "batch" /\ Arrives(p)
    /\ \/ Known(p) /\ reader' = [reader EXCEPT !.at = "enqueue", !.left = @ - 1,
                                    !.conn = routes[p.cid], !.packets = <<p>>]
       \/ /\ ~Known(p) /\ p.kind = "syn" /\ Len(conns) < MaxConns
          /\ reader' = [reader EXCEPT !.at = "create", !.left = @ - 1, !.packets = <<p>>]
       \/ /\ ~Known(p) /\ p.kind # "syn"
          /\ reader' = [reader EXCEPT !.at = "buffer", !.left = @ - 1, !.packets = <<p>>]
    /\ UNCHANGED <<conns, routes, early, incoming, muxVars>>

EarlyOf(cid) == IF cid \in DOMAIN early THEN early[cid] ELSE <<>>

\* Mutant: one CID too many.
HasRoom_OneMore(cid) == Cardinality(DOMAIN early) <= EarlyCids /\ Len(EarlyOf(cid)) < EarlyPerCid

HasRoom(cid) == Cardinality(DOMAIN early) < EarlyCids /\ Len(EarlyOf(cid)) < EarlyPerCid

BufferEarly ==
    /\ reader.at = "buffer"
    /\ LET p == Head(reader.packets)
       IN early' = IF HasRoom(p.cid)
                   THEN [k \in DOMAIN early \cup {p.cid} |->
                            IF k = p.cid THEN Append(EarlyOf(k), p) ELSE early[k]]
                   ELSE early
    /\ NextOfBatch
    /\ UNCHANGED <<conns, routes, incoming, muxVars>>

\* Mutant: in the order of arrival.
Replayed_InOrder(p) == EarlyOf(p.cid) \o <<p>>

\* What the new connection is given: the SYN, then what came before it.
Replayed(p) == <<p>> \o EarlyOf(p.cid)

\* Mutant: what was replayed stays.
Grabbed_Kept(cid) == early

Grabbed(cid) == Without(early, {cid})

Register ==
    /\ reader.at = "create"
    /\ LET p == Head(reader.packets)
           c == Len(conns) + 1
       IN /\ conns' = Append(conns, NewConnection(p.cid))
          /\ routes' = Route(p.cid, c)
          /\ early' = Grabbed(p.cid)
          /\ reader' = [reader EXCEPT !.at = "enqueue", !.conn = c, !.notify = TRUE,
                            !.packets = Replayed(p)]
    /\ UNCHANGED <<incoming, muxVars>>

\* Nobody takes packets from the queue of a closed connection; it is left empty
\* here, and full in the code.
enqueue ==
    /\ reader.at = "enqueue" /\ reader.packets # <<>>
    /\ LET c == reader.conn
           taken == conns[c].state \in {"open", "closing"} /\ Len(conns[c].inbound) < InboundQueue
       IN conns' = IF taken
                   THEN [conns EXCEPT ![c].inbound = Append(@, Head(reader.packets).kind)]
                   ELSE conns
    /\ reader' = [reader EXCEPT !.packets = Tail(@)]
    /\ UNCHANGED <<routes, early, incoming, muxVars>>

Notify ==
    /\ reader.at = "enqueue" /\ reader.packets = <<>>
    /\ incoming' = IF reader.notify /\ Len(incoming) < AcceptQueue
                   THEN Append(incoming, reader.conn) ELSE incoming
    /\ NextOfBatch
    /\ UNCHANGED <<conns, routes, early, muxVars>>

(***************************************************************************)
(* A connection: its inboundLoop, and closeInternal by whoever is first.   *)
(***************************************************************************)
BeginClose(c, who) == [conns EXCEPT ![c].state = "closing", ![c].by = who]

\* A CONNECTION_CLOSE closes the connection on the inboundLoop, which handles
\* nothing further.
HandlePacket(c) ==
    /\ conns[c].inbound # <<>> /\ conns[c].by # "inboundLoop"
    /\ LET kind == Head(conns[c].inbound)
           closes == kind = "close" /\ conns[c].state = "open"
       IN conns' = [conns EXCEPT ![c].inbound = Tail(@),
                        ![c].first = IF @ = "none" /\ conns[c].cid \in PeerCids THEN kind ELSE @,
                        ![c].state = IF closes THEN "closing" ELSE @,
                        ![c].by = IF closes THEN "inboundLoop" ELSE @]
    /\ UNCHANGED <<routes, early, incoming, reader, muxVars>>

\* Mutant: silence counts from the first packet.
idleExpired_Heard(c) ==
    conns[c].state = "open" /\ conns[c].inbound = <<>> /\ conns[c].first # "none"

\* Nothing has come for idleTimeout.
idleExpired(c) == conns[c].state = "open" /\ conns[c].inbound = <<>>

onIdleCheck(c) ==
    /\ idleExpired(c)
    /\ conns' = BeginClose(c, "another")
    /\ UNCHANGED <<routes, early, incoming, reader, muxVars>>

CloseConnection(c) ==
    /\ conns[c].state = "open"
    /\ conns' = BeginClose(c, "another")
    /\ UNCHANGED <<routes, early, incoming, reader, muxVars>>

\* The state is Closed and closeCh is closed, which ends the inboundLoop.
CloseChannel(c) ==
    /\ conns[c].state = "closing"
    /\ conns' = [conns EXCEPT ![c].state = "closed", ![c].inbound = <<>>]
    /\ UNCHANGED <<routes, early, incoming, reader, muxVars>>

\* By CID: it may be another connection's by now.
removeConnection(cid) == Without(routes, {cid})

OnClose(c) ==
    LET cid == conns[c].cid
    IN /\ conns[c].state = "closed"
       /\ conns' = [d \in Conns |->
            [conns[d] EXCEPT
                !.state = IF d = c THEN "done" ELSE @, !.by = IF d = c THEN "none" ELSE @,
                !.orphaned = @ \/ (d # c /\ Routed(cid) /\ routes[cid] = d)]]
       /\ routes' = removeConnection(cid)
       /\ UNCHANGED <<early, incoming, reader, muxVars>>

(***************************************************************************)
(* The application's calls, and idleTimeoutLoop.                           *)
(***************************************************************************)

\* The SYN goes out once the connection is in the map: its CID is in no packet
\* before.
Dial(cid) ==
    /\ Len(conns) < IF reader.at = "create" THEN MaxConns - 1 ELSE MaxConns
    /\ \A c \in Conns : conns[c].cid # cid
    /\ conns' = Append(conns, NewConnection(cid))
    /\ routes' = Route(cid, Len(conns) + 1)
    /\ UNCHANGED <<early, incoming, reader, muxVars>>

Accept ==
    /\ incoming # <<>>
    /\ incoming' = Tail(incoming)
    /\ UNCHANGED <<conns, routes, early, reader, muxVars>>

Swept == {cid \in DOMAIN routes : conns[routes[cid]].state \in {"closed", "done"}}

idleTimeoutLoop ==
    /\ sweeping
    /\ \/ Swept # {} /\ routes' = Without(routes, Swept) /\ UNCHANGED sweeping
       \/ closing # "open" /\ sweeping' = FALSE /\ UNCHANGED routes
    /\ UNCHANGED <<conns, early, incoming, reader, closing, toClose>>

\* Multiplexer.Close: closeCh, then the map is collected and cleared, then one
\* connection after the other is closed, then the socket, then the loops end.
Close ==
    /\ closing = "open"
    /\ closing' = "closed"
    /\ UNCHANGED <<conns, routes, early, incoming, reader, sweeping, toClose>>

\* Mutant: connections nobody has accepted are passed over.
Collected_Accepted == {c \in Range(routes) : c \notin Range(incoming)}

Collected == Range(routes)

CollectAndClear ==
    /\ closing = "closed"
    /\ closing' = "collected"
    /\ toClose' = Collected /\ routes' = Without(routes, DOMAIN routes)
    /\ UNCHANGED <<conns, early, incoming, reader, sweeping>>

\* Closes a collected connection that nobody else has begun to close.
CloseCollected(c) ==
    /\ c \in toClose /\ conns[c].state = "open"
    /\ \A d \in toClose : conns[d].by # "Close"
    /\ conns' = BeginClose(c, "Close")
    /\ UNCHANGED <<routes, early, incoming, reader, muxVars>>

\* closeOnce: a connection that another is closing is waited for.
Awaited(c) == conns[c].state = "done"

CollectedDone(c) ==
    /\ c \in toClose /\ Awaited(c)
    /\ toClose' = toClose \ {c}
    /\ UNCHANGED <<conns, routes, early, incoming, reader, sweeping, closing>>

CloseSocket ==
    /\ closing = "collected" /\ toClose = {}
    /\ closing' = "socketClosed"
    /\ UNCHANGED <<conns, routes, early, incoming, reader, sweeping, toClose>>

CloseReturns ==
    /\ closing = "socketClosed" /\ reader.at = "stopped" /\ ~sweeping
    /\ closing' = "returned"
    /\ UNCHANGED <<conns, routes, early, incoming, reader, sweeping, toClose>>

Reading == ReadTop \/ ReadFails \/ BufferEarly \/ Register \/ enqueue \/ Notify

Tidying == \/ CollectAndClear \/ CloseSocket \/ CloseReturns
           \/ \E c \in toClose : CloseCollected(c) \/ CollectedDone(c)

Next ==
    \/ Reading \/ Tidying \/ readMessages
    \/ \E p \in Packet : Lookup(p)
    \/ \E c \in Conns : \/ HandlePacket(c) \/ onIdleCheck(c) \/ CloseConnection(c)
                        \/ CloseChannel(c) \/ OnClose(c)
    \/ \E cid \in OwnCids : Dial(cid)
    \/ Accept \/ idleTimeoutLoop \/ Close

Spec == Init /\ [][Next]_vars

\* What a connection's own goroutines and its watchdog do.
ConnectionStep(c) ==
    c \in Conns /\ (HandlePacket(c) \/ onIdleCheck(c) \/ CloseChannel(c) \/ OnClose(c))

-----------------------------------------------------------------------------
TypeOK ==
    /\ \A c \in Conns :
        /\ conns[c].cid \in Cids /\ conns[c].state \in {"open", "closing", "closed", "done"}
        /\ Len(conns[c].inbound) <= InboundQueue
    /\ DOMAIN routes \subseteq Cids /\ Range(routes) \subseteq Conns
    /\ Cardinality(DOMAIN early) <= EarlyCids
    /\ \A cid \in DOMAIN early : Len(early[cid]) \in 1..EarlyPerCid
    /\ Len(incoming) <= AcceptQueue /\ Range(incoming) \subseteq Conns
    /\ reader.at \in {"top", "read", "batch", "enqueue", "create", "buffer", "stopped"}
    /\ closing \in {"open", "closed", "collected", "socketClosed", "returned"}
    /\ toClose \subseteq Conns

\* Until Close has collected them, the packets of an open connection are routed
\* to it (Dial, handleDatagram, removeConnection, idleTimeoutLoop), so that its
\* CID never has a second open connection.  The exception is a connection that
\* a repeated SYN makes after idleTimeoutLoop has removed a closed one and
\* before the closed one's onClose removes the entry of its CID once more.
OpenIsRouted ==
    \A c \in Conns :
        conns[c].state = "open" /\ closing \in {"open", "closed"} =>
            \/ Routed(conns[c].cid) /\ routes[conns[c].cid] = c
            \/ conns[c].orphaned /\ \E d \in 1..c - 1 : conns[d].cid = conns[c].cid

\* No packet is left in earlyPackets while there is a connection for its CID,
\* though the look-up and the buffering are two critical sections
\* (handleDatagram, Dial).
EarlyIsUnrouted == DOMAIN early \cap DOMAIN routes = {}

\* A connection a peer dialled handles the SYN before everything else, whatever
\* arrived earlier (handleDatagram's replay).
SynFirst == \A c \in Conns : conns[c].first \in {"none", "syn"}

\* When Close returns every connection is closed, also those
\* nobody accepted and those others were closing at the time, except the ones
\* made after it collected them and those whose route was lost.
CloseIsThorough ==
    SocketClosed =>
        \A c \in Conns : \/ conns[c].state \in {"closed", "done"}
                         \/ conns[c].late \/ conns[c].orphaned

\* Close returns, and after it every connection ends, at the latest by its idle
\* timeout: also those that were dialled too late for Close to find.
AllEnd == closing # "open" ~> closing = "returned" /\ \A c \in Conns : conns[c].state = "done"

=============================================================================
