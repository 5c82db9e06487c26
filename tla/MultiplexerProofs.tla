------------------------- MODULE MultiplexerProofs --------------------------
(***************************************************************************)
(* What arrives before its connection is handed to it when it is made, and *)
(* after the SYN; a connection that is open is routed, Close reaches every *)
(* connection, and no queue outgrows its capacity: for any number of       *)
(* connections, CIDs and packets, any capacity of the queues and any       *)
(* interleaving of the goroutines.                                         *)
(***************************************************************************)
EXTENDS Multiplexer, FiniteSetTheorems, TLAPS

States == {"open", "closing", "closed", "done"}

Connection ==
    [cid : Cids, state : States, by : {"none", "another", "inboundLoop", "Close"},
     inbound : Seq(Kinds), first : Kinds \cup {"none"}, late : BOOLEAN, orphaned : BOOLEAN]

Places == {"top", "read", "batch", "enqueue", "create", "buffer", "stopped"}

Reader == [at : Places, left : Int, conn : Int, packets : Seq(Packet), notify : BOOLEAN]

\* A connection a peer dialled has its SYN at the head of its queue, or about
\* to be put there, until it has handled it.
SynOK(c, k, rd) ==
    /\ k.first \in {"none", "syn"}
    /\ k.state \in {"closed", "done"} => k.inbound = <<>>
    /\ k.cid \in PeerCids /\ k.state \in {"open", "closing"} /\ k.first = "none" =>
        \/ k.inbound # <<>> /\ Head(k.inbound) = "syn"
        \/ /\ k.inbound = <<>>
           /\ rd.at = "enqueue" /\ rd.conn = c
           /\ rd.packets # <<>> /\ Head(rd.packets).kind = "syn"

Made(cid) == \E c \in Conns : conns[c].cid = cid

\* What the reader knows of the packet in its hands stays true until it uses
\* it, although it holds no lock.
ReaderOK ==
    /\ reader.at \in {"buffer", "create"} => reader.packets # <<>>
    /\ reader.at = "buffer" =>
        LET cid == Head(reader.packets).cid
        IN ~Routed(cid) /\ (cid \in OwnCids => Made(cid))
    /\ reader.at = "create" =>
        Head(reader.packets).kind = "syn" /\ Head(reader.packets).cid \in PeerCids
    /\ reader.at = "enqueue" => reader.conn \in Conns

MuxInv ==
    /\ conns \in Seq(Connection) /\ reader \in Reader
    /\ \A cid \in DOMAIN routes : routes[cid] \in Conns
    /\ \A cid \in DOMAIN early : early[cid] \in Seq(Packet) /\ (cid \in OwnCids => Made(cid))
    /\ EarlyIsUnrouted
    /\ ReaderOK
    /\ \A c \in Conns : SynOK(c, conns[c], reader)

\* At gives a reader that holds nothing.
LEMMA AtReader ==
    ASSUME NEW place \in Places, NEW n \in Int, NEW rd, rd = [At(place) EXCEPT !.left = n]
    PROVE  rd \in Reader /\ rd.at = place
<1>1. rd = [at |-> place, left |-> n, conn |-> 0, packets |-> <<>>, notify |-> FALSE]
  BY Zenon DEF At
<1>2. <<>> \in Seq(Packet) /\ 0 \in Int /\ FALSE \in BOOLEAN
  OBVIOUS
<1>3. [at |-> place, left |-> n, conn |-> 0, packets |-> <<>>, notify |-> FALSE] \in Reader
  BY <1>2, Zenon DEF Reader
<1>4. rd \in Reader
  BY <1>1, <1>3, Zenon
<1>5. rd.at = place
  BY <1>1
<1> QED BY <1>4, <1>5

\* A new multiplexer has no connections.
LEMMA MuxInitially == Init => MuxInv
<1> SUFFICES ASSUME Init
             PROVE  MuxInv
  OBVIOUS
<1>1. conns = <<>> /\ conns \in Seq(Connection) /\ Conns = {}
  BY DEF Init, Conns
<1>2. DOMAIN routes = {} /\ DOMAIN early = {}
  BY DEF Init
<1>3. reader \in Reader /\ reader.at = "top"
  <2>1. reader = [At("top") EXCEPT !.left = 0]
    BY DEF Init, At
  <2>2. "top" \in Places /\ 0 \in Int
    BY DEF Places
  <2> QED BY <2>1, <2>2, AtReader, Zenon
<1> QED BY <1>1, <1>2, <1>3 DEF MuxInv, EarlyIsUnrouted, ReaderOK

\* Replacing one connection leaves the others.
LEMMA Replaced ==
    ASSUME conns \in Seq(Connection), NEW c \in Conns, NEW r \in Connection,
           conns' = [conns EXCEPT ![c] = r]
    PROVE  /\ conns' \in Seq(Connection) /\ Conns' = Conns
           /\ conns'[c] = r
           /\ \A d \in Conns : d # c => conns'[d] = conns[d]
  BY DEF Conns

\* A step of one connection keeps the invariant if it keeps the CID and SynOK.
LEMMA ConnectionChange ==
    ASSUME MuxInv, NEW c \in Conns, NEW r \in Connection, r.cid = conns[c].cid,
           SynOK(c, r, reader), conns' = [conns EXCEPT ![c] = r],
           UNCHANGED <<routes, early, reader>>
    PROVE  MuxInv'
<1>1. /\ conns' \in Seq(Connection) /\ Conns' = Conns
      /\ conns'[c] = r
      /\ \A d \in Conns : d # c => conns'[d] = conns[d]
  BY Replaced, Zenon DEF MuxInv
<1>2. \A d \in Conns : conns'[d].cid = conns[d].cid
  BY <1>1
<1>3. \A d \in Conns : SynOK(d, conns'[d], reader)
  BY <1>1 DEF MuxInv
<1>4. \A cid : Made(cid) => Made(cid)'
  BY <1>1, <1>2 DEF Made
<1>5. ReaderOK'
  BY <1>1, <1>4 DEF MuxInv, ReaderOK, Routed
<1> QED BY <1>1, <1>3, <1>4, <1>5 DEF MuxInv, EarlyIsUnrouted

\* A step of readLoop that leaves the connections and the maps alone.
LEMMA ReaderChange ==
    ASSUME MuxInv, reader' \in Reader, ReaderOK', UNCHANGED <<conns, routes, early>>,
           reader.at # "enqueue" \/ reader.packets = <<>>
    PROVE  MuxInv'
<1>1. Conns' = Conns
  BY DEF Conns
<1>2. \A c \in Conns : SynOK(c, conns[c], reader')
  BY DEF MuxInv, SynOK
<1> QED BY <1>1, <1>2 DEF MuxInv, EarlyIsUnrouted, Made

\* The reader at the end of a datagram holds nothing.
LEMMA BatchGoesOn ==
    ASSUME reader \in Reader, NextOfBatch
    PROVE  reader' \in Reader /\ reader'.at \in {"top", "batch"}
<1>1. PICK place \in {"top", "batch"}, n \in Int : reader' = [At(place) EXCEPT !.left = n]
  <2>1. reader.left \in Int
    BY DEF Reader
  <2>2. CASE reader.left = 0
    <3>1. reader' = [At("top") EXCEPT !.left = 0] /\ 0 \in Int
      BY <2>2 DEF NextOfBatch, At
    <3> QED BY <3>1, Zenon
  <2>3. CASE reader.left # 0
    BY <2>1, <2>3 DEF NextOfBatch
  <2> QED BY <2>2, <2>3
<1>2. place \in Places
  BY DEF Places
<1> QED BY <1>1, <1>2, AtReader, Zenon

\* The steps of readLoop between two datagrams.
LEMMA ReadingStep ==
    ASSUME MuxInv, ReadTop \/ readMessages \/ ReadFails \/ Notify
    PROVE  MuxInv'
<1>1. reader' \in Reader /\ reader'.at \in {"top", "read", "batch", "stopped"}
  <2>1. CASE Notify
    BY <2>1, BatchGoesOn DEF MuxInv, Notify
  <2>2. CASE ReadTop \/ readMessages \/ ReadFails
    <3>1. PICK place \in {"top", "read", "batch", "stopped"}, n \in Int :
              reader' = [At(place) EXCEPT !.left = n]
      <4>0. 0 \in Int
        OBVIOUS
      <4>1. CASE ReadTop
        <5>1. CASE closing = "open"
          <6>1. reader' = [At("read") EXCEPT !.left = 0]
            BY <4>1, <5>1 DEF ReadTop, At
          <6> QED BY <4>0, <6>1, Zenon
        <5>2. CASE closing # "open"
          <6>1. reader' = [At("stopped") EXCEPT !.left = 0]
            BY <4>1, <5>2 DEF ReadTop, At
          <6> QED BY <4>0, <6>1, Zenon
        <5> QED BY <5>1, <5>2
      <4>2. CASE ReadFails
        <5>1. reader' = [At("top") EXCEPT !.left = 0]
          BY <4>2 DEF ReadFails, At
        <5> QED BY <4>0, <5>1, Zenon
      <4>3. CASE readMessages
        BY <4>3, MultiplexerAssumption DEF readMessages
      <4> QED BY <2>2, <4>1, <4>2, <4>3
    <3>2. place \in Places
      BY DEF Places
    <3> QED BY <3>1, <3>2, AtReader, Zenon
  <2> QED BY <2>1, <2>2
<1>2. ReaderOK'
  BY <1>1 DEF ReaderOK
<1> QED BY <1>1, <1>2, ReaderChange DEF ReadTop, readMessages, ReadFails, Notify, MuxInv

\* The look-up of a packet that has arrived.
LEMMA LookupStep ==
    ASSUME MuxInv, NEW p \in Packet, Lookup(p)
    PROVE  MuxInv'
<1>1. PICK place \in {"enqueue", "create", "buffer"}, c \in Int :
        /\ reader' = [reader EXCEPT !.at = place, !.left = @ - 1, !.conn = c, !.packets = <<p>>]
        /\ place = "enqueue" => Known(p) /\ c = routes[p.cid]
        /\ place = "create" => ~Known(p) /\ p.kind = "syn"
        /\ place = "buffer" => ~Known(p)
  <2>1. reader.conn \in Int
    BY DEF MuxInv, Reader
  <2>2. CASE Known(p) /\ reader' = [reader EXCEPT !.at = "enqueue", !.left = @ - 1,
                                    !.conn = routes[p.cid], !.packets = <<p>>]
    <3>1. routes[p.cid] \in Int
      BY <2>2 DEF Known, Routed, MuxInv, Conns
    <3> QED BY <2>2, <3>1, Zenon
  <2>3. CASE /\ ~Known(p) /\ p.kind = "syn"
             /\ reader' = [reader EXCEPT !.at = "create", !.left = @ - 1, !.packets = <<p>>]
    <3>1. reader' = [reader EXCEPT !.at = "create", !.left = @ - 1, !.conn = reader.conn,
                        !.packets = <<p>>]
      BY <2>3, Zenon DEF MuxInv, Reader
    <3> QED BY <2>1, <2>3, <3>1, Zenon
  <2>4. CASE /\ ~Known(p)
             /\ reader' = [reader EXCEPT !.at = "buffer", !.left = @ - 1, !.packets = <<p>>]
    <3>1. reader' = [reader EXCEPT !.at = "buffer", !.left = @ - 1, !.conn = reader.conn,
                        !.packets = <<p>>]
      BY <2>4, Zenon DEF MuxInv, Reader
    <3> QED BY <2>1, <2>4, <3>1, Zenon
  <2> QED BY <2>2, <2>3, <2>4, Zenon DEF Lookup
<1>2. reader' \in Reader
  <2>1. reader \in Reader /\ reader.left - 1 \in Int /\ <<p>> \in Seq(Packet) /\ place \in Places
    BY DEF MuxInv, Reader, Places
  <2> QED BY <1>1, <2>1, Zenon DEF Reader
<1>3. reader'.at = place /\ reader'.conn = c /\ reader'.packets = <<p>>
  BY <1>1 DEF MuxInv, Reader
<1>4. Head(reader'.packets) = p /\ reader'.packets # <<>>
  BY <1>3
<1>5. p.cid \in Cids /\ Arrives(p)
  BY DEF Lookup, Packet
<1>6. Conns' = Conns /\ UNCHANGED <<conns, routes, early>>
  BY DEF Lookup, Conns
<1>7. ReaderOK'
  <2>1. p.cid \in OwnCids => p.kind # "syn" /\ Made(p.cid)'
    BY <1>5, <1>6 DEF Arrives, Made
  <2>2. Known(p) => routes[p.cid] \in Conns
    BY DEF Known, Routed, MuxInv
  <2> QED BY <1>1, <1>3, <1>4, <1>5, <1>6, <2>1, <2>2 DEF ReaderOK, Known, Routed, Cids
<1> QED BY <1>2, <1>6, <1>7, ReaderChange DEF Lookup

\* A packet without a connection is put aside.
LEMMA BufferStep ==
    ASSUME MuxInv, BufferEarly
    PROVE  MuxInv'
<1>1. PICK p : p = Head(reader.packets)
  OBVIOUS
<1>2. p \in Packet /\ ~Routed(p.cid) /\ (p.cid \in OwnCids => Made(p.cid))
  <2>1. reader.packets \in Seq(Packet) /\ reader.packets # <<>>
    BY DEF BufferEarly, MuxInv, ReaderOK, Reader
  <2> QED BY <1>1, <2>1 DEF BufferEarly, MuxInv, ReaderOK
<1>3. reader' \in Reader /\ reader'.at \in {"top", "batch"}
  BY BatchGoesOn DEF MuxInv, BufferEarly
<1>4. Conns' = Conns /\ UNCHANGED <<conns, routes>> /\ \A cid : Made(cid) => Made(cid)'
  BY DEF BufferEarly, Conns, Made
<1>5. EarlyOf(p.cid) \in Seq(Packet)
  BY DEF EarlyOf, MuxInv
<1>6. \A cid \in DOMAIN early' :
        early'[cid] \in Seq(Packet) /\ ~Routed(cid) /\ (cid \in OwnCids => Made(cid))
  <2>1. \A cid \in DOMAIN early :
            early[cid] \in Seq(Packet) /\ ~Routed(cid) /\ (cid \in OwnCids => Made(cid))
    BY DEF MuxInv, EarlyIsUnrouted, Routed
  <2>2. CASE early' = early
    BY <2>1, <2>2
  <2>3. CASE early' = [k \in DOMAIN early \cup {p.cid} |->
                            IF k = p.cid THEN Append(EarlyOf(k), p) ELSE early[k]]
    <3>1. Append(EarlyOf(p.cid), p) \in Seq(Packet)
      BY <1>2, <1>5
    <3> QED BY <1>2, <2>1, <2>3, <3>1
  <2> QED BY <1>1, <2>2, <2>3, Zenon DEF BufferEarly
<1>7. \A c \in Conns : SynOK(c, conns[c], reader')
  BY DEF MuxInv, SynOK, BufferEarly
<1>8. ReaderOK'
  BY <1>3 DEF ReaderOK
<1> QED BY <1>3, <1>4, <1>6, <1>7, <1>8 DEF MuxInv, EarlyIsUnrouted, Routed

\* A connection is made as an open one that has seen nothing.
LEMMA NewOne ==
    ASSUME conns \in Seq(Connection), NEW cid \in Cids, conns' = Append(conns, NewConnection(cid))
    PROVE  /\ conns' \in Seq(Connection) /\ Len(conns') = Len(conns) + 1
           /\ Conns' = Conns \cup {Len(conns) + 1}
           /\ \A c \in Conns : conns'[c] = conns[c]
           /\ \E r \in Connection : /\ conns'[Len(conns) + 1] = r
                                   /\ r.cid = cid /\ r.first = "none" /\ r.inbound = <<>>
                                   /\ r.state = "open"
           /\ \A k : Made(k) => Made(k)'
           /\ Made(cid)'
<1>1. PICK r : r = NewConnection(cid)
  OBVIOUS
<1>2. r \in Connection
  <2>1. <<>> \in Seq(Kinds) /\ FALSE \in BOOLEAN /\ "open" \in States
        /\ (closing \notin {"open", "closed"}) \in BOOLEAN
    BY DEF States
  <2> QED BY <1>1, <2>1, Zenon DEF NewConnection, Connection
<1>3. r.cid = cid /\ r.first = "none" /\ r.inbound = <<>> /\ r.state = "open"
  BY <1>1 DEF NewConnection
<1>4. conns' \in Seq(Connection) /\ Len(conns') = Len(conns) + 1 /\ conns'[Len(conns) + 1] = r
      /\ \A c \in 1..Len(conns) : conns'[c] = conns[c]
  BY <1>1, <1>2
<1>5. Conns' = Conns \cup {Len(conns) + 1}
  BY <1>4 DEF Conns
<1>6. \A c \in Conns : conns'[c] = conns[c]
  BY <1>4 DEF Conns
<1>7. \A k : Made(k) => Made(k)'
  BY <1>5, <1>6, Zenon DEF Made
<1>8. Made(cid)'
  BY <1>3, <1>4, <1>5 DEF Made
<1> QED BY <1>2, <1>3, <1>4, <1>5, <1>6, <1>7, <1>8, Zenon

\* A SYN makes a connection, which takes over what was put aside for it.
LEMMA RegisterStep ==
    ASSUME MuxInv, Register
    PROVE  MuxInv'
<1>1. PICK p, c : p = Head(reader.packets) /\ c = Len(conns) + 1
  OBVIOUS
<1>2. p \in Packet /\ p.kind = "syn" /\ p.cid \in PeerCids
  <2>1. reader.packets \in Seq(Packet) /\ reader.packets # <<>>
    BY DEF Register, MuxInv, ReaderOK, Reader
  <2> QED BY <1>1, <2>1 DEF Register, MuxInv, ReaderOK
<1>3. conns \in Seq(Connection) /\ conns' = Append(conns, NewConnection(p.cid)) /\ p.cid \in Cids
  BY <1>1, <1>2 DEF Register, MuxInv, Cids
<1>4. PICK r \in Connection : /\ conns'[c] = r
                             /\ r.cid = p.cid /\ r.first = "none" /\ r.inbound = <<>>
                             /\ r.state = "open"
  BY <1>1, <1>3, NewOne
<1>5. /\ conns' \in Seq(Connection) /\ Conns' = Conns \cup {c}
      /\ \A d \in Conns : conns'[d] = conns[d]
      /\ \A k : Made(k) => Made(k)'
  BY <1>1, <1>3, NewOne, Zenon
<1>6. \A cid \in DOMAIN routes' : routes'[cid] \in Conns'
  BY <1>1, <1>5 DEF Register, Route, MuxInv
<1>7. /\ DOMAIN early' = DOMAIN early \ {p.cid}
      /\ \A cid \in DOMAIN early' : early'[cid] = early[cid]
      /\ DOMAIN routes' = DOMAIN routes \cup {p.cid}
  BY <1>1 DEF Register, Grabbed, Without, Route
<1>8. EarlyOf(p.cid) \in Seq(Packet)
  BY DEF EarlyOf, MuxInv
<1>9. PICK q \in Seq(Packet) : q = Replayed(p) /\ q # <<>> /\ Head(q) = p
  <2>1. /\ Replayed(p) \in Seq(Packet) /\ Len(Replayed(p)) = 1 + Len(EarlyOf(p.cid))
        /\ Replayed(p)[1] = p
    BY <1>2, <1>8 DEF Replayed
  <2> QED BY <1>8, <2>1
<1>10. reader' = [reader EXCEPT !.at = "enqueue", !.conn = c, !.notify = TRUE, !.packets = q]
  BY <1>1, <1>9 DEF Register
<1>11. reader' \in Reader /\ reader'.at = "enqueue" /\ reader'.conn = c /\ reader'.packets = q
  <2>1. reader \in Reader /\ c \in Int /\ TRUE \in BOOLEAN /\ "enqueue" \in Places
    BY <1>1, <1>3 DEF MuxInv, Places
  <2>2. reader' \in Reader
    BY <1>10, <2>1, Zenon DEF Reader
  <2>3. reader'.at = "enqueue" /\ reader'.conn = c /\ reader'.packets = q
    BY <1>10, <2>1 DEF Reader
  <2> QED BY <2>2, <2>3
<1>12. ReaderOK'
  BY <1>5, <1>11 DEF ReaderOK
<1>13. \A d \in Conns' : SynOK(d, conns'[d], reader')
  <2>1. \A d \in Conns : SynOK(d, conns[d], reader')
    BY DEF MuxInv, SynOK, Register
  <2>2. SynOK(c, r, reader')
    BY <1>2, <1>4, <1>9, <1>11 DEF SynOK
  <2> QED BY <1>4, <1>5, <2>1, <2>2
<1>14. EarlyIsUnrouted'
  BY <1>7 DEF EarlyIsUnrouted, MuxInv
<1>15. \A cid \in DOMAIN early' : early'[cid] \in Seq(Packet) /\ (cid \in OwnCids => Made(cid)')
  BY <1>5, <1>7 DEF MuxInv
<1> QED BY <1>5, <1>6, <1>11, <1>12, <1>13, <1>14, <1>15 DEF MuxInv

\* A dialled CID has been in no packet, so nothing was put aside for it.
LEMMA DialStep ==
    ASSUME MuxInv, NEW cid \in OwnCids, Dial(cid)
    PROVE  MuxInv'
<1>1. PICK c : c = Len(conns) + 1
  OBVIOUS
<1>2. /\ conns \in Seq(Connection) /\ conns' = Append(conns, NewConnection(cid)) /\ cid \in Cids
      /\ UNCHANGED <<early, reader>>
  BY DEF Dial, MuxInv, Cids
<1>3. PICK r \in Connection : /\ conns'[c] = r
                             /\ r.cid = cid /\ r.first = "none" /\ r.inbound = <<>>
                             /\ r.state = "open"
  BY <1>1, <1>2, NewOne
<1>4. /\ conns' \in Seq(Connection) /\ Conns' = Conns \cup {c}
      /\ \A d \in Conns : conns'[d] = conns[d]
      /\ \A k : Made(k) => Made(k)'
  BY <1>1, <1>2, NewOne, Zenon
<1>5. \A k \in DOMAIN routes' : routes'[k] \in Conns'
  BY <1>1, <1>4 DEF Dial, Route, MuxInv
<1>6. ~Made(cid)
  BY DEF Dial, Made
<1>7. DOMAIN routes' = DOMAIN routes \cup {cid}
  BY DEF Dial, Route
<1>8. EarlyIsUnrouted'
  BY <1>2, <1>6, <1>7 DEF EarlyIsUnrouted, MuxInv
<1>9. ReaderOK'
  <2>1. reader.at = "enqueue" => reader.conn \in Conns'
    BY <1>4 DEF MuxInv, ReaderOK
  <2>2. reader.at = "buffer" =>
          LET k == Head(reader.packets).cid
          IN k \notin DOMAIN routes' /\ (k \in OwnCids => Made(k)')
    <3>1. PICK k : k = Head(reader.packets).cid
      OBVIOUS
    <3>2. reader.at = "buffer" => k \notin DOMAIN routes /\ (k \in OwnCids => Made(k))
      BY <3>1 DEF MuxInv, ReaderOK, Routed
    <3>3. reader.at = "buffer" => k \notin DOMAIN routes' /\ (k \in OwnCids => Made(k)')
      BY <1>4, <1>6, <1>7, <3>2
    <3> QED BY <1>2, <3>1, <3>3
  <2> QED BY <1>2, <2>1, <2>2 DEF MuxInv, ReaderOK, Routed
<1>10. \A d \in Conns' : SynOK(d, conns'[d], reader')
  <2>1. SynOK(c, r, reader)
    BY <1>3, MultiplexerAssumption DEF SynOK
  <2> QED BY <1>2, <1>3, <1>4, <2>1, Zenon DEF MuxInv
<1>11. \A k \in DOMAIN early' : early'[k] \in Seq(Packet) /\ (k \in OwnCids => Made(k)')
  BY <1>2, <1>4 DEF MuxInv
<1> QED BY <1>2, <1>4, <1>5, <1>8, <1>9, <1>10, <1>11, Zenon DEF MuxInv

\* The connection the reader holds packets for is given the next one.
LEMMA EnqueueStep ==
    ASSUME MuxInv, enqueue
    PROVE  MuxInv'
<1>1. PICK c, q, k : c = reader.conn /\ q = Tail(reader.packets) /\ k = Head(reader.packets).kind
  BY Zenon
<1>2. c \in Conns /\ conns \in Seq(Connection) /\ reader \in Reader
      /\ reader.at = "enqueue" /\ reader.packets # <<>> /\ reader.packets \in Seq(Packet)
  BY <1>1 DEF enqueue, MuxInv, ReaderOK, Reader
<1>3. q \in Seq(Packet) /\ k \in Kinds
  <2>1. Head(reader.packets) \in Packet /\ q \in Seq(Packet)
    BY <1>1, <1>2
  <2> QED BY <1>1, <2>1 DEF Packet
<1>4. reader' \in Reader /\ reader'.at = "enqueue" /\ reader'.conn = c
  <2>1. reader' = [reader EXCEPT !.packets = q]
    BY <1>1 DEF enqueue
  <2>2. reader' \in Reader
    BY <1>2, <1>3, <2>1, Zenon DEF Reader
  <2>3. reader'.at = "enqueue" /\ reader'.conn = c
    BY <1>1, <1>2, <2>1 DEF Reader
  <2> QED BY <2>2, <2>3
<1>5. PICK r \in Connection :
        /\ r.cid = conns[c].cid /\ SynOK(c, r, reader')
        /\ conns' = [conns EXCEPT ![c] = r]
  <2>1. conns[c] \in Connection /\ SynOK(c, conns[c], reader)
    BY <1>2 DEF Conns, MuxInv
  <2>2. conns[c].inbound \in Seq(Kinds) /\ conns[c].state \in States
    BY <2>1 DEF Connection
  <2>3. CASE conns[c].state \in {"open", "closing"} /\ Len(conns[c].inbound) < InboundQueue
    <3>1. PICK i \in Seq(Kinds) : i = Append(conns[c].inbound, k)
      <4>1. Append(conns[c].inbound, k) \in Seq(Kinds)
        BY <1>3, <2>2
      <4> QED BY <4>1, Zenon
    <3>2. PICK r : r = [conns[c] EXCEPT !.inbound = i]
      BY Zenon
    <3>3. r \in Connection
      BY <2>1, <3>1, <3>2, Zenon DEF Connection
    <3>4. /\ r.cid = conns[c].cid /\ r.state = conns[c].state /\ r.first = conns[c].first
          /\ r.inbound = i
      BY <2>1, <3>2 DEF Connection
    <3>5. i # <<>> /\ (conns[c].inbound # <<>> => Head(i) = Head(conns[c].inbound))
          /\ (conns[c].inbound = <<>> => Head(i) = k)
      BY <1>3, <2>2, <3>1
    <3>6. SynOK(c, r, reader')
      BY <1>1, <2>1, <2>3, <3>4, <3>5 DEF SynOK
    <3>7. conns' = [conns EXCEPT ![c] = r]
      BY <1>1, <2>3, <3>1, <3>2 DEF enqueue
    <3> QED BY <3>3, <3>4, <3>6, <3>7, Zenon
  <2>4. CASE ~(conns[c].state \in {"open", "closing"} /\ Len(conns[c].inbound) < InboundQueue)
    <3>1. conns' = conns
      BY <1>1, <2>4 DEF enqueue
    <3>2. conns' = [conns EXCEPT ![c] = conns[c]]
      BY <1>2, <3>1 DEF Conns
    <3>3. SynOK(c, conns[c], reader')
      <4>1. conns[c].inbound = <<>> => Len(conns[c].inbound) = 0
        OBVIOUS
      <4>2. conns[c].state \in {"open", "closing"} => conns[c].inbound # <<>>
        BY <2>4, <4>1, MultiplexerAssumption
      <4> QED BY <2>1, <4>2 DEF SynOK
    <3> QED BY <2>1, <3>2, <3>3, Zenon
  <2> QED BY <2>3, <2>4
<1>6. /\ conns' \in Seq(Connection) /\ Conns' = Conns
      /\ conns'[c] = r
      /\ \A d \in Conns : d # c => conns'[d] = conns[d]
  BY <1>2, <1>5, Replaced, Zenon
<1>7. \A cid : Made(cid) => Made(cid)'
  BY <1>5, <1>6 DEF Made
<1>8. \A d \in Conns : SynOK(d, conns'[d], reader')
  <2>1. \A d \in Conns : d # c => SynOK(d, conns[d], reader')
    BY <1>1 DEF MuxInv, SynOK
  <2> QED BY <1>5, <1>6, <2>1
<1>9. ReaderOK'
  BY <1>2, <1>4, <1>6 DEF ReaderOK
<1>10. UNCHANGED <<routes, early>>
  BY DEF enqueue
<1> QED BY <1>4, <1>6, <1>7, <1>8, <1>9, <1>10 DEF MuxInv, EarlyIsUnrouted

\* closeInternal begins, on whichever goroutine.
LEMMA BeginCloseStep ==
    ASSUME MuxInv, NEW c \in Conns, NEW who \in {"another", "Close"}, conns[c].state = "open",
           conns' = BeginClose(c, who), UNCHANGED <<routes, early, reader>>
    PROVE  MuxInv'
<1>1. conns \in Seq(Connection) /\ conns[c] \in Connection /\ SynOK(c, conns[c], reader)
  BY DEF MuxInv, Conns
<1>2. PICK r : r = [conns[c] EXCEPT !.state = "closing", !.by = who]
  OBVIOUS
<1>3. r \in Connection
  <2>1. "closing" \in States
    BY DEF States
  <2> QED BY <1>1, <1>2, <2>1, Zenon DEF Connection
<1>4. /\ r.cid = conns[c].cid /\ r.state = "closing" /\ r.first = conns[c].first
      /\ r.inbound = conns[c].inbound
  BY <1>1, <1>2 DEF Connection
<1>5. conns' = [conns EXCEPT ![c] = r]
  BY <1>1, <1>2, Zenon DEF BeginClose, Conns
<1>6. SynOK(c, r, reader)
  BY <1>1, <1>4 DEF SynOK
<1> QED BY <1>3, <1>4, <1>5, <1>6, ConnectionChange, Zenon

\* inboundLoop takes the head of the queue, which is the SYN if it is the
\* first packet it takes.
LEMMA HandleStep ==
    ASSUME MuxInv, NEW c \in Conns, HandlePacket(c)
    PROVE  MuxInv'
<1>1. conns \in Seq(Connection) /\ conns[c] \in Connection /\ SynOK(c, conns[c], reader)
  BY DEF MuxInv, Conns
<1>2. conns[c].inbound \in Seq(Kinds) /\ conns[c].inbound # <<>> /\ conns[c].state \in States
  BY <1>1 DEF Connection, HandlePacket
<1>3. PICK k \in Kinds, i \in Seq(Kinds) : k = Head(conns[c].inbound) /\ i = Tail(conns[c].inbound)
  <2>1. Head(conns[c].inbound) \in Kinds /\ Tail(conns[c].inbound) \in Seq(Kinds)
    BY <1>2
  <2> QED BY <2>1, Zenon
<1>4. conns[c].state \in {"open", "closing"}
  BY <1>1, <1>2 DEF SynOK, States
<1>5. PICK f \in {"none", "syn"} :
        /\ f = IF conns[c].first = "none" /\ conns[c].cid \in PeerCids THEN k ELSE conns[c].first
        /\ conns[c].cid \in PeerCids => f = "syn"
  BY <1>1, <1>2, <1>3, <1>4 DEF SynOK
<1>6. PICK s \in {"open", "closing"} :
        s = IF k = "close" /\ conns[c].state = "open" THEN "closing" ELSE conns[c].state
  BY <1>4
<1>7. PICK b \in {"none", "another", "inboundLoop", "Close"} :
        b = IF k = "close" /\ conns[c].state = "open" THEN "inboundLoop" ELSE conns[c].by
  BY <1>1 DEF Connection
<1>8. PICK r : r = [conns[c] EXCEPT !.inbound = i, !.first = f, !.state = s, !.by = b]
  OBVIOUS
<1>9. r \in Connection
  <2>1. f \in Kinds \cup {"none"} /\ s \in States
    BY DEF Kinds, States
  <2> QED BY <1>1, <1>8, <2>1, Zenon DEF Connection
<1>10. r.cid = conns[c].cid /\ r.state = s /\ r.first = f
  BY <1>1, <1>8 DEF Connection
<1>11. conns' = [conns EXCEPT ![c] = r]
  BY <1>1, <1>3, <1>5, <1>6, <1>7, <1>8, Zenon DEF HandlePacket, Conns
<1>12. SynOK(c, r, reader)
  BY <1>5, <1>6, <1>10 DEF SynOK
<1>13. UNCHANGED <<routes, early, reader>>
  BY DEF HandlePacket
<1> QED BY <1>9, <1>10, <1>11, <1>12, <1>13, ConnectionChange, Zenon

\* A closed connection's queue is not read any more.
LEMMA CloseChannelStep ==
    ASSUME MuxInv, NEW c \in Conns, CloseChannel(c)
    PROVE  MuxInv'
<1>1. conns \in Seq(Connection) /\ conns[c] \in Connection /\ SynOK(c, conns[c], reader)
  BY DEF MuxInv, Conns
<1>2. PICK r : r = [conns[c] EXCEPT !.state = "closed", !.inbound = <<>>]
  OBVIOUS
<1>3. r \in Connection
  <2>1. "closed" \in States /\ <<>> \in Seq(Kinds)
    BY DEF States
  <2> QED BY <1>1, <1>2, <2>1, Zenon DEF Connection
<1>4. /\ r.cid = conns[c].cid /\ r.state = "closed" /\ r.first = conns[c].first
      /\ r.inbound = <<>>
  BY <1>1, <1>2 DEF Connection
<1>5. conns' = [conns EXCEPT ![c] = r]
  BY <1>1, <1>2, Zenon DEF CloseChannel, Conns
<1>6. SynOK(c, r, reader)
  BY <1>1, <1>4 DEF SynOK
<1>7. UNCHANGED <<routes, early, reader>>
  BY DEF CloseChannel
<1> QED BY <1>3, <1>4, <1>5, <1>6, <1>7, ConnectionChange, Zenon

\* Routes that are removed route nothing to anyone.
LEMMA RoutesRemoved ==
    ASSUME MuxInv, NEW S, routes' = Without(routes, S), UNCHANGED <<conns, early, reader>>
    PROVE  MuxInv'
<1>1. DOMAIN routes' \subseteq DOMAIN routes /\ \A k \in DOMAIN routes' : routes'[k] = routes[k]
  BY DEF Without
<1>2. Conns' = Conns
  BY DEF Conns
<1>3. ReaderOK'
  BY <1>1, <1>2 DEF MuxInv, ReaderOK, Routed, Made
<1> QED BY <1>1, <1>2, <1>3 DEF MuxInv, EarlyIsUnrouted, Made

\* onClose removes the route of the CID, whoever has it by then.
LEMMA OnCloseStep ==
    ASSUME MuxInv, NEW c \in Conns, OnClose(c)
    PROVE  MuxInv'
<1>1. conns \in Seq(Connection) /\ \A d \in Conns : conns[d] \in Connection
  BY DEF MuxInv, Conns
<1>2. PICK cid : cid = conns[c].cid
  OBVIOUS
<1>3. conns' = [d \in Conns |->
            [conns[d] EXCEPT
                !.state = IF d = c THEN "done" ELSE @, !.by = IF d = c THEN "none" ELSE @,
                !.orphaned = @ \/ (d # c /\ Routed(cid) /\ routes[cid] = d)]]
  BY <1>2, Zenon DEF OnClose
<1>4. \A d \in Conns : /\ conns'[d] \in Connection
                      /\ conns'[d].cid = conns[d].cid /\ conns'[d].first = conns[d].first
                      /\ conns'[d].inbound = conns[d].inbound
                      /\ conns'[d].state = IF d = c THEN "done" ELSE conns[d].state
  <2> SUFFICES ASSUME NEW d \in Conns
               PROVE  /\ conns'[d] \in Connection
                      /\ conns'[d].cid = conns[d].cid /\ conns'[d].first = conns[d].first
                      /\ conns'[d].inbound = conns[d].inbound
                      /\ conns'[d].state = IF d = c THEN "done" ELSE conns[d].state
    OBVIOUS
  <2>1. PICK s, b, o : /\ s = IF d = c THEN "done" ELSE conns[d].state
                       /\ b = IF d = c THEN "none" ELSE conns[d].by
                       /\ o = (conns[d].orphaned \/ (d # c /\ Routed(cid) /\ routes[cid] = d))
    OBVIOUS
  <2>2. conns'[d] = [conns[d] EXCEPT !.state = s, !.by = b, !.orphaned = o]
    BY <1>3, <2>1, Zenon
  <2>3. s \in States /\ b \in {"none", "another", "inboundLoop", "Close"}
    BY <1>1, <2>1 DEF Connection, States
  <2>4. o \in BOOLEAN
    BY <2>1, Zenon
  <2>5. conns'[d] \in Connection
    BY <1>1, <2>2, <2>3, <2>4, Zenon DEF Connection
  <2>6. /\ conns'[d].cid = conns[d].cid /\ conns'[d].first = conns[d].first
        /\ conns'[d].inbound = conns[d].inbound /\ conns'[d].state = s
    BY <1>1, <2>2 DEF Connection
  <2> QED BY <2>1, <2>5, <2>6
<1>5. conns' \in Seq(Connection) /\ Conns' = Conns
  <2>0. Len(conns) \in Nat
    BY <1>1
  <2>1. DOMAIN conns' = 1..Len(conns)
    BY <1>3, Zenon DEF Conns
  <2>2. conns' = [d \in 1..Len(conns) |-> conns'[d]]
    BY <1>3, Zenon DEF Conns
  <2>3. conns' \in [1..Len(conns) -> Connection]
    BY <1>4, <2>2 DEF Conns
  <2>4. conns' \in Seq(Connection)
    BY <2>0, <2>3
  <2>5. Len(conns') = Len(conns)
    BY <2>0, <2>1, <2>4
  <2> QED BY <2>4, <2>5 DEF Conns
<1>6. \A k : Made(k) => Made(k)'
  BY <1>4, <1>5 DEF Made
<1>7. DOMAIN routes' \subseteq DOMAIN routes /\ \A k \in DOMAIN routes' : routes'[k] = routes[k]
  BY Zenon DEF OnClose, removeConnection, Without
<1>8. UNCHANGED <<early, reader>> /\ conns[c].state = "closed"
  BY Zenon DEF OnClose
<1>9. \A d \in Conns : SynOK(d, conns'[d], reader)
  <2>1. \A d \in Conns : SynOK(d, conns[d], reader)
    BY DEF MuxInv
  <2>2. \A d \in Conns : d # c => SynOK(d, conns'[d], reader)
    BY <1>4, <2>1 DEF SynOK
  <2>3. SynOK(c, conns'[c], reader)
    BY <1>4, <1>8, <2>1 DEF SynOK
  <2> QED BY <2>2, <2>3
<1>10. ReaderOK'
  <2>1. PICK k : k = Head(reader.packets).cid
    OBVIOUS
  <2>2. reader.at = "buffer" => k \notin DOMAIN routes' /\ (k \in OwnCids => Made(k)')
    BY <1>6, <1>7, <2>1 DEF MuxInv, ReaderOK, Routed
  <2> QED BY <1>5, <1>8, <2>1, <2>2 DEF MuxInv, ReaderOK, Routed
<1> QED BY <1>5, <1>6, <1>7, <1>8, <1>9, <1>10 DEF MuxInv, EarlyIsUnrouted

\* Steps that touch none of it.
LEMMA Untouched ==
    ASSUME MuxInv, UNCHANGED <<conns, routes, early, reader>>
    PROVE  MuxInv'
<1>1. Conns' = Conns
  BY DEF Conns
<1> QED BY <1>1 DEF MuxInv, EarlyIsUnrouted, ReaderOK, Routed, Made

\* No step forgets a connection.
LEMMA ConnectionsStay ==
    ASSUME MuxInv, MuxInv', [Next]_vars
    PROVE  Conns \subseteq Conns'
<1>1. conns \in Seq(Connection) /\ Conns = DOMAIN conns
  BY DEF MuxInv, Conns
<1>2. Conns' = DOMAIN conns'
  BY DEF MuxInv, Conns
<1>3. CASE conns' = conns
  BY <1>3 DEF Conns
<1>4. CASE \E cid : conns' = Append(conns, NewConnection(cid))
  BY <1>1, <1>4 DEF Conns
<1>5. CASE \E c : (\E who : conns' = BeginClose(c, who)) \/ HandlePacket(c) \/ CloseChannel(c)
  BY <1>1, <1>2, <1>5, Zenon DEF BeginClose, HandlePacket, CloseChannel
<1>6. CASE \E c \in Conns : OnClose(c)
  BY <1>1, <1>2, <1>6, Zenon DEF OnClose
<1>7. CASE enqueue
  BY <1>1, <1>2, <1>7, Zenon DEF enqueue
<1> QED
  BY <1>3, <1>4, <1>5, <1>6, <1>7, Zenon
  DEF Next, Reading, Tidying, ReadTop, ReadFails, BufferEarly, Register, Notify,
      CollectAndClear, CloseSocket, CloseReturns, CloseCollected, CollectedDone, readMessages,
      Lookup, onIdleCheck, CloseConnection, Dial, Accept, idleTimeoutLoop, Close, vars

\* What Close has collected are connections.
LEMMA CollectedStep ==
    ASSUME MuxInv, MuxInv', toClose \subseteq Conns, [Next]_vars
    PROVE  (toClose \subseteq Conns)'
<1>1. Conns \subseteq Conns'
  BY ConnectionsStay
<1>2. toClose' \subseteq toClose \/ (toClose' = Range(routes) /\ Conns' = Conns)
  BY Zenon DEF Next, Reading, Tidying, ReadTop, ReadFails, BufferEarly, Register, enqueue, Notify,
        CollectAndClear, Collected, CloseSocket, CloseReturns, CloseCollected, CollectedDone,
        readMessages, Lookup, HandlePacket, onIdleCheck, CloseConnection, CloseChannel, OnClose,
        Dial, Accept, idleTimeoutLoop, Close, vars, muxVars, Conns
<1>3. Range(routes) \subseteq Conns
  BY DEF MuxInv, Range
<1> QED BY <1>1, <1>2, <1>3

\* Every step of every goroutine keeps the invariant.
LEMMA MuxStep ==
    ASSUME MuxInv, toClose \subseteq Conns, [Next]_vars
    PROVE  MuxInv'
<1>1. CASE ReadTop \/ readMessages \/ ReadFails \/ Notify
  BY <1>1, ReadingStep
<1>2. CASE BufferEarly
  BY <1>2, BufferStep
<1>3. CASE Register
  BY <1>3, RegisterStep
<1>4. CASE enqueue
  BY <1>4, EnqueueStep
<1>5. CASE \E p \in Packet : Lookup(p)
  BY <1>5, LookupStep
<1>6. CASE \E c \in Conns : HandlePacket(c)
  BY <1>6, HandleStep
<1>7. CASE \E c \in Conns : onIdleCheck(c) \/ CloseConnection(c)
  BY <1>7, BeginCloseStep DEF onIdleCheck, idleExpired, CloseConnection
<1>8. CASE \E c \in Conns : CloseChannel(c)
  BY <1>8, CloseChannelStep
<1>9. CASE \E c \in Conns : OnClose(c)
  BY <1>9, OnCloseStep
<1>10. CASE \E cid \in OwnCids : Dial(cid)
  BY <1>10, DialStep
<1>11. CASE idleTimeoutLoop
  BY <1>11, RoutesRemoved, Untouched, Zenon DEF idleTimeoutLoop
<1>12. CASE CollectAndClear
  BY <1>12, RoutesRemoved DEF CollectAndClear
<1>13. CASE \E c \in toClose : CollectedDone(c)
  BY <1>13, Untouched DEF CollectedDone
<1>14. CASE Accept \/ Close \/ CloseSocket \/ CloseReturns \/ UNCHANGED vars
  BY <1>14, Untouched DEF Accept, Close, CloseSocket, CloseReturns, vars
<1>15. CASE \E c \in toClose : CloseCollected(c)
  BY <1>15, BeginCloseStep DEF CloseCollected
<1> QED
  BY <1>1, <1>2, <1>3, <1>4, <1>5, <1>6, <1>7, <1>8, <1>9, <1>10, <1>11, <1>12, <1>13,
     <1>14, <1>15 DEF Next, Reading, Tidying

\* No packet is left in earlyPackets once there is a connection for its CID,
\* although handleDatagram looks the CID up in one critical section and
\* buffers in another, and Dial and the removals run in between.
THEOREM EarlyHandedOver == Spec => []EarlyIsUnrouted
<1>1. Init => MuxInv /\ toClose \subseteq Conns
  BY MuxInitially DEF Init
<1>2. (MuxInv /\ toClose \subseteq Conns) /\ [Next]_vars => (MuxInv /\ toClose \subseteq Conns)'
  BY MuxStep, CollectedStep
<1>3. MuxInv => EarlyIsUnrouted
  BY DEF MuxInv
<1> QED BY <1>1, <1>2, <1>3, PTL DEF Spec

\* A connection that a peer dialled handles the SYN before everything else,
\* however many packets handleDatagram had put aside for its CID and whoever
\* closes it meanwhile.
THEOREM SynHandledFirst == Spec => []SynFirst
<1>1. Init => MuxInv /\ toClose \subseteq Conns
  BY MuxInitially DEF Init
<1>2. (MuxInv /\ toClose \subseteq Conns) /\ [Next]_vars => (MuxInv /\ toClose \subseteq Conns)'
  BY MuxStep, CollectedStep
<1>3. MuxInv => SynFirst
  BY DEF MuxInv, SynOK, SynFirst
<1> QED BY <1>1, <1>2, <1>3, PTL DEF Spec

-----------------------------------------------------------------------------
Over(k) == k.state \in {"closed", "done"}

\* The packets of c's CID go to c, or a later removal of its route for an
\* earlier connection of that CID has been noted.
HasRoute(c) ==
    \/ Routed(conns[c].cid) /\ routes[conns[c].cid] = c
    \/ conns[c].orphaned /\ \E d \in 1..c - 1 : conns[d].cid = conns[c].cid

\* A CID is routed to the last connection made for it, if to any; the reader
\* makes one only for a CID that has no route; a connection that is being
\* closed keeps its route as an open one does; and Close has collected every
\* connection it is to wait for.
RouteInv ==
    /\ \A cid \in DOMAIN routes : conns[routes[cid]].cid = cid
    /\ \A c \in Conns : Routed(conns[c].cid) => c <= routes[conns[c].cid]
    /\ reader.at = "create" => ~Routed(Head(reader.packets).cid)
    /\ closing \in {"open", "closed"} => \A c \in Conns : Over(conns[c]) \/ HasRoute(c)
    /\ closing \notin {"open", "closed"} =>
        \A c \in Conns : Over(conns[c]) \/ conns[c].late \/ conns[c].orphaned \/ c \in toClose
    /\ SocketClosed => toClose = {}

\* Steps that make no connection, move no route and end no connection's end.
LEMMA Kept ==
    ASSUME MuxInv, RouteInv, Conns' = Conns,
           \A c \in Conns : /\ conns'[c].cid = conns[c].cid /\ conns'[c].late = conns[c].late
                            /\ conns'[c].orphaned = conns[c].orphaned
                            /\ Over(conns[c]) => Over(conns'[c]),
           UNCHANGED <<routes, closing, toClose>>,
           reader'.at = "create" => ~Routed(Head(reader'.packets).cid)
    PROVE  RouteInv'
<1>1. Conns = 1..Len(conns) /\ Len(conns) \in Nat
  BY DEF MuxInv, Conns
<1>2. \A cid \in DOMAIN routes : routes[cid] \in Conns
  BY DEF MuxInv
<1>3. \A c \in Conns : \A d \in 1..c - 1 : d \in Conns
  BY <1>1
<1>4. \A cid \in DOMAIN routes' : conns'[routes'[cid]].cid = cid
  BY <1>2 DEF RouteInv
<1>5. \A c \in Conns' : (Routed(conns[c].cid) => c <= routes[conns[c].cid])'
  BY DEF RouteInv, Routed
<1>6. \A c \in Conns : HasRoute(c) => HasRoute(c)'
  BY <1>3 DEF HasRoute, Routed
<1>7. closing' \in {"open", "closed"} => \A c \in Conns' : Over(conns'[c]) \/ HasRoute(c)'
  BY <1>6 DEF RouteInv
<1>8. closing' \notin {"open", "closed"} =>
        \A c \in Conns' : Over(conns'[c]) \/ conns'[c].late \/ conns'[c].orphaned \/ c \in toClose'
  BY DEF RouteInv
<1>9. SocketClosed' => toClose' = {}
  BY DEF RouteInv, SocketClosed
<1>10. (reader.at = "create" => ~Routed(Head(reader.packets).cid))'
  BY DEF Routed
<1> QED BY <1>4, <1>5, <1>7, <1>8, <1>9, <1>10 DEF RouteInv

\* A step that changes the state or the queue of one connection.
LEMMA KeptOfOne ==
    ASSUME MuxInv, RouteInv, NEW c \in Conns, NEW r, conns' = [conns EXCEPT ![c] = r],
           r.cid = conns[c].cid, r.late = conns[c].late, r.orphaned = conns[c].orphaned,
           Over(conns[c]) => Over(r), UNCHANGED <<routes, closing, toClose>>,
           reader'.at = "create" => reader' = reader
    PROVE  RouteInv'
<1>1. conns \in Seq(Connection) /\ Conns = 1..Len(conns) /\ Len(conns) \in Nat
  BY DEF MuxInv, Conns
<1>2. Len(conns') = Len(conns)
  BY <1>1
<1>3. Conns' = Conns
  BY <1>2 DEF Conns
<1>4. conns'[c] = r /\ \A d \in Conns : d # c => conns'[d] = conns[d]
  BY <1>1
<1>5. \A d \in Conns : /\ conns'[d].cid = conns[d].cid /\ conns'[d].late = conns[d].late
                       /\ conns'[d].orphaned = conns[d].orphaned
                       /\ Over(conns[d]) => Over(conns'[d])
  BY <1>4, Zenon
<1>6. reader'.at = "create" => ~Routed(Head(reader'.packets).cid)
  BY DEF RouteInv
<1> QED BY <1>3, <1>5, <1>6, Kept, Zenon

\* The steps of readLoop other than Register.
LEMMA ReaderKeeps ==
    ASSUME MuxInv, RouteInv,
           \/ ReadTop \/ readMessages \/ ReadFails \/ Notify \/ BufferEarly
           \/ \E p \in Packet : Lookup(p)
    PROVE  RouteInv'
<1>1. conns' = conns /\ Conns' = Conns /\ UNCHANGED <<routes, closing, toClose>>
  BY Zenon DEF ReadTop, readMessages, ReadFails, Notify, BufferEarly, Lookup, muxVars, Conns
<1>2. reader'.at = "create" => ~Routed(Head(reader'.packets).cid)
  <2>1. CASE Notify \/ BufferEarly
    <3>1. reader'.at \in {"top", "batch"}
      BY <2>1, BatchGoesOn DEF MuxInv, Notify, BufferEarly
    <3> QED BY <3>1
  <2>2. CASE ReadTop \/ readMessages \/ ReadFails
    BY <2>2 DEF ReadTop, readMessages, ReadFails, At
  <2>3. ASSUME NEW p \in Packet, Lookup(p)
        PROVE  reader'.at = "create" => ~Routed(Head(reader'.packets).cid)
    <3>1. reader \in Reader
      BY DEF MuxInv
    <3>2. CASE Known(p) /\ reader' = [reader EXCEPT !.at = "enqueue", !.left = @ - 1,
                                    !.conn = routes[p.cid], !.packets = <<p>>]
      BY <3>1, <3>2 DEF Reader
    <3>3. CASE /\ ~Known(p)
               /\ reader' = [reader EXCEPT !.at = "create", !.left = @ - 1, !.packets = <<p>>]
      <4>1. reader'.packets = <<p>>
        BY <3>1, <3>3 DEF Reader
      <4>2. Head(reader'.packets) = p
        BY <4>1
      <4> QED BY <3>3, <4>2 DEF Known
    <3>4. CASE /\ ~Known(p)
               /\ reader' = [reader EXCEPT !.at = "buffer", !.left = @ - 1, !.packets = <<p>>]
      BY <3>1, <3>4 DEF Reader
    <3> QED BY <2>3, <3>2, <3>3, <3>4, Zenon DEF Lookup
  <2> QED BY <2>1, <2>2, <2>3
<1>3. \A c \in Conns : /\ conns'[c].cid = conns[c].cid /\ conns'[c].late = conns[c].late
                       /\ conns'[c].orphaned = conns[c].orphaned
                       /\ Over(conns[c]) => Over(conns'[c])
  BY <1>1, Zenon
<1> QED BY <1>1, <1>2, <1>3, Kept, Zenon

\* closeInternal begins on a connection that is open.
LEMMA BeginCloseKeeps ==
    ASSUME MuxInv, RouteInv, NEW c \in Conns, NEW who, conns[c].state = "open",
           conns' = BeginClose(c, who), UNCHANGED <<routes, closing, toClose, reader>>
    PROVE  RouteInv'
<1>1. conns \in Seq(Connection) /\ conns[c] \in Connection
  BY DEF MuxInv, Conns
<1>2. PICK r : r = [conns[c] EXCEPT !.state = "closing", !.by = who]
  OBVIOUS
<1>3. r.cid = conns[c].cid /\ r.late = conns[c].late /\ r.orphaned = conns[c].orphaned
  BY <1>1, <1>2 DEF Connection
<1>4. conns' = [conns EXCEPT ![c] = r]
  BY <1>1, <1>2, Zenon DEF BeginClose, Conns
<1>5. ~Over(conns[c])
  BY DEF Over
<1> QED BY <1>3, <1>4, <1>5, KeptOfOne, Zenon

\* The inboundLoop of a connection, and the end of its close.
LEMMA ConnectionKeeps ==
    ASSUME MuxInv, RouteInv, NEW c \in Conns, HandlePacket(c) \/ CloseChannel(c)
    PROVE  RouteInv'
<1>1. conns \in Seq(Connection) /\ conns[c] \in Connection /\ SynOK(c, conns[c], reader)
  BY DEF MuxInv, Conns
<1>2. CASE HandlePacket(c)
  <2>1. PICK k, z, i, f, s, b :
            /\ k = Head(conns[c].inbound) /\ z = (k = "close" /\ conns[c].state = "open")
            /\ i = Tail(conns[c].inbound)
            /\ f = IF conns[c].first = "none" /\ conns[c].cid \in PeerCids
                   THEN k ELSE conns[c].first
            /\ s = IF z THEN "closing" ELSE conns[c].state
            /\ b = IF z THEN "inboundLoop" ELSE conns[c].by
    BY Zenon
  <2>2. PICK r : r = [conns[c] EXCEPT !.inbound = i, !.first = f, !.state = s, !.by = b]
    OBVIOUS
  <2>3. r.cid = conns[c].cid /\ r.late = conns[c].late /\ r.orphaned = conns[c].orphaned
    BY <1>1, <2>2 DEF Connection
  <2>4. ~Over(conns[c])
    BY <1>1, <1>2 DEF Over, SynOK, HandlePacket
  <2>6. conns' = [conns EXCEPT ![c] = r]
    BY <1>1, <1>2, <2>1, <2>2, Zenon DEF HandlePacket, Conns
  <2>5. UNCHANGED <<routes, closing, toClose, reader>>
    BY <1>2 DEF HandlePacket, muxVars
  <2> QED BY <2>3, <2>4, <2>5, <2>6, KeptOfOne, Zenon
<1>3. CASE CloseChannel(c)
  <2>1. PICK r : r = [conns[c] EXCEPT !.state = "closed", !.inbound = <<>>]
    OBVIOUS
  <2>2. conns' = [conns EXCEPT ![c] = r]
    BY <1>1, <1>3, <2>1, Zenon DEF CloseChannel, Conns
  <2>3. r.cid = conns[c].cid /\ r.late = conns[c].late /\ r.orphaned = conns[c].orphaned
    BY <1>1, <2>1 DEF Connection
  <2>4. ~Over(conns[c])
    BY <1>3 DEF Over, CloseChannel
  <2>5. UNCHANGED <<routes, closing, toClose, reader>>
    BY <1>3 DEF CloseChannel, muxVars
  <2> QED BY <2>2, <2>3, <2>4, <2>5, KeptOfOne, Zenon
<1> QED BY <1>2, <1>3

\* enqueue touches a queue only.
LEMMA EnqueueKeeps ==
    ASSUME MuxInv, RouteInv, enqueue
    PROVE  RouteInv'
<1>1. PICK c : c = reader.conn
  OBVIOUS
<1>2. c \in Conns /\ conns \in Seq(Connection) /\ reader \in Reader /\ reader.at = "enqueue"
  BY <1>1 DEF enqueue, MuxInv, ReaderOK
<1>3. conns[c] \in Connection
  BY <1>2 DEF Conns
<1>4. reader'.at = "enqueue"
  BY <1>2 DEF enqueue, Reader
<1>5. UNCHANGED <<routes, closing, toClose>>
  BY DEF enqueue, muxVars
<1>6. PICK r : /\ conns' = [conns EXCEPT ![c] = r] /\ r.cid = conns[c].cid
               /\ r.late = conns[c].late /\ r.orphaned = conns[c].orphaned
               /\ r.state = conns[c].state
  <2>1. CASE conns' = conns
    <3>1. conns' = [conns EXCEPT ![c] = conns[c]]
      BY <1>2, <2>1 DEF Conns
    <3> QED BY <3>1, Zenon
  <2>2. CASE conns' = [conns EXCEPT ![c].inbound = Append(@, Head(reader.packets).kind)]
    <3>1. PICK r : r = [conns[c] EXCEPT !.inbound = Append(@, Head(reader.packets).kind)]
      BY Zenon
    <3>2. conns' = [conns EXCEPT ![c] = r]
      BY <2>2, <3>1
    <3>3. /\ r.cid = conns[c].cid /\ r.late = conns[c].late /\ r.orphaned = conns[c].orphaned
          /\ r.state = conns[c].state
      BY <1>3, <3>1 DEF Connection
    <3> QED BY <3>2, <3>3, Zenon
  <2> QED BY <1>1, <2>1, <2>2, Zenon DEF enqueue
<1>7. Over(conns[c]) => Over(r)
  BY <1>6 DEF Over
<1> QED BY <1>2, <1>4, <1>5, <1>6, <1>7, KeptOfOne, Zenon

\* A new connection is the last one of its CID; the CID had no route.
LEMMA MadeKeeps ==
    ASSUME MuxInv, RouteInv, NEW cid \in Cids, ~Routed(cid), NEW c, c = Len(conns) + 1,
           conns' = Append(conns, NewConnection(cid)), routes' = Route(cid, c),
           UNCHANGED <<closing, toClose>>,
           reader'.at = "create" => Head(reader'.packets).cid \notin DOMAIN routes'
    PROVE  RouteInv'
<1>1. conns \in Seq(Connection) /\ Conns = 1..Len(conns) /\ Len(conns) \in Nat
  BY DEF MuxInv, Conns
<1>2. Conns' = Conns \cup {c} /\ \A d \in Conns : conns'[d] = conns[d] /\ d # c /\ d <= c
  <2>1. Conns' = Conns \cup {c} /\ \A d \in Conns : conns'[d] = conns[d]
    BY <1>1, NewOne
  <2>2. \A d \in Conns : d # c /\ d <= c
    BY <1>1
  <2> QED BY <2>1, <2>2, Zenon
<1>3. conns'[c] = NewConnection(cid)
  BY <1>1
<1>4. conns'[c].cid = cid /\ (closing \notin {"open", "closed"} => conns'[c].late)
  <2>1. PICK late : late = (closing \notin {"open", "closed"})
    OBVIOUS
  <2>2. conns'[c] = [cid |-> cid, state |-> "open", by |-> "none", inbound |-> <<>>,
                     first |-> "none", late |-> late, orphaned |-> FALSE]
    BY <1>3, <2>1, Zenon DEF NewConnection
  <2>3. conns'[c].cid = cid /\ conns'[c].late = late
    BY <2>2
  <2> QED BY <2>1, <2>3, Zenon
<1>5. /\ DOMAIN routes' = DOMAIN routes \cup {cid} /\ routes'[cid] = c
      /\ \A k \in DOMAIN routes : routes'[k] = routes[k] /\ routes[k] \in Conns
  BY DEF Route, Routed, MuxInv
<1>6. c \in Int /\ c <= c
  BY <1>1
<1>7. \A k \in DOMAIN routes' : conns'[routes'[k]].cid = k
  <2>1. conns'[routes'[cid]].cid = cid
    BY <1>4, <1>5
  <2>2. \A k \in DOMAIN routes : conns'[routes'[k]].cid = k
    <3>1. \A k \in DOMAIN routes : routes[k] \in Conns /\ conns[routes[k]].cid = k
      BY <1>5, Zenon DEF RouteInv
    <3> TAKE k \in DOMAIN routes
    <3>2. PICK d : d = routes[k]
      OBVIOUS
    <3>3. d \in Conns /\ conns[d].cid = k /\ routes'[k] = d
      BY <1>5, <3>1, <3>2, Zenon
    <3>4. conns'[d] = conns[d]
      BY <1>2, <3>3, Zenon
    <3> QED BY <3>3, <3>4, Zenon
  <2> QED BY <1>5, <2>1, <2>2, Zenon
<1>8. \A d \in Conns' : conns'[d].cid \in DOMAIN routes' => d <= routes'[conns'[d].cid]
  <2>1. \A d \in Conns : conns[d].cid \in DOMAIN routes' => d <= routes'[conns[d].cid]
    BY <1>2, <1>5 DEF RouteInv, Routed
  <2>2. \A d \in Conns : conns'[d].cid \in DOMAIN routes' => d <= routes'[conns'[d].cid]
    BY <1>2, <2>1, Zenon
  <2>3. c <= routes'[conns'[c].cid]
    BY <1>4, <1>5, <1>6, Zenon
  <2> QED BY <1>2, <2>2, <2>3, Zenon
<1>9. closing' \in {"open", "closed"} => \A d \in Conns' : Over(conns'[d]) \/ HasRoute(d)'
  <2>1. \A d \in Conns : \A e \in 1..d - 1 : e \in Conns
    BY <1>1
  <2>2. HasRoute(c)'
    BY <1>4, <1>5 DEF HasRoute, Routed
  <2>3. \A d \in Conns : HasRoute(d) => HasRoute(d)'
    BY <1>2, <1>5, <2>1, Zenon DEF HasRoute, Routed
  <2> QED BY <1>2, <2>2, <2>3, Zenon DEF RouteInv
<1>10. closing' \notin {"open", "closed"} =>
        \A d \in Conns' : Over(conns'[d]) \/ conns'[d].late \/ conns'[d].orphaned \/ d \in toClose'
  BY <1>2, <1>4, Zenon DEF RouteInv
<1>11. SocketClosed' => toClose' = {}
  BY DEF RouteInv, SocketClosed
<1>12. /\ \A d \in Conns' : Routed(conns[d].cid)' => d <= routes'[conns'[d].cid]
       /\ reader'.at = "create" => ~Routed(Head(reader.packets).cid)'
  BY <1>8, Zenon DEF Routed
<1> QED BY <1>7, <1>9, <1>10, <1>11, <1>12, Zenon DEF RouteInv

\* handleDatagram makes a connection in a later critical section than the one
\* that found no route: meanwhile only Dial makes routes, for CIDs of its own.
LEMMA RegisterKeeps ==
    ASSUME MuxInv, RouteInv, Register
    PROVE  RouteInv'
<1>1. PICK p, c : p = Head(reader.packets) /\ c = Len(conns) + 1
  OBVIOUS
<1>2. p.cid \in Cids /\ ~Routed(p.cid)
  BY <1>1 DEF Register, MuxInv, ReaderOK, RouteInv, Cids
<1>3. reader \in Reader
  BY DEF MuxInv
<1>4. reader'.at = "enqueue"
  BY <1>3 DEF Register, Reader
<1>5. /\ conns' = Append(conns, NewConnection(p.cid)) /\ routes' = Route(p.cid, c)
      /\ UNCHANGED <<closing, toClose>>
  BY <1>1 DEF Register, muxVars
<1> QED BY <1>1, <1>2, <1>4, <1>5, MadeKeeps

\* Dial draws a CID no connection has had.
LEMMA DialKeeps ==
    ASSUME MuxInv, RouteInv, NEW cid \in OwnCids, Dial(cid)
    PROVE  RouteInv'
<1>1. PICK c : c = Len(conns) + 1
  OBVIOUS
<1>2. /\ cid \in Cids /\ conns' = Append(conns, NewConnection(cid)) /\ routes' = Route(cid, c)
      /\ UNCHANGED <<closing, toClose, reader>>
  BY <1>1 DEF Dial, Cids, muxVars
<1>3. ~Routed(cid)
  BY DEF Dial, Routed, RouteInv, MuxInv
<1>4. reader'.at = "create" => Head(reader'.packets).cid \notin DOMAIN routes'
  <2>1. PICK k : k = Head(reader.packets).cid
    OBVIOUS
  <2>2. reader.at = "create" => k \in PeerCids /\ k \notin DOMAIN routes
    BY <2>1 DEF MuxInv, ReaderOK, RouteInv, Routed
  <2>3. DOMAIN routes' = DOMAIN routes \cup {cid}
    BY <1>2 DEF Route
  <2>4. reader.at = "create" => k \notin DOMAIN routes'
    BY <2>2, <2>3, MultiplexerAssumption
  <2> QED BY <1>2, <2>1, <2>4
<1> QED BY <1>1, <1>2, <1>3, <1>4, MadeKeeps

\* onClose makes no connection.
LEMMA OnCloseLength ==
    ASSUME conns \in Seq(Connection), DOMAIN conns' = Conns, conns' \in Seq(Connection)
    PROVE  Conns' = Conns
<1>1. Len(conns) \in Nat /\ DOMAIN conns' = 1..Len(conns)
  BY DEF Conns
<1>2. Len(conns') = Len(conns)
  BY <1>1
<1> QED BY <1>2 DEF Conns

\* onClose may remove the route of a later connection: of one it notes.
LEMMA OnCloseKeeps ==
    ASSUME MuxInv, RouteInv, NEW c \in Conns, OnClose(c)
    PROVE  RouteInv'
<1>1. conns \in Seq(Connection) /\ Conns = 1..Len(conns) /\ Len(conns) \in Nat
      /\ \A d \in Conns : conns[d] \in Connection
  BY DEF MuxInv, Conns
<1>2. PICK cid : cid = conns[c].cid
  OBVIOUS
<1>3. conns' = [d \in Conns |->
            [conns[d] EXCEPT
                !.state = IF d = c THEN "done" ELSE @, !.by = IF d = c THEN "none" ELSE @,
                !.orphaned = @ \/ (d # c /\ Routed(cid) /\ routes[cid] = d)]]
  BY <1>2, Zenon DEF OnClose
<1>4. \A d \in Conns :
        /\ conns'[d].cid = conns[d].cid /\ conns'[d].late = conns[d].late
        /\ conns'[d].orphaned = (conns[d].orphaned \/ (d # c /\ Routed(cid) /\ routes[cid] = d))
        /\ conns'[d].state = IF d = c THEN "done" ELSE conns[d].state
  <2> SUFFICES ASSUME NEW d \in Conns
               PROVE  /\ conns'[d].cid = conns[d].cid /\ conns'[d].late = conns[d].late
                      /\ conns'[d].orphaned =
                            (conns[d].orphaned \/ (d # c /\ Routed(cid) /\ routes[cid] = d))
                      /\ conns'[d].state = IF d = c THEN "done" ELSE conns[d].state
    OBVIOUS
  <2>1. PICK s, b, o : /\ s = IF d = c THEN "done" ELSE conns[d].state
                       /\ b = IF d = c THEN "none" ELSE conns[d].by
                       /\ o = (conns[d].orphaned \/ (d # c /\ Routed(cid) /\ routes[cid] = d))
    OBVIOUS
  <2>2. conns'[d] = [conns[d] EXCEPT !.state = s, !.by = b, !.orphaned = o]
    BY <1>3, <2>1, Zenon
  <2>3. /\ conns'[d].cid = conns[d].cid /\ conns'[d].late = conns[d].late
        /\ conns'[d].orphaned = o /\ conns'[d].state = s
    BY <1>1, <2>2 DEF Connection
  <2> QED BY <2>1, <2>3, Zenon
<1>5. Conns' = Conns
  <2>1. conns' \in Seq(Connection)
    BY OnCloseStep DEF MuxInv
  <2>2. DOMAIN conns' = Conns
    BY <1>3, Zenon
  <2> QED BY <1>1, <2>1, <2>2, OnCloseLength
<1>6. /\ DOMAIN routes' = DOMAIN routes \ {cid}
      /\ \A k \in DOMAIN routes' : routes'[k] = routes[k] /\ routes[k] \in Conns
  BY <1>2, Zenon DEF OnClose, removeConnection, Without, MuxInv
<1>7. UNCHANGED <<closing, toClose, reader>>
  BY Zenon DEF OnClose, muxVars
<1>8. \A k \in DOMAIN routes' : conns'[routes'[k]].cid = k
  BY <1>4, <1>6 DEF RouteInv
<1>9. \A d \in Conns' : conns'[d].cid \in DOMAIN routes' => d <= routes'[conns'[d].cid]
  BY <1>4, <1>5, <1>6 DEF RouteInv, Routed
<1>10. \A d \in Conns : Over(conns[d]) => Over(conns'[d])
  BY <1>4 DEF Over
<1>11. \A d \in Conns : HasRoute(d) => Over(conns'[d]) \/ HasRoute(d)'
  <2> SUFFICES ASSUME NEW d \in Conns, HasRoute(d)
               PROVE  Over(conns'[d]) \/ HasRoute(d)'
    OBVIOUS
  <2>1. \A e \in 1..d - 1 : e \in Conns
    BY <1>1
  <2>2. CASE conns[d].orphaned /\ \E e \in 1..d - 1 : conns[e].cid = conns[d].cid
    <3>1. conns'[d].orphaned
      BY <1>4, <2>2, Zenon
    <3>2. \E e \in 1..d - 1 : conns'[e].cid = conns'[d].cid
      BY <1>4, <2>1, <2>2
    <3> QED BY <3>1, <3>2, Zenon DEF HasRoute
  <2>3. CASE Routed(conns[d].cid) /\ routes[conns[d].cid] = d /\ conns[d].cid # cid
    BY <1>4, <1>6, <2>3 DEF HasRoute, Routed
  <2>4. CASE Routed(conns[d].cid) /\ routes[conns[d].cid] = d /\ conns[d].cid = cid /\ d # c
    <3>1. conns'[d].orphaned
      BY <1>4, <2>4, Zenon
    <3>2. c \in 1..d - 1
      <4>1. c <= d
        BY <1>2, <2>4 DEF RouteInv
      <4> QED BY <1>1, <2>4, <4>1
    <3>3. conns'[c].cid = conns'[d].cid
      BY <1>2, <1>4, <2>4
    <3> QED BY <3>1, <3>2, <3>3, Zenon DEF HasRoute
  <2>5. CASE d = c
    BY <1>4, <2>5 DEF Over
  <2> QED BY <2>2, <2>3, <2>4, <2>5 DEF HasRoute
<1>12. closing' \in {"open", "closed"} => \A d \in Conns' : Over(conns'[d]) \/ HasRoute(d)'
  BY <1>5, <1>7, <1>10, <1>11 DEF RouteInv
<1>13. closing' \notin {"open", "closed"} =>
        \A d \in Conns' : Over(conns'[d]) \/ conns'[d].late \/ conns'[d].orphaned \/ d \in toClose'
  <2>1. \A d \in Conns : /\ conns[d].late => conns'[d].late
                         /\ conns[d].orphaned => conns'[d].orphaned
    BY <1>4, Zenon
  <2> QED BY <1>5, <1>7, <1>10, <2>1 DEF RouteInv
<1>14. SocketClosed' => toClose' = {}
  BY <1>7 DEF RouteInv, SocketClosed
<1>15. (reader.at = "create" => ~Routed(Head(reader.packets).cid))'
  BY <1>6, <1>7 DEF RouteInv, Routed
<1> QED BY <1>8, <1>9, <1>12, <1>13, <1>14, <1>15 DEF RouteInv, Routed

\* idleTimeoutLoop removes routes of closed connections only.
LEMMA SweepKeeps ==
    ASSUME MuxInv, RouteInv, idleTimeoutLoop
    PROVE  RouteInv'
<1>1. UNCHANGED <<conns, closing, toClose, reader>> /\ Conns' = Conns
  BY DEF idleTimeoutLoop, Conns
<1>2. /\ DOMAIN routes' \subseteq DOMAIN routes
      /\ \A k \in DOMAIN routes' : routes'[k] = routes[k]
      /\ \A k \in DOMAIN routes : k \notin DOMAIN routes' => Over(conns[routes[k]])
  <2>1. CASE routes' = Without(routes, Swept)
    BY <2>1 DEF Without, Swept, Over
  <2>2. CASE routes' = routes
    BY <2>2
  <2> QED BY <2>1, <2>2, Zenon DEF idleTimeoutLoop
<1>3. \A c \in Conns : HasRoute(c) => Over(conns[c]) \/ HasRoute(c)'
  BY <1>1, <1>2 DEF HasRoute, Routed
<1>4. closing' \in {"open", "closed"} => \A c \in Conns' : Over(conns'[c]) \/ HasRoute(c)'
  BY <1>1, <1>3 DEF RouteInv
<1>5. \A cid \in DOMAIN routes' : conns'[routes'[cid]].cid = cid
  BY <1>1, <1>2 DEF RouteInv
<1>6. \A c \in Conns' : conns'[c].cid \in DOMAIN routes' => c <= routes'[conns'[c].cid]
  BY <1>1, <1>2 DEF RouteInv, Routed
<1>7. (reader.at = "create" => ~Routed(Head(reader.packets).cid))'
  BY <1>1, <1>2 DEF RouteInv, Routed
<1>8. /\ SocketClosed' => toClose' = {}
      /\ closing' \notin {"open", "closed"} =>
            \A c \in Conns' :
                Over(conns'[c]) \/ conns'[c].late \/ conns'[c].orphaned \/ c \in toClose'
  BY <1>1 DEF RouteInv, SocketClosed
<1> QED BY <1>4, <1>5, <1>6, <1>7, <1>8 DEF RouteInv, Routed

\* Close collects all that have routes, and they are all that are not closed.
LEMMA CollectKeeps ==
    ASSUME MuxInv, RouteInv, CollectAndClear
    PROVE  RouteInv'
<1>1. UNCHANGED <<conns, reader>> /\ Conns' = Conns /\ DOMAIN routes' = {}
  BY DEF CollectAndClear, Conns, Without
<1>2. toClose' = Range(routes) /\ closing = "closed" /\ closing' = "collected"
  BY DEF CollectAndClear, Collected
<1>3. \A c \in Conns : HasRoute(c) => conns[c].orphaned \/ c \in Range(routes)
  BY DEF HasRoute, Routed, Range
<1>4. \A c \in Conns' : Over(conns'[c]) \/ conns'[c].late \/ conns'[c].orphaned \/ c \in toClose'
  BY <1>1, <1>2, <1>3 DEF RouteInv
<1>5. /\ \A cid \in DOMAIN routes' : conns'[routes'[cid]].cid = cid
      /\ \A c \in Conns' : Routed(conns[c].cid)' => c <= routes'[conns'[c].cid]
      /\ (reader.at = "create" => ~Routed(Head(reader.packets).cid))'
  BY <1>1 DEF Routed
<1>6. closing' \notin {"open", "closed"} /\ ~SocketClosed'
  BY <1>2 DEF SocketClosed
<1> QED BY <1>4, <1>5, <1>6 DEF RouteInv

\* The rest of Close, and Accept.
LEMMA CloseKeeps ==
    ASSUME MuxInv, RouteInv,
           \/ Accept \/ Close \/ CloseSocket \/ CloseReturns \/ UNCHANGED vars
           \/ \E c \in toClose : CollectedDone(c)
    PROVE  RouteInv'
<1>1. UNCHANGED <<conns, routes, reader>> /\ Conns' = Conns
  BY DEF Accept, Close, CloseSocket, CloseReturns, CollectedDone, vars, Conns
<1>2. closing' \in {"open", "closed"} <=> closing \in {"open", "closed"}
  BY DEF Accept, Close, CloseSocket, CloseReturns, CollectedDone, vars, muxVars
<1>3. \A c \in toClose : c \in toClose' \/ Over(conns[c])
  BY DEF Accept, Close, CloseSocket, CloseReturns, CollectedDone, Awaited, Over, vars, muxVars
<1>4. SocketClosed' => toClose' = {}
  BY DEF Accept, Close, CloseSocket, CloseReturns, CollectedDone, vars, muxVars, SocketClosed,
         RouteInv
<1>5. \A c : HasRoute(c)' <=> HasRoute(c)
  BY <1>1 DEF HasRoute, Routed
<1>6. /\ closing' \in {"open", "closed"} => \A c \in Conns' : Over(conns'[c]) \/ HasRoute(c)'
      /\ closing' \notin {"open", "closed"} =>
            \A c \in Conns' :
                Over(conns'[c]) \/ conns'[c].late \/ conns'[c].orphaned \/ c \in toClose'
  BY <1>1, <1>2, <1>3, <1>5, Zenon DEF RouteInv
<1> QED BY <1>1, <1>4, <1>6 DEF RouteInv, Routed

\* Every step of every goroutine keeps the routes in order.
LEMMA RouteStep ==
    ASSUME MuxInv, RouteInv, toClose \subseteq Conns, [Next]_vars
    PROVE  RouteInv'
<1>1. CASE \/ ReadTop \/ readMessages \/ ReadFails \/ Notify \/ BufferEarly
           \/ \E p \in Packet : Lookup(p)
  BY <1>1, ReaderKeeps
<1>2. CASE Register
  BY <1>2, RegisterKeeps
<1>3. CASE enqueue
  BY <1>3, EnqueueKeeps
<1>4. CASE \E c \in Conns : HandlePacket(c) \/ CloseChannel(c)
  BY <1>4, ConnectionKeeps
<1>5. CASE \E c \in Conns : onIdleCheck(c) \/ CloseConnection(c)
  BY <1>5, BeginCloseKeeps DEF onIdleCheck, idleExpired, CloseConnection, muxVars
<1>6. CASE \E c \in Conns : OnClose(c)
  BY <1>6, OnCloseKeeps
<1>7. CASE \E cid \in OwnCids : Dial(cid)
  BY <1>7, DialKeeps
<1>8. CASE idleTimeoutLoop
  BY <1>8, SweepKeeps
<1>9. CASE CollectAndClear
  BY <1>9, CollectKeeps
<1>10. CASE \E c \in toClose : CloseCollected(c)
  BY <1>10, BeginCloseKeeps DEF CloseCollected, muxVars
<1>11. CASE \/ Accept \/ Close \/ CloseSocket \/ CloseReturns \/ UNCHANGED vars
            \/ \E c \in toClose : CollectedDone(c)
  BY <1>11, CloseKeeps
<1> QED
  BY <1>1, <1>2, <1>3, <1>4, <1>5, <1>6, <1>7, <1>8, <1>9, <1>10, <1>11 DEF Next, Reading, Tidying

\* All of it, from the start and at every step.
LEMMA RoutesInductive == Spec => [](MuxInv /\ RouteInv /\ toClose \subseteq Conns)
<1>1. Init => MuxInv /\ RouteInv /\ toClose \subseteq Conns
  <2> SUFFICES ASSUME Init
               PROVE  MuxInv /\ RouteInv /\ toClose \subseteq Conns
    OBVIOUS
  <2>1. MuxInv
    BY MuxInitially
  <2>2. Conns = {} /\ DOMAIN routes = {} /\ toClose = {} /\ closing = "open" /\ reader.at = "top"
    BY DEF Init, Conns, At
  <2> QED BY <2>1, <2>2 DEF RouteInv, SocketClosed
<1>2. /\ MuxInv /\ RouteInv /\ toClose \subseteq Conns
      /\ [Next]_vars
      => (MuxInv /\ RouteInv /\ toClose \subseteq Conns)'
  BY MuxStep, CollectedStep, RouteStep
<1> QED BY <1>1, <1>2, PTL DEF Spec

\* Until Close has collected them, the packets of an open connection are routed
\* to it, whatever Dial, handleDatagram, removeConnection and idleTimeoutLoop do
\* in between; the connections that lose their route are those an earlier one's
\* onClose takes it from.
THEOREM OpenStaysRouted == Spec => []OpenIsRouted
<1>1. MuxInv /\ RouteInv /\ toClose \subseteq Conns => OpenIsRouted
  BY DEF RouteInv, OpenIsRouted, HasRoute, Over
<1> QED BY <1>1, RoutesInductive, PTL

\* When Multiplexer.Close has closed the socket every connection is closed,
\* except those made after it had collected the map and those whose route an
\* earlier connection's onClose had removed.
THEOREM CloseReachesAll == Spec => []CloseIsThorough
<1>1. MuxInv /\ RouteInv /\ toClose \subseteq Conns => CloseIsThorough
  BY DEF RouteInv, CloseIsThorough, SocketClosed, Over
<1> QED BY <1>1, RoutesInductive, PTL

-----------------------------------------------------------------------------
\* Every queue is within its capacity, and what the queues and maps refer to
\* exists.
RoomInv ==
    /\ \A c \in Conns : Len(conns[c].inbound) <= InboundQueue
    /\ DOMAIN routes \subseteq Cids
    /\ IsFiniteSet(DOMAIN early) /\ Cardinality(DOMAIN early) <= EarlyCids
    /\ \A cid \in DOMAIN early : Len(early[cid]) \in 1..EarlyPerCid
    /\ incoming \in Seq(Conns) /\ Len(incoming) <= AcceptQueue
    /\ closing \in {"open", "closed", "collected", "socketClosed", "returned"}

\* A step of one connection that lets its queue grow only below its capacity.
LEMMA QueueOfOne ==
    ASSUME conns \in Seq(Connection), NEW c \in Conns, NEW r, r.inbound \in Seq(Kinds),
           conns' = [conns EXCEPT ![c] = r],
           \A d \in Conns : Len(conns[d].inbound) <= InboundQueue,
           Len(r.inbound) <= InboundQueue
    PROVE  \A d \in Conns' : Len(conns'[d].inbound) <= InboundQueue
<1>1. Conns = 1..Len(conns) /\ Len(conns) \in Nat
  BY DEF Conns
<1>2. Len(conns') = Len(conns)
  BY <1>1
<1>3. Conns' = Conns
  BY <1>2 DEF Conns
<1>4. conns'[c] = r /\ \A d \in Conns : d # c => conns'[d] = conns[d]
  BY <1>1
<1> QED BY <1>3, <1>4, Zenon

\* enqueue drops what a full queue has no room for; nothing else puts packets
\* into a connection's queue.
LEMMA QueuesBounded ==
    ASSUME MuxInv, toClose \subseteq Conns, [Next]_vars,
           \A c \in Conns : Len(conns[c].inbound) <= InboundQueue
    PROVE  \A c \in Conns' : Len(conns'[c].inbound) <= InboundQueue
<1>1. conns \in Seq(Connection) /\ \A c \in Conns : conns[c] \in Connection
  BY DEF MuxInv, Conns
<1>2. \A c \in Conns : conns[c].inbound \in Seq(Kinds)
  BY <1>1 DEF Connection
<1>3. CASE conns' = conns
  BY <1>3 DEF Conns
<1>4. CASE \E cid \in Cids : conns' = Append(conns, NewConnection(cid))
  <2>1. PICK cid \in Cids : conns' = Append(conns, NewConnection(cid))
    BY <1>4
  <2>2. PICK c : c = Len(conns) + 1
    OBVIOUS
  <2>3. Conns' = Conns \cup {c} /\ \A d \in Conns : conns'[d] = conns[d]
    BY <1>1, <2>1, <2>2, NewOne, Zenon
  <2>4. conns'[c].inbound = <<>>
    BY <1>1, <2>1, <2>2, NewOne
  <2>5. Len(conns'[c].inbound) <= InboundQueue
    BY <2>4, MultiplexerAssumption
  <2> QED BY <2>3, <2>5, Zenon
<1>5. ASSUME NEW c \in Conns, NEW who, conns' = BeginClose(c, who)
      PROVE  \A d \in Conns' : Len(conns'[d].inbound) <= InboundQueue
  <2>1. PICK r : r = [conns[c] EXCEPT !.state = "closing", !.by = who]
    OBVIOUS
  <2>2. r.inbound = conns[c].inbound
    BY <1>1, <2>1 DEF Connection
  <2>3. conns' = [conns EXCEPT ![c] = r]
    BY <1>1, <1>5, <2>1, Zenon DEF BeginClose, Conns
  <2>4. r.inbound \in Seq(Kinds) /\ Len(r.inbound) <= InboundQueue
    BY <1>2, <2>2, Zenon
  <2> QED BY <1>1, <2>3, <2>4, QueueOfOne, Zenon
<1>6. ASSUME NEW c \in Conns, HandlePacket(c)
      PROVE  \A d \in Conns' : Len(conns'[d].inbound) <= InboundQueue
  <2>1. PICK k, z, i, f, s, b :
            /\ k = Head(conns[c].inbound) /\ z = (k = "close" /\ conns[c].state = "open")
            /\ i = Tail(conns[c].inbound)
            /\ f = IF conns[c].first = "none" /\ conns[c].cid \in PeerCids
                   THEN k ELSE conns[c].first
            /\ s = IF z THEN "closing" ELSE conns[c].state
            /\ b = IF z THEN "inboundLoop" ELSE conns[c].by
    BY Zenon
  <2>2. PICK r : r = [conns[c] EXCEPT !.inbound = i, !.first = f, !.state = s, !.by = b]
    OBVIOUS
  <2>3. conns' = [conns EXCEPT ![c] = r]
    BY <1>1, <1>6, <2>1, <2>2, Zenon DEF HandlePacket, Conns
  <2>4. r.inbound = i
    BY <1>1, <2>2 DEF Connection
  <2>5. conns[c].inbound \in Seq(Kinds) /\ conns[c].inbound # <<>>
    BY <1>2, <1>6 DEF HandlePacket
  <2>6. i \in Seq(Kinds) /\ Len(i) + 1 = Len(conns[c].inbound)
    BY <2>1, <2>5
  <2>7. Len(i) <= InboundQueue
    BY <2>6, MultiplexerAssumption
  <2> QED BY <1>1, <2>3, <2>4, <2>6, <2>7, QueueOfOne, Zenon
<1>7. ASSUME NEW c \in Conns, CloseChannel(c)
      PROVE  \A d \in Conns' : Len(conns'[d].inbound) <= InboundQueue
  <2>1. PICK r : r = [conns[c] EXCEPT !.state = "closed", !.inbound = <<>>]
    OBVIOUS
  <2>2. conns' = [conns EXCEPT ![c] = r]
    BY <1>1, <1>7, <2>1, Zenon DEF CloseChannel, Conns
  <2>3. r.inbound = <<>>
    BY <1>1, <2>1 DEF Connection
  <2>4. r.inbound \in Seq(Kinds) /\ Len(r.inbound) <= InboundQueue
    BY <2>3, MultiplexerAssumption
  <2> QED BY <1>1, <2>2, <2>4, QueueOfOne, Zenon
<1>8. ASSUME NEW c \in Conns, OnClose(c)
      PROVE  \A d \in Conns' : Len(conns'[d].inbound) <= InboundQueue
  <2>1. PICK cid : cid = conns[c].cid
    OBVIOUS
  <2>2. conns' = [d \in Conns |->
            [conns[d] EXCEPT
                !.state = IF d = c THEN "done" ELSE @, !.by = IF d = c THEN "none" ELSE @,
                !.orphaned = @ \/ (d # c /\ Routed(cid) /\ routes[cid] = d)]]
    BY <1>8, <2>1, Zenon DEF OnClose
  <2>3. \A d \in Conns : conns'[d].inbound = conns[d].inbound
    <3> TAKE d \in Conns
    <3>1. PICK s, b, o : /\ s = IF d = c THEN "done" ELSE conns[d].state
                         /\ b = IF d = c THEN "none" ELSE conns[d].by
                         /\ o = (conns[d].orphaned \/ (d # c /\ Routed(cid) /\ routes[cid] = d))
      BY Zenon
    <3>2. conns'[d] = [conns[d] EXCEPT !.state = s, !.by = b, !.orphaned = o]
      BY <2>2, <3>1, Zenon
    <3> QED BY <1>1, <3>2 DEF Connection
  <2>4. conns' \in Seq(Connection) /\ DOMAIN conns' = Conns
    BY <1>8, <2>2, OnCloseStep, Zenon DEF MuxInv
  <2>5. Conns' = Conns
    BY <1>1, <2>4, OnCloseLength
  <2> QED BY <2>3, <2>5, Zenon
<1>9. CASE enqueue
  <2>1. PICK c, k : c = reader.conn /\ k = Head(reader.packets).kind
    OBVIOUS
  <2>2. c \in Conns /\ k \in Kinds
    <3>1. c \in Conns /\ reader.packets \in Seq(Packet) /\ reader.packets # <<>>
      BY <1>9, <2>1 DEF enqueue, MuxInv, ReaderOK, Reader
    <3>2. Head(reader.packets) \in Packet
      BY <3>1
    <3> QED BY <2>1, <3>1, <3>2 DEF Packet
  <2>3. CASE /\ conns' = [conns EXCEPT ![c].inbound = Append(@, k)]
             /\ Len(conns[c].inbound) < InboundQueue
    <3>1. PICK r : r = [conns[c] EXCEPT !.inbound = Append(@, k)]
      BY Zenon
    <3>2. conns' = [conns EXCEPT ![c] = r]
      BY <2>3, <3>1
    <3>3. r.inbound = Append(conns[c].inbound, k)
      BY <1>1, <2>2, <3>1 DEF Connection
    <3>4. conns[c].inbound \in Seq(Kinds)
      BY <1>2, <2>2, Zenon
    <3>5. r.inbound \in Seq(Kinds) /\ Len(r.inbound) = Len(conns[c].inbound) + 1
      BY <2>2, <3>3, <3>4
    <3>6. Len(r.inbound) <= InboundQueue
      BY <2>3, <3>4, <3>5, MultiplexerAssumption
    <3> QED BY <1>1, <2>2, <3>2, <3>5, <3>6, QueueOfOne, Zenon
  <2> QED BY <1>3, <1>9, <2>1, <2>3 DEF enqueue
<1>10. Register => \E cid \in Cids : conns' = Append(conns, NewConnection(cid))
  <2>1. Register => Head(reader.packets).cid \in Cids
    BY DEF Register, MuxInv, ReaderOK, Cids
  <2> QED BY <2>1, Zenon DEF Register
<1>11. (\E cid \in OwnCids : Dial(cid)) =>
            \E cid \in Cids : conns' = Append(conns, NewConnection(cid))
  BY Zenon DEF Dial, Cids
<1>12. \A c \in Conns : onIdleCheck(c) \/ CloseConnection(c) => conns' = BeginClose(c, "another")
  BY Zenon DEF onIdleCheck, CloseConnection
<1>13. \A c \in toClose : CloseCollected(c) => c \in Conns /\ conns' = BeginClose(c, "Close")
  BY Zenon DEF CloseCollected
<1>14. \/ conns' = conns \/ Register \/ enqueue \/ \E cid \in OwnCids : Dial(cid)
       \/ \E c \in toClose : CloseCollected(c)
       \/ \E c \in Conns : \/ HandlePacket(c) \/ onIdleCheck(c) \/ CloseConnection(c)
                           \/ CloseChannel(c) \/ OnClose(c)
  BY Zenon
  DEF Next, Reading, Tidying, ReadTop, ReadFails, BufferEarly, Notify, CollectAndClear,
      CloseSocket, CloseReturns, CollectedDone, readMessages, Lookup, Accept, idleTimeoutLoop,
      Close, vars
<1> QED BY <1>3, <1>4, <1>5, <1>6, <1>7, <1>8, <1>9, <1>10, <1>11, <1>12, <1>13, <1>14, Zenon

\* handleDatagram puts a packet aside only while there is room for its CID and
\* for the packet; making the connection frees the room.
LEMMA EarlyBounded ==
    ASSUME MuxInv, RoomInv, [Next]_vars
    PROVE  /\ IsFiniteSet(DOMAIN early') /\ Cardinality(DOMAIN early') <= EarlyCids
           /\ \A cid \in DOMAIN early' : Len(early'[cid]) \in 1..EarlyPerCid
<1>1. /\ IsFiniteSet(DOMAIN early) /\ Cardinality(DOMAIN early) <= EarlyCids
      /\ \A cid \in DOMAIN early : Len(early[cid]) \in 1..EarlyPerCid
      /\ Cardinality(DOMAIN early) \in Nat
  BY FS_CardinalityType DEF RoomInv
<1>2. CASE early' = early
  BY <1>1, <1>2
<1>3. CASE Register
  <2>1. PICK cid : early' = Without(early, {cid})
    BY <1>3, Zenon DEF Register, Grabbed
  <2>2. DOMAIN early' \subseteq DOMAIN early /\ \A k \in DOMAIN early' : early'[k] = early[k]
    BY <2>1 DEF Without
  <2>3. /\ IsFiniteSet(DOMAIN early') /\ Cardinality(DOMAIN early') <= Cardinality(DOMAIN early)
        /\ Cardinality(DOMAIN early') \in Nat
    BY <1>1, <2>2, FS_Subset, FS_CardinalityType
  <2>4. Cardinality(DOMAIN early') <= EarlyCids
    BY <1>1, <2>3, MultiplexerAssumption
  <2> QED BY <1>1, <2>2, <2>3, <2>4
<1>4. CASE BufferEarly /\ early' # early
  <2>1. PICK p : p = Head(reader.packets)
    OBVIOUS
  <2>2. PICK k : k = p.cid
    OBVIOUS
  <2>3. /\ early' = [j \in DOMAIN early \cup {k} |->
                        IF j = k THEN Append(EarlyOf(j), p) ELSE early[j]]
        /\ Cardinality(DOMAIN early) < EarlyCids /\ Len(EarlyOf(k)) < EarlyPerCid
    BY <1>4, <2>1, <2>2 DEF BufferEarly, HasRoom
  <2>4. EarlyOf(k) \in Seq(Packet) /\ p \in Packet
    <3>1. reader.packets \in Seq(Packet) /\ reader.packets # <<>>
      BY <1>4 DEF BufferEarly, MuxInv, ReaderOK, Reader
    <3>2. p \in Packet
      BY <2>1, <3>1
    <3>3. EarlyOf(k) \in Seq(Packet)
      BY DEF EarlyOf, MuxInv
    <3> QED BY <3>2, <3>3
  <2>5. Len(Append(EarlyOf(k), p)) = Len(EarlyOf(k)) + 1 /\ Len(EarlyOf(k)) \in Nat
    BY <2>4
  <2>6. Len(Append(EarlyOf(k), p)) \in 1..EarlyPerCid
    BY <2>3, <2>5, MultiplexerAssumption
  <2>7. DOMAIN early' = DOMAIN early \cup {k} /\ early'[k] = Append(EarlyOf(k), p)
        /\ \A j \in DOMAIN early : j # k => early'[j] = early[j]
    BY <2>3
  <2>8. \A j \in DOMAIN early' : Len(early'[j]) \in 1..EarlyPerCid
    BY <1>1, <2>6, <2>7, Zenon
  <2>9. /\ IsFiniteSet(DOMAIN early \cup {k})
        /\ Cardinality(DOMAIN early \cup {k}) =
             IF k \in DOMAIN early THEN Cardinality(DOMAIN early) ELSE Cardinality(DOMAIN early) + 1
    BY <1>1, FS_AddElement
  <2>10. Cardinality(DOMAIN early \cup {k}) <= EarlyCids
    BY <1>1, <2>3, <2>9, MultiplexerAssumption
  <2> QED BY <2>7, <2>8, <2>9, <2>10
<1>5. early' = early \/ Register \/ BufferEarly
  BY Zenon
  DEF Next, Reading, Tidying, ReadTop, ReadFails, enqueue, Notify, CollectAndClear, CloseSocket,
      CloseReturns, CloseCollected, CollectedDone, readMessages, Lookup, HandlePacket,
      onIdleCheck, CloseConnection, CloseChannel, OnClose, Dial, Accept, idleTimeoutLoop, Close,
      vars
<1> QED BY <1>2, <1>3, <1>4, <1>5, Zenon

\* handleDatagram offers a new connection to Accept only while incoming has
\* room.
LEMMA IncomingBounded ==
    ASSUME MuxInv, RoomInv, Conns \subseteq Conns', [Next]_vars
    PROVE  incoming' \in Seq(Conns') /\ Len(incoming') <= AcceptQueue
<1>1. incoming \in Seq(Conns) /\ Len(incoming) <= AcceptQueue /\ Len(incoming) \in Nat
  BY DEF RoomInv
<1>2. PICK C : C = Conns'
  OBVIOUS
<1>3. incoming \in Seq(C)
  BY <1>1, <1>2
<1>4. CASE incoming' = incoming
  BY <1>1, <1>2, <1>3, <1>4, Zenon
<1>5. CASE incoming' = Append(incoming, reader.conn) /\ Len(incoming) < AcceptQueue /\ Notify
  <2>1. PICK c \in C : c = reader.conn
    BY <1>2, <1>5 DEF Notify, MuxInv, ReaderOK
  <2>2. incoming' \in Seq(C) /\ Len(incoming') = Len(incoming) + 1
    BY <1>3, <1>5, <2>1
  <2>3. Len(incoming') <= AcceptQueue
    BY <1>1, <1>5, <2>2, MultiplexerAssumption
  <2> QED BY <1>2, <2>2, <2>3, Zenon
<1>6. CASE Accept
  <2>1. incoming # <<>> /\ incoming' = Tail(incoming)
    BY <1>6 DEF Accept
  <2>2. incoming' \in Seq(C) /\ Len(incoming') + 1 = Len(incoming)
    BY <1>3, <2>1
  <2>3. Len(incoming') <= AcceptQueue
    BY <1>1, <2>2, MultiplexerAssumption
  <2> QED BY <1>2, <2>2, <2>3, Zenon
<1>7. incoming' = incoming \/ Notify \/ Accept
  BY Zenon
  DEF Next, Reading, Tidying, ReadTop, ReadFails, BufferEarly, Register, enqueue,
      CollectAndClear, CloseSocket, CloseReturns, CloseCollected, CollectedDone, readMessages,
      Lookup, HandlePacket, onIdleCheck, CloseConnection, CloseChannel, OnClose, Dial,
      idleTimeoutLoop, Close, vars
<1>8. Notify => \/ incoming' = incoming
                \/ incoming' = Append(incoming, reader.conn) /\ Len(incoming) < AcceptQueue
  BY DEF Notify
<1> QED BY <1>4, <1>5, <1>6, <1>7, <1>8, Zenon

\* Every step keeps the queues within their capacities.
LEMMA RoomStep ==
    ASSUME MuxInv, RoomInv, toClose \subseteq Conns, [Next]_vars
    PROVE  RoomInv'
<1>1. \A c \in Conns' : Len(conns'[c].inbound) <= InboundQueue
  BY QueuesBounded DEF RoomInv
<1>2. /\ IsFiniteSet(DOMAIN early') /\ Cardinality(DOMAIN early') <= EarlyCids
      /\ \A cid \in DOMAIN early' : Len(early'[cid]) \in 1..EarlyPerCid
  BY EarlyBounded
<1>3. incoming' \in Seq(Conns') /\ Len(incoming') <= AcceptQueue
  <2>1. MuxInv'
    BY MuxStep
  <2>2. Conns \subseteq Conns'
    BY <2>1, ConnectionsStay
  <2> QED BY <2>2, IncomingBounded
<1>4. DOMAIN routes' \subseteq Cids
  <2>1. DOMAIN routes \subseteq Cids
    BY DEF RoomInv
  <2>2. CASE DOMAIN routes' \subseteq DOMAIN routes
    BY <2>1, <2>2
  <2>3. CASE Register
    <3>1. PICK cid : cid = Head(reader.packets).cid
      OBVIOUS
    <3>2. cid \in Cids /\ DOMAIN routes' = DOMAIN routes \cup {cid}
      BY <2>3, <3>1 DEF Register, Route, MuxInv, ReaderOK, Cids
    <3> QED BY <2>1, <3>2
  <2>4. ASSUME NEW cid \in OwnCids, Dial(cid)
        PROVE  DOMAIN routes' \subseteq Cids
    <3>1. cid \in Cids /\ DOMAIN routes' = DOMAIN routes \cup {cid}
      BY <2>4 DEF Dial, Route, Cids
    <3> QED BY <2>1, <3>1
  <2>5. \/ routes' = routes \/ (\E S : routes' = Without(routes, S))
        \/ Register \/ \E cid \in OwnCids : Dial(cid)
    BY Zenon
    DEF Next, Reading, Tidying, ReadTop, ReadFails, BufferEarly, enqueue, Notify,
        CollectAndClear, CloseSocket, CloseReturns, CloseCollected, CollectedDone, readMessages,
        Lookup, HandlePacket, onIdleCheck, CloseConnection, CloseChannel, OnClose,
        removeConnection, Accept, idleTimeoutLoop, Close, vars
  <2>6. (\E S : routes' = Without(routes, S)) => DOMAIN routes' \subseteq DOMAIN routes
    BY DEF Without
  <2> QED BY <2>2, <2>3, <2>4, <2>5, <2>6
<1>5. closing' \in {"open", "closed", "collected", "socketClosed", "returned"}
  <2>1. closing' \in {closing, "closed", "collected", "socketClosed", "returned"}
    BY Zenon
    DEF Next, Reading, Tidying, ReadTop, ReadFails, BufferEarly, Register, enqueue, Notify,
        CollectAndClear, CloseSocket, CloseReturns, CloseCollected, CollectedDone, readMessages,
        Lookup, HandlePacket, onIdleCheck, CloseConnection, CloseChannel, OnClose, Dial, Accept,
        idleTimeoutLoop, Close, vars, muxVars
  <2> QED BY <2>1, Zenon DEF RoomInv
<1> QED BY <1>1, <1>2, <1>3, <1>4, <1>5, Zenon DEF RoomInv

\* No queue of the endpoint outgrows its capacity, nor earlyPackets its two
\* limits, and what the maps and queues refer to are connections there are.
THEOREM QueuesWithinLimits == Spec => []TypeOK
<1>1. Init => MuxInv /\ RoomInv /\ toClose \subseteq Conns
  <2> SUFFICES ASSUME Init
               PROVE  MuxInv /\ RoomInv /\ toClose \subseteq Conns
    OBVIOUS
  <2>1. MuxInv
    BY MuxInitially
  <2>2. /\ Conns = {} /\ DOMAIN routes = {} /\ toClose = {} /\ closing = "open"
        /\ DOMAIN early = {} /\ incoming = <<>>
    BY DEF Init, Conns
  <2>3. IsFiniteSet(DOMAIN early) /\ Cardinality(DOMAIN early) <= EarlyCids
    BY <2>2, FS_EmptySet, MultiplexerAssumption
  <2>4. incoming \in Seq(Conns) /\ Len(incoming) <= AcceptQueue
    BY <2>2, MultiplexerAssumption
  <2> QED BY <2>1, <2>2, <2>3, <2>4 DEF RoomInv
<1>2. /\ MuxInv /\ RoomInv /\ toClose \subseteq Conns
      /\ [Next]_vars
      => (MuxInv /\ RoomInv /\ toClose \subseteq Conns)'
  BY MuxStep, CollectedStep, RoomStep
<1>3. MuxInv /\ RoomInv /\ toClose \subseteq Conns => TypeOK
  <2> SUFFICES ASSUME MuxInv, RoomInv, toClose \subseteq Conns
               PROVE  TypeOK
    OBVIOUS
  <2>1. \A c \in Conns : conns[c] \in Connection
    BY DEF MuxInv, Conns
  <2>2. \A c \in Conns :
          conns[c].cid \in Cids /\ conns[c].state \in {"open", "closing", "closed", "done"}
    BY <2>1 DEF Connection, States
  <2>3. reader.at \in {"top", "read", "batch", "enqueue", "create", "buffer", "stopped"}
    BY DEF MuxInv, Reader, Places
  <2>4. Range(routes) \subseteq Conns
    BY DEF MuxInv, Range
  <2>5. Range(incoming) \subseteq Conns
    BY DEF RoomInv, Range
  <2> QED BY <2>2, <2>3, <2>4, <2>5, Zenon DEF RoomInv, TypeOK
<1> QED BY <1>1, <1>2, <1>3, PTL DEF Spec

=============================================================================
