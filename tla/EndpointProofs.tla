--------------------------- MODULE EndpointProofs ---------------------------
(***************************************************************************)
(* What an endpoint does with what its peer tells it.  Frames reach the    *)
(* stream they belong to, for any number of streams that either end opens  *)
(* and however frames are reordered, repeated or lost.  Stream flow control,*)
(* for every window, modulus, chunk size and set of goroutines that the    *)
(* assumptions of FlowControl admit; acknowledgements, for every history   *)
(* length, threshold, number of timers and of sequences; the search for the*)
(* path's datagram size, for any sizes, any number of probes and losses and*)
(* however the path changes; and migration, for any addresses, any number of*)
(* moves and calls, and whatever is lost, delayed or duplicated.           *)
(***************************************************************************)
EXTENDS FlowControl, AckTracker, Path, PathMigration, StreamLife, TLAPS

-----------------------------------------------------------------------------
(***************************************************************************)
(* Streams and the frames that name them.                                  *)
(***************************************************************************)

\* What a step may not change of a stream.
Alike(r, s) == DOMAIN r = DOMAIN s /\ r.remote = s.remote /\ r.org = s.org

Named(s) == "remote" \in DOMAIN s /\ "org" \in DOMAIN s

\* An end opened the stream itself and knows no other ID for it, ...
Local(e, id) == streams[e][id].org = <<e, id>> /\ streams[e][id].remote = 0

\* ... or its peer did, and the stream has the peer's ID for it.
Remote(e, id) ==
    LET r == streams[e][id].remote
    IN /\ r \in Ids(Peer(e)) /\ streams[Peer(e)][r].org = <<Peer(e), r>>
       /\ streams[e][id].org = <<Peer(e), r>>

\* A frame names the stream that sent it, and the ID it knows for the other end.
Addressed(f) ==
    f.kind # "close" =>
        /\ f.kind \in {"data", "fin", "reset"} /\ f.to \in Ends
        /\ f.src \in Ids(Peer(f.to))
        /\ f.org = streams[Peer(f.to)][f.src].org /\ f.dst = streams[Peer(f.to)][f.src].remote

Found(e, d) ==
    /\ d.id \in Ids(e) /\ streams[e][d.id].org = d.frame.org
    /\ d.frame.kind \in {"data", "fin", "reset"}

\* The names a new stream n of end e may have.
Fresh(e, n, r) ==
    \/ r.org = <<e, n>> /\ r.remote = 0
    \/ /\ r.remote \in Ids(Peer(e)) /\ streams[Peer(e)][r.remote].org = <<Peer(e), r.remote>>
       /\ r.org = <<Peer(e), r.remote>>
       /\ \A i \in Ids(e) : streams[e][i].remote # r.remote

\* What is new with the inbound goroutine is for the new stream.
ForNew(e, n, r) ==
    \A d \in Ends : \A x \in inbound'[d] :
        \/ x \in inbound[d]
        \/ d = e /\ x.id = n /\ r.org = x.frame.org /\ x.frame.kind \in {"data", "fin", "reset"}

IdInv ==
    /\ DOMAIN streams = Ends /\ DOMAIN inbound = Ends /\ nextStreamID \in [Ends -> Nat \ {0}]
    /\ \A e \in Ends : Ids(e) \subseteq 1..nextStreamID[e] - 1
    /\ \A e \in Ends : \A id \in Ids(e) : Named(streams[e][id]) /\ (Local(e, id) \/ Remote(e, id))
    /\ \A e \in Ends : \A i, j \in Ids(e) :
        streams[e][i].remote = streams[e][j].remote /\ streams[e][i].remote # 0 => i = j
    /\ \A f \in net : Addressed(f)
    /\ \A e \in Ends : \A d \in inbound[e] : Found(e, d)

\* The other end of the other end is this one.
LEMMA Opposite == \A e \in Ends : Peer(e) \in Ends /\ Peer(e) # e /\ Peer(Peer(e)) = e
  BY DEF Ends, Peer

\* A new connection has no streams.
LEMMA IdInitially == LifeInit => IdInv
<1> SUFFICES ASSUME LifeInit
             PROVE  IdInv
  OBVIOUS
<1>1. \A e \in Ends : Ids(e) = {} /\ inbound[e] = {}
  BY DEF LifeInit, Ids, NoStreams
<1>2. DOMAIN streams = Ends /\ DOMAIN inbound = Ends
  BY DEF LifeInit
<1>3. nextStreamID \in [Ends -> Nat \ {0}]
  BY DEF LifeInit
<1> QED BY <1>1, <1>2, <1>3, Zenon DEF LifeInit, IdInv

\* The invariant speaks of the names of streams alone.
LEMMA NamesKept ==
    ASSUME IdInv, DOMAIN streams' = Ends, DOMAIN inbound' = Ends, UNCHANGED nextStreamID,
           \A e \in Ends : Ids(e)' = Ids(e),
           \A e \in Ends : \A id \in Ids(e) : Alike(streams'[e][id], streams[e][id]),
           \A f \in net' : f \in net \/ Addressed(f),
           \A e \in Ends : \A d \in inbound'[e] : d \in inbound[e] \/ Found(e, d)
    PROVE  IdInv'
<1>1. \A e \in Ends : \A id \in Ids(e) : Named(streams'[e][id])
  BY Zenon DEF IdInv, Named, Alike
<1>2. \A e \in Ends : \A id \in Ids(e) :
        streams'[e][id].org = streams[e][id].org /\ streams'[e][id].remote = streams[e][id].remote
  BY Zenon DEF Alike
<1>3. \A e \in Ends : \A id \in Ids(e) : Local(e, id)' \/ Remote(e, id)'
  <2> SUFFICES ASSUME NEW e \in Ends, NEW id \in Ids(e)
               PROVE  Local(e, id)' \/ Remote(e, id)'
    OBVIOUS
  <2>1. CASE Local(e, id)
    BY <1>2, <2>1, Zenon DEF Local
  <2>2. CASE Remote(e, id)
    <3>1. Peer(e) \in Ends
      BY Opposite, Zenon
    <3>2. /\ streams'[e][id].org = streams[e][id].org
          /\ streams'[e][id].remote = streams[e][id].remote
          /\ Ids(Peer(e))' = Ids(Peer(e))
          /\ \A i \in Ids(Peer(e)) : streams'[Peer(e)][i].org = streams[Peer(e)][i].org
      BY <1>2, <3>1, Zenon
    <3> QED BY <2>2, <3>2, Zenon DEF Remote
  <2> QED BY <2>1, <2>2, Zenon DEF IdInv
<1>4. \A f : Addressed(f) => Addressed(f)'
  BY <1>2, Opposite, Zenon DEF Addressed
<1>5. \A e \in Ends : \A d : Found(e, d) => Found(e, d)'
  BY <1>2, Zenon DEF Found
<1>6. \A f \in net' : Addressed(f)'
  BY <1>4, Zenon DEF IdInv
<1>7. \A e \in Ends : \A d \in inbound'[e] : Found(e, d)'
  BY <1>5, Zenon DEF IdInv
<1>8. \A e \in Ends : \A i, j \in Ids(e) :
        streams'[e][i].remote = streams'[e][j].remote /\ streams'[e][i].remote # 0 => i = j
  BY <1>2, Zenon DEF IdInv
<1> QED BY <1>1, <1>3, <1>6, <1>7, <1>8 DEF IdInv

\* One stream changes, and keeps its names.
LEMMA OneChanges ==
    ASSUME IdInv, NEW e \in Ends, NEW id \in Ids(e), NEW r, Alike(r, streams[e][id]), Update(e, id, r)
    PROVE  /\ DOMAIN streams' = Ends
           /\ \A d \in Ends : Ids(d)' = Ids(d)
           /\ \A d \in Ends : \A i \in Ids(d) : Alike(streams'[d][i], streams[d][i])
<1>1. streams' = [streams EXCEPT ![e] = [streams[e] EXCEPT ![id] = r]] /\ DOMAIN streams = Ends
  BY DEF Update, IdInv
<1>2. streams'[e] = [streams[e] EXCEPT ![id] = r] /\ \A d \in Ends : d # e => streams'[d] = streams[d]
  BY <1>1
<1>3. DOMAIN streams'[e] = DOMAIN streams[e] /\ streams'[e][id] = r
      /\ \A i \in Ids(e) : i # id => streams'[e][i] = streams[e][i]
  BY <1>2, Zenon DEF Ids
<1>4. \A d \in Ends : Ids(d)' = Ids(d)
  BY <1>2, <1>3, Zenon DEF Ids
<1>5. \A d \in Ends : \A i \in Ids(d) : Alike(streams'[d][i], streams[d][i])
  BY <1>2, <1>3, Zenon DEF Alike
<1> QED BY <1>1, <1>4, <1>5

\* A frame that a stream sends is addressed.
LEMMA SentAddressed ==
    ASSUME IdInv, NEW e \in Ends, NEW id \in Ids(e), NEW kind \in {"data", "fin", "reset"}, NEW off
    PROVE  Addressed(Frame(e, id, kind, off))
<1>1. PICK f : f = Frame(e, id, kind, off)
  BY Zenon
<1>2. /\ f.to = Peer(e) /\ f.dst = streams[e][id].remote /\ f.src = id /\ f.kind = kind
      /\ f.org = streams[e][id].org
  BY <1>1 DEF Frame
<1>3. Addressed(f)
  BY <1>2, Opposite, Zenon DEF Addressed
<1> QED BY <1>1, <1>3

\* What Write, Close and Reset change of a stream are not its names.
LEMMA CallsKeepNames ==
    ASSUME NEW s, Named(s), NEW a, NEW b, NEW c, NEW d
    PROVE  /\ Alike([s EXCEPT !.writer = a], s)
           /\ Alike([s EXCEPT !.state = a], s)
           /\ Alike([s EXCEPT !.writer = a, !.written = b, !.state = c, !.raced = d], s)
<1>1. Alike([s EXCEPT !.writer = a], s)
  BY DEF Named, Alike
<1>2. Alike([s EXCEPT !.state = a], s)
  BY DEF Named, Alike
<1>3. Alike([s EXCEPT !.writer = a, !.written = b, !.state = c, !.raced = d], s)
  BY DEF Named, Alike
<1> QED BY <1>1, <1>2, <1>3

\* Nor is what DeliverData, DeliverFin and DeliverReset change.
LEMMA DeliveredKeepsNames ==
    ASSUME NEW s, Named(s), NEW f, f.kind \in {"data", "fin", "reset"}
    PROVE  Alike(Delivered(s, f), s)
<1>1. ASSUME NEW t, Named(t)
      PROVE  Alike(finishLocked(t), t)
  <2>1. PICK u, v : /\ u = IF t.state = "HalfClosedLocal" THEN "Closed" ELSE "HalfClosedRemote"
                    /\ v = (t.revived \/ t.state = "Reset")
    OBVIOUS
  <2>2. Alike([t EXCEPT !.finReceived = TRUE, !.state = u, !.revived = v], t)
    BY <1>1 DEF Named, Alike
  <2>3. \/ finishLocked(t) = t
        \/ finishLocked(t) = [t EXCEPT !.finReceived = TRUE, !.state = u, !.revived = v]
    BY <2>1, Zenon DEF finishLocked
  <2>4. Alike(t, t)
    BY DEF Alike
  <2> QED BY <2>2, <2>3, <2>4
<1>2. ASSUME NEW t, Named(t), NEW r, Alike(r, t)
      PROVE  Named(r) /\ \A q : Alike(q, r) => Alike(q, t)
  BY <1>2 DEF Named, Alike
<1>3. CASE f.kind = "data"
  <2>1. PICK a : a = s.recv \cup {f.off}
    BY Zenon
  <2>2. Alike([s EXCEPT !.recv = a], s) /\ Alike(s, s)
    BY DEF Named, Alike
  <2>3. Alike(finishLocked([s EXCEPT !.recv = a]), s)
    BY <1>1, <1>2, <2>2
  <2>4. Delivered(s, f) = s \/ Delivered(s, f) = finishLocked([s EXCEPT !.recv = a])
    BY <1>3, <2>1 DEF Delivered
  <2> QED BY <2>2, <2>3, <2>4
<1>4. CASE f.kind = "fin"
  <2>1. PICK a : a = [s EXCEPT !.finSeen = TRUE, !.finalSize = f.off]
    BY Zenon
  <2>2. Alike(a, s)
    BY <2>1 DEF Named, Alike
  <2>3. Alike(finishLocked(a), s)
    BY <1>1, <1>2, <2>2
  <2> QED BY <1>4, <2>1, <2>3 DEF Delivered
<1>5. CASE f.kind = "reset"
  BY <1>5 DEF Delivered, Named, Alike
<1> QED BY <1>3, <1>4, <1>5

\* The application's calls on a stream, the writers they leave waiting, and
\* the reset of a collected stream.
LEMMA CallStep ==
    ASSUME IdInv, NEW e \in Ends, NEW id \in Ids(e), UNCHANGED <<nextStreamID, inbound>>,
           NEW r, Alike(r, streams[e][id]), Update(e, id, r),
           NEW kind \in {"data", "fin", "reset"}, NEW off,
           net' = net \/ Send(Frame(e, id, kind, off))
    PROVE  IdInv'
<1>1. /\ DOMAIN streams' = Ends
      /\ \A d \in Ends : Ids(d)' = Ids(d)
      /\ \A d \in Ends : \A i \in Ids(d) : Alike(streams'[d][i], streams[d][i])
  BY OneChanges, Zenon
<1>2. \A f \in net' : f \in net \/ Addressed(f)
  BY SentAddressed DEF Send
<1>3. DOMAIN inbound' = Ends
  BY Zenon DEF IdInv
<1> QED BY <1>1, <1>2, <1>3, NamesKept, Zenon

\* A stream that findStream returns is the one the frame was sent to.
LEMMA FindsTheStream ==
    ASSUME IdInv, NEW f \in net, f.kind # "close", NEW id \in findStream(f.to, f)
    PROVE  Found(f.to, [id |-> id, frame |-> f])
<1>1. PICK e, p : e = f.to /\ p = Peer(e)
  BY Zenon
<1>2. /\ f.kind \in {"data", "fin", "reset"} /\ e \in Ends /\ p \in Ends /\ p # e /\ Peer(p) = e
      /\ f.src \in Ids(p) /\ f.org = streams[p][f.src].org /\ f.dst = streams[p][f.src].remote
  BY <1>1, Opposite, Zenon DEF IdInv, Addressed
<1>3. \A d \in Ends : 0 \notin Ids(d)
  BY DEF IdInv
<1>4. Local(p, f.src) \/ Remote(p, f.src)
  BY <1>2, Zenon DEF IdInv
<1>5. id \in Ids(e) /\ streams[e][id].org = f.org
  <2>1. CASE f.dst \in Ids(e)
    <3>1. id = f.dst
      BY <1>1, <2>1, Zenon DEF findStream
    <3>2. Remote(p, f.src)
      BY <1>2, <1>3, <1>4, <2>1, Zenon DEF Local
    <3> QED BY <1>2, <2>1, <3>1, <3>2, Zenon DEF Remote
  <2>2. CASE f.dst \notin Ids(e)
    <3>1. id \in Ids(e) /\ f.src # 0 /\ streams[e][id].remote = f.src
      BY <1>1, <2>2, Zenon DEF findStream
    <3>2. Remote(e, id)
      BY <1>2, <3>1, Zenon DEF IdInv, Local
    <3> QED BY <1>1, <1>2, <3>1, <3>2, Zenon DEF Remote
  <2> QED BY <2>1, <2>2, Zenon
<1> QED BY <1>1, <1>2, <1>5, Zenon DEF Found

\* A stream is added under an ID that was never used.
LEMMA Added ==
    ASSUME IdInv, NEW e \in Ends, NEW r, Named(r), Add(e, r), NEW n, n = nextStreamID[e],
           Fresh(e, n, r), net' = net, DOMAIN inbound' = Ends, ForNew(e, n, r)
    PROVE  IdInv'
<1>1. /\ n \in Nat \ {0} /\ n \notin Ids(e) /\ DOMAIN streams = Ends
      /\ \A d \in Ends : nextStreamID[d] \in Nat \ {0}
  BY DEF IdInv
<1>2. nextStreamID' \in [Ends -> Nat \ {0}] /\ nextStreamID'[e] = n + 2
      /\ \A d \in Ends : d # e => nextStreamID'[d] = nextStreamID[d]
  BY <1>1 DEF Add, IdInv
<1>3. /\ DOMAIN streams' = Ends /\ \A d \in Ends : d # e => streams'[d] = streams[d]
      /\ streams'[e] = [id \in Ids(e) \cup {n} |-> IF id = n THEN r ELSE streams[e][id]]
  BY <1>1, Zenon DEF Add
<1>4. /\ Ids(e)' = Ids(e) \cup {n} /\ streams'[e][n] = r
      /\ \A d \in Ends : d # e => Ids(d)' = Ids(d)
      /\ \A d \in Ends : \A i \in Ids(d) : streams'[d][i] = streams[d][i]
  BY <1>1, <1>3, Zenon DEF Ids
<1>5. \A d \in Ends : Ids(d)' \subseteq 1..nextStreamID'[d] - 1
  <2>1. \A d \in Ends : Ids(d) \subseteq 1..nextStreamID[d] - 1
    BY Zenon DEF IdInv
  <2> QED BY <1>1, <1>2, <1>4, <2>1
<1>6. \A d \in Ends : \A id \in Ids(d)' : Named(streams'[d][id])
  BY <1>4 DEF IdInv
<1>7. \A d \in Ends : \A id \in Ids(d) : Local(d, id)' \/ Remote(d, id)'
  <2> SUFFICES ASSUME NEW d \in Ends, NEW id \in Ids(d)
               PROVE  Local(d, id)' \/ Remote(d, id)'
    OBVIOUS
  <2>1. CASE Local(d, id)
    BY <1>4, <2>1, Zenon DEF Local
  <2>2. CASE Remote(d, id)
    <3>1. Peer(d) \in Ends
      BY Opposite, Zenon
    <3>2. /\ streams'[d][id] = streams[d][id] /\ Ids(Peer(d)) \subseteq Ids(Peer(d))'
          /\ \A i \in Ids(Peer(d)) : streams'[Peer(d)][i] = streams[Peer(d)][i]
      BY <1>4, <3>1, Zenon
    <3> QED BY <2>2, <3>2, Zenon DEF Remote
  <2> QED BY <2>1, <2>2, Zenon DEF IdInv
<1>8. Local(e, n)' \/ Remote(e, n)'
  <2>0. Peer(e) \in Ends /\ Ids(Peer(e))' = Ids(Peer(e))
        /\ \A i \in Ids(Peer(e)) : streams'[Peer(e)][i] = streams[Peer(e)][i]
    BY <1>4, Opposite, Zenon
  <2>1. CASE r.org = <<e, n>> /\ r.remote = 0
    BY <1>4, <2>1, Zenon DEF Local
  <2>2. CASE /\ r.remote \in Ids(Peer(e)) /\ streams[Peer(e)][r.remote].org = <<Peer(e), r.remote>>
             /\ r.org = <<Peer(e), r.remote>>
    BY <1>4, <2>0, <2>2, Zenon DEF Remote
  <2> QED BY <2>1, <2>2, Zenon DEF Fresh
<1>9. \A d \in Ends : \A i, j \in Ids(d)' :
        streams'[d][i].remote = streams'[d][j].remote /\ streams'[d][i].remote # 0 => i = j
  <2>1. \A d \in Ends : \A i, j \in Ids(d) :
        streams[d][i].remote = streams[d][j].remote /\ streams[d][i].remote # 0 => i = j
    BY Zenon DEF IdInv
  <2>2. r.remote = 0 \/ \A i \in Ids(e) : streams[e][i].remote # r.remote
    BY Zenon DEF Fresh
  <2> QED BY <1>4, <2>1, <2>2
<1>10. \A f \in net' : Addressed(f)'
  BY <1>4, Opposite DEF IdInv, Addressed
<1>11. \A d \in Ends : \A x \in inbound'[d] : Found(d, x)'
  BY <1>4 DEF IdInv, Found, ForNew
<1>12. \A d \in Ends : \A id \in Ids(d)' : Named(streams'[d][id]) /\ (Local(d, id)' \/ Remote(d, id)')
  BY <1>4, <1>6, <1>7, <1>8
<1> QED BY <1>2, <1>3, <1>5, <1>9, <1>10, <1>11, <1>12, Zenon DEF IdInv

\* The application opens a stream.
LEMMA OpenStep ==
    ASSUME IdInv, NEW e \in Ends, OpenStream(e)
    PROVE  IdInv'
<1>1. PICK n, r : n = nextStreamID[e] /\ r = NewStream(0, "Idle", <<e, n>>, FALSE)
  BY Zenon
<1>2. Named(r) /\ r.org = <<e, n>> /\ r.remote = 0
  BY <1>1, Zenon DEF NewStream, Named
<1>3. Add(e, r) /\ net' = net /\ inbound' = inbound /\ DOMAIN inbound = Ends
  BY <1>1, Zenon DEF OpenStream, IdInv
<1>4. Fresh(e, n, r) /\ ForNew(e, n, r)
  BY <1>2, <1>3, Zenon DEF Fresh, ForNew
<1> QED BY <1>1, <1>2, <1>3, <1>4, Added, Zenon

\* A frame for a stream that is not known opens one: its sender opened it.
LEMMA IncomingStep ==
    ASSUME IdInv, NEW e \in Ends, NEW f \in net, OpenIncoming(e, f)
    PROVE  IdInv'
<1>1. PICK n, p, z : n = nextStreamID[e] /\ p = Peer(e) /\ z = (connState[e] = "closed")
  BY Zenon
<1>2. PICK r : r = NewStream(f.src, "Open", f.org, z)
  BY Zenon
<1>3. Named(r) /\ r.org = f.org /\ r.remote = f.src
  BY <1>2, Zenon DEF NewStream, Named
<1>4. f.to = e /\ f.kind = "data" /\ findStream(e, f) = {} /\ f.src # 0
  BY Zenon DEF OpenIncoming, Inbound
<1>5. /\ p \in Ends /\ Peer(p) = e
      /\ f.src \in Ids(p) /\ f.org = streams[p][f.src].org /\ f.dst = streams[p][f.src].remote
  BY <1>1, <1>4, Opposite, Zenon DEF IdInv, Addressed
<1>6. f.dst \notin Ids(e) /\ \A i \in Ids(e) : streams[e][i].remote # f.src
  BY <1>4, Zenon DEF findStream
<1>7. Local(p, f.src)
  BY <1>5, <1>6, Zenon DEF IdInv, Remote
<1>8. streams[p][f.src].org = <<p, f.src>> /\ f.org = <<p, f.src>>
  BY <1>5, <1>7, Zenon DEF Local
<1>9. Add(e, r) /\ net' = net
  BY <1>1, <1>2, Zenon DEF OpenIncoming
<1>10. inbound' = [inbound EXCEPT ![e] = {[id |-> n, frame |-> f]}] /\ DOMAIN inbound = Ends
  BY <1>1, Zenon DEF OpenIncoming, IdInv
<1>11. DOMAIN inbound' = Ends
  BY <1>10
<1>12. Fresh(e, n, r)
  BY <1>1, <1>3, <1>5, <1>6, <1>8, Zenon DEF Fresh
<1>13. ForNew(e, n, r)
  BY <1>3, <1>4, <1>10 DEF ForNew
<1> QED BY <1>1, <1>3, <1>9, <1>11, <1>12, <1>13, Added, Zenon

\* A frame is looked up, or delivered to the stream that was found.
LEMMA InboundStep ==
    ASSUME IdInv, NEW e \in Ends, Deliver(e) \/ \E f \in net : LookUp(e, f)
    PROVE  IdInv'
<1>1. ASSUME NEW f \in net, LookUp(e, f)
      PROVE  IdInv'
  <2>1. f.to = e /\ f.kind # "close" /\ UNCHANGED <<streams, nextStreamID, net>>
    BY <1>1, Zenon DEF LookUp, Inbound
  <2>2. PICK id \in findStream(e, f) : inbound' = [inbound EXCEPT ![e] = {[id |-> id, frame |-> f]}]
    BY <1>1, Zenon DEF LookUp
  <2>3. Found(e, [id |-> id, frame |-> f])
    BY <2>1, <2>2, FindsTheStream
  <2>4. DOMAIN inbound' = Ends /\ \A d \in Ends : \A x \in inbound'[d] : x \in inbound[d] \/ Found(d, x)
    BY <2>2, <2>3, Zenon DEF IdInv
  <2>5. \A d \in Ends : Ids(d)' = Ids(d) /\ \A i \in Ids(d) : Alike(streams'[d][i], streams[d][i])
    BY <2>1, Zenon DEF Ids, Alike
  <2>6. DOMAIN streams' = Ends
    BY <2>1, Zenon DEF IdInv
  <2> QED BY <2>1, <2>4, <2>5, <2>6, NamesKept, Zenon
<1>2. CASE Deliver(e)
  <2>1. PICK d \in inbound[e] : Update(e, d.id, Delivered(streams[e][d.id], d.frame))
    BY <1>2, Zenon DEF Deliver
  <2>2. d.id \in Ids(e) /\ d.frame.kind \in {"data", "fin", "reset"} /\ Named(streams[e][d.id])
    BY Zenon DEF IdInv, Found
  <2>3. Alike(Delivered(streams[e][d.id], d.frame), streams[e][d.id])
    BY <2>2, DeliveredKeepsNames
  <2>4. /\ DOMAIN streams' = Ends
        /\ \A c \in Ends : Ids(c)' = Ids(c)
        /\ \A c \in Ends : \A i \in Ids(c) : Alike(streams'[c][i], streams[c][i])
    BY <2>1, <2>2, <2>3, OneChanges, Zenon
  <2>5. DOMAIN inbound' = Ends /\ \A c \in Ends : \A x \in inbound'[c] : x \in inbound[c]
    BY <1>2, Zenon DEF Deliver, IdInv
  <2>6. UNCHANGED <<nextStreamID, net>>
    BY <1>2, Zenon DEF Deliver
  <2> QED BY <2>4, <2>5, <2>6, NamesKept, Zenon
<1> QED BY <1>1, <1>2

\* Steps that concern the connection, or the accept queue.
LEMMA ConnectionStep ==
    ASSUME IdInv, UNCHANGED <<streams, nextStreamID, inbound>>,
           net' = net \/ \E e \in Ends : Send(CloseFrame(e))
    PROVE  IdInv'
<1>1. \A f \in net' : f \in net \/ Addressed(f)
  BY DEF Send, CloseFrame, Addressed
<1>2. \A d \in Ends : Ids(d)' = Ids(d) /\ \A i \in Ids(d) : Alike(streams'[d][i], streams[d][i])
  BY DEF Ids, Alike
<1>3. DOMAIN streams' = Ends /\ DOMAIN inbound' = Ends
  BY Zenon DEF IdInv
<1> QED BY <1>1, <1>2, <1>3, NamesKept, Zenon

\* What closeInternal has collected are streams.
CollectedInv == DOMAIN toReset = Ends /\ \A e \in Ends : toReset[e] \subseteq Ids(e)

\* No stream is ever removed.
LEMMA CollectedStep ==
    ASSUME IdInv, CollectedInv, [LifeNext]_lifeVars
    PROVE  CollectedInv'
<1>1. DOMAIN streams = Ends
  BY Zenon DEF IdInv
<1>2. \A d \in Ends : Ids(d) \subseteq Ids(d)'
  <2>1. CASE UNCHANGED streams
    BY <2>1 DEF Ids
  <2>2. ASSUME NEW e \in Ends, NEW id, NEW r, Update(e, id, r)
        PROVE  \A d \in Ends : Ids(d) \subseteq Ids(d)'
    BY <1>1, <2>2 DEF Update, Ids
  <2>3. ASSUME NEW e \in Ends, NEW r, Add(e, r)
        PROVE  \A d \in Ends : Ids(d) \subseteq Ids(d)'
    BY <1>1, <2>3 DEF Add, Ids
  <2>4. CASE UNCHANGED lifeVars
    BY <2>1, <2>4 DEF lifeVars
  <2>5. ASSUME NEW e \in Ends,
               \/ AcceptStream(e) \/ CloseConnection(e) \/ HandleConnectionClose(e)
               \/ CloseAndCollect(e) \/ EndClose(e) \/ \E f \in net : LookUp(e, f)
        PROVE  UNCHANGED streams
    BY <2>5, Zenon DEF AcceptStream, CloseConnection, HandleConnectionClose, BeginClose, CloseAndCollect,
       EndClose, LookUp
  <2>6. ASSUME NEW e \in Ends, OpenStream(e) \/ \E f \in net : OpenIncoming(e, f)
        PROVE  \E r : Add(e, r)
    BY <2>6, Zenon DEF OpenStream, OpenIncoming
  <2>7. ASSUME NEW e \in Ends, NEW id,
               \/ \E place \in {"blocked", "credit"} : Write(e, id, place)
               \/ BlockedWriter(e, id) \/ WriteCredited(e, id)
               \/ Close(e, id) \/ Reset(e, id) \/ ResetCollected(e, id)
        PROVE  \E r : Update(e, id, r)
    BY <2>7, Zenon DEF Write, BlockedWriter, WriteCredited, Close, Reset, ResetCollected
  <2>8. ASSUME NEW e \in Ends, Deliver(e)
        PROVE  \E id, r : Update(e, id, r)
    BY <2>8, Zenon DEF Deliver
  <2> QED BY <2>1, <2>2, <2>3, <2>4, <2>5, <2>6, <2>7, <2>8, Zenon DEF LifeNext
<1>3. \/ toReset' = toReset
      \/ \E e \in Ends : toReset' = [toReset EXCEPT ![e] = Ids(e)]
      \/ \E e \in Ends : \E id : toReset' = [toReset EXCEPT ![e] = @ \ {id}]
  <2>1. CASE UNCHANGED lifeVars
    BY <2>1 DEF lifeVars
  <2>2. ASSUME NEW e \in Ends, CloseAndCollect(e)
        PROVE  toReset' = [toReset EXCEPT ![e] = Ids(e)]
    BY <2>2 DEF CloseAndCollect, Collected
  <2>3. ASSUME NEW e \in Ends, NEW id, ResetCollected(e, id)
        PROVE  toReset' = [toReset EXCEPT ![e] = @ \ {id}]
    BY <2>3 DEF ResetCollected
  <2>4. ASSUME NEW e \in Ends, NEW id,
               \/ \E place \in {"blocked", "credit"} : Write(e, id, place)
               \/ BlockedWriter(e, id) \/ WriteCredited(e, id) \/ Close(e, id) \/ Reset(e, id)
        PROVE  toReset' = toReset
    BY <2>4 DEF Write, BlockedWriter, WriteCredited, Close, Reset, closeVars
  <2>5. ASSUME NEW e \in Ends,
               \/ OpenStream(e) \/ AcceptStream(e) \/ CloseConnection(e) \/ HandleConnectionClose(e)
               \/ EndClose(e) \/ Deliver(e) \/ \E f \in net : LookUp(e, f) \/ OpenIncoming(e, f)
        PROVE  toReset' = toReset
    BY <2>5, Zenon DEF OpenStream, AcceptStream, CloseConnection, HandleConnectionClose, BeginClose,
       EndClose, Deliver, LookUp, OpenIncoming, closeVars
  <2> QED BY <2>1, <2>2, <2>3, <2>4, <2>5, Zenon DEF LifeNext
<1> QED BY <1>2, <1>3 DEF CollectedInv

\* Every step of either end keeps the invariant.
LEMMA IdStep ==
    ASSUME IdInv, CollectedInv, [LifeNext]_lifeVars
    PROVE  IdInv'
<1>1. CASE UNCHANGED lifeVars
  BY <1>1, ConnectionStep DEF lifeVars
<1>2. ASSUME NEW e \in Ends, OpenStream(e) \/ Deliver(e) \/ \E f \in net : LookUp(e, f) \/ OpenIncoming(e, f)
      PROVE  IdInv'
  BY <1>2, OpenStep, InboundStep, IncomingStep
<1>3. ASSUME NEW e \in Ends,
             \/ AcceptStream(e) \/ CloseConnection(e) \/ HandleConnectionClose(e)
             \/ CloseAndCollect(e) \/ EndClose(e)
      PROVE  IdInv'
  BY <1>3, ConnectionStep, Zenon
  DEF AcceptStream, CloseConnection, HandleConnectionClose, BeginClose, CloseAndCollect, EndClose
<1>4. ASSUME NEW e \in Ends, NEW id \in Ids(e),
             \/ \E place \in {"blocked", "credit"} : Write(e, id, place)
             \/ BlockedWriter(e, id) \/ WriteCredited(e, id)
             \/ Close(e, id) \/ Reset(e, id) \/ ResetCollected(e, id)
      PROVE  IdInv'
  <2>1. PICK s : s = streams[e][id]
    BY Zenon
  <2>2. Named(s)
    BY <2>1, Zenon DEF IdInv
  <2>3. UNCHANGED <<nextStreamID, inbound>>
    BY <1>4 DEF Write, BlockedWriter, WriteCredited, Close, Reset, ResetCollected
  <2>4. \E kind \in {"data", "fin", "reset"} : \E off : net' = net \/ Send(Frame(e, id, kind, off))
    BY <1>4 DEF Write, BlockedWriter, WriteCredited, Close, Reset, ResetCollected
  <2>5. \/ \E a : Update(e, id, [s EXCEPT !.writer = a])
        \/ \E a : Update(e, id, [s EXCEPT !.state = a])
        \/ \E a, b, c, d :
            Update(e, id, [s EXCEPT !.writer = a, !.written = b, !.state = c, !.raced = d])
    BY <1>4, <2>1, Zenon DEF Write, BlockedWriter, WriteCredited, Close, Reset, ResetCollected
  <2>6. PICK r : Alike(r, s) /\ Update(e, id, r)
    BY <2>2, <2>5, CallsKeepNames, Zenon
  <2> QED BY <2>1, <2>3, <2>4, <2>6, CallStep
<1> QED BY <1>1, <1>2, <1>3, <1>4, Zenon DEF LifeNext, CollectedInv

\* The invariant is strong enough: a stream's names tell it from the others.
LEMMA OnceEach ==
    ASSUME IdInv, NEW e \in Ends, NEW i \in Ids(e), NEW j \in Ids(e),
           streams[e][i].org = streams[e][j].org
    PROVE  i = j
<1>1. (Local(e, i) \/ Remote(e, i)) /\ (Local(e, j) \/ Remote(e, j)) /\ Peer(e) # e
  BY Opposite, Zenon DEF IdInv
<1>2. ASSUME NEW k \in Ids(e)
      PROVE  /\ Local(e, k) => streams[e][k].org[1] = e /\ streams[e][k].org[2] = k
             /\ Remote(e, k) => /\ streams[e][k].org[1] = Peer(e)
                                /\ streams[e][k].org[2] = streams[e][k].remote
  <2>1. \A o, x, y : o = <<x, y>> => o[1] = x /\ o[2] = y
    OBVIOUS
  <2>2. /\ Local(e, k) => streams[e][k].org = <<e, k>>
        /\ Remote(e, k) => streams[e][k].org = <<Peer(e), streams[e][k].remote>>
    BY Zenon DEF Local, Remote
  <2> QED BY <2>1, <2>2, Zenon
<1>3. CASE Local(e, i)
  <2>1. Local(e, j)
    BY <1>1, <1>2, <1>3
  <2> QED BY <1>2, <1>3, <2>1, Zenon
<1>4. CASE Remote(e, i)
  <2>1. streams[e][i].remote = streams[e][j].remote
    BY <1>1, <1>2, <1>4
  <2>2. streams[e][i].remote # 0
    <3>1. streams[e][i].remote \in Ids(Peer(e))
      BY <1>4, Zenon DEF Remote
    <3>2. Ids(Peer(e)) \subseteq 1..nextStreamID[Peer(e)] - 1
      BY Opposite, Zenon DEF IdInv
    <3> QED BY <3>1, <3>2
  <2> QED BY <2>1, <2>2, Zenon DEF IdInv
<1> QED BY <1>1, <1>3, <1>4

\* Frames reach the stream they belong to, by the local ID or by the peer's
\* (handleStreamFrame, findStream), and each end has a stream once, for any
\* number of streams and whatever is reordered, repeated or lost.
THEOREM FramesReachTheirStream == LifeSpec => []NoCrossTalk
<1>1. LifeInit => IdInv /\ CollectedInv
  BY IdInitially DEF LifeInit, CollectedInv
<1>2. (IdInv /\ CollectedInv) /\ [LifeNext]_lifeVars => (IdInv /\ CollectedInv)'
  BY IdStep, CollectedStep
<1>3. IdInv => NoCrossTalk
  BY OnceEach, Zenon DEF NoCrossTalk, IdInv, Found
<1> QED BY <1>1, <1>2, <1>3, PTL DEF LifeSpec

-----------------------------------------------------------------------------

\* Division and remainder, as the truncation to the wire field uses them.
LEMMA DivMod ==
    ASSUME NEW n \in Nat, NEW m \in Nat \ {0}
    PROVE  /\ n \div m \in Nat
           /\ n % m \in 0..(m - 1)
           /\ n = m * (n \div m) + (n % m)
  OBVIOUS

\* What reconstructWindowOffset computes is the offset that was truncated,
\* whenever that offset is within half the modulus of the reference.
LEMMA ReconstructExact ==
    ASSUME NEW ref \in Nat, NEW t \in Nat,
           2 * (t - ref) < windowOffsetModulus,
           2 * (ref - t) < windowOffsetModulus
    PROVE  reconstructWindowOffset(t % windowOffsetModulus, ref) = t
<1> DEFINE M == windowOffsetModulus
           a == t \div M
           b == ref \div M
           r == t % M
           s == ref % M
<1>1. M \in Nat \ {0}
  BY ModulusAssumption
<1>2. /\ a \in Nat /\ r \in 0..(M - 1) /\ t = M * a + r
      /\ b \in Nat /\ s \in 0..(M - 1) /\ ref = M * b + s
  BY <1>1, DivMod, Zenon
<1> DEFINE d == a - b
           e == M * d
<1>3. d \in Int /\ e \in Int /\ t - ref = e + (r - s)
  BY <1>1, <1>2
<1>4. d \in {-1, 0, 1}
  <2>1. d >= 2 => e >= 2 * M
    BY <1>1, <1>3
  <2>2. d <= -2 => e <= -(2 * M)
    BY <1>1, <1>3
  <2> QED
    BY <1>1, <1>2, <1>3, <2>1, <2>2
<1>5. e = IF d = 0 THEN 0 ELSE IF d = 1 THEN M ELSE -M
  BY <1>1, <1>4
<1> HIDE DEF M, a, b, r, s, d, e
<1>6. t - (ref - s + r) = e
  BY <1>1, <1>2, <1>3
<1> QED
  BY <1>1, <1>2, <1>3, <1>4, <1>5, <1>6 DEF reconstructWindowOffset, absInt64, M, r, s

-----------------------------------------------------------------------------
(***************************************************************************)
(* The chain of offsets that makes the protocol work.  None of the safety  *)
(* properties is inductive alone: that the buffer is bounded rests on the  *)
(* sender's limit, that the limit is never overstated rests on every       *)
(* update in flight, and that an update is decoded right rests on the      *)
(* window being anchored to what was consumed.                             *)
(***************************************************************************)
Chain ==
    /\ dataConsumed + readable <= dataRecvd
    /\ dataRecvd <= dataSent
    /\ dataSent <= maxStreamData
    /\ maxStreamData <= lastAdvertised
    /\ lastAdvertised <= dataConsumed + recvWindow
    /\ recvWindow <= MaxStreamRecvWindow

UpdatesAdvertised ==
    \A u \in updates :
        /\ u.at <= lastAdvertised
        /\ u.wire = u.at % windowOffsetModulus

\* A batch waiting for congestion credit is part of its writer's data.
BatchWithinData == \A w \in Writers : wpc[w] = "credit" => want[w] <= left[w]

IInv == FlowTypeOK /\ Chain /\ UpdatesAdvertised /\ BatchWithinData

\* Every deliverable update is within half the modulus of the limit.
LEMMA DeliverableDecodes == IInv => UpdatesReconstruct
<1> SUFFICES ASSUME IInv, NEW u \in updates, maxStreamData - u.at <= MaxLag
             PROVE  reconstructWindowOffset(u.wire, maxStreamData) = u.at
  BY DEF UpdatesReconstruct
<1>1. maxStreamData \in Nat /\ u.at \in Nat /\ u.wire = u.at % windowOffsetModulus
  BY DEF IInv, FlowTypeOK, UpdatesAdvertised
<1>2. u.at - maxStreamData <= MaxStreamRecvWindow
  BY <1>1, WindowAssumption DEF IInv, FlowTypeOK, Chain, UpdatesAdvertised
<1>3. /\ 2 * (u.at - maxStreamData) < windowOffsetModulus
      /\ 2 * (maxStreamData - u.at) < windowOffsetModulus
  BY <1>1, <1>2, WindowAssumption, ModulusAssumption
<1> QED
  BY <1>1, <1>3, ReconstructExact

\* Rounding a batch down to whole chunks only makes it smaller.
LEMMA WholeChunks ==
    ASSUME NEW a \in Nat, a > ChunkSize
    PROVE  a - (a % ChunkSize) \in Nat /\ a - (a % ChunkSize) <= a
<1>1. ChunkSize \in Nat \ {0}
  BY WindowAssumption
<1>2. a % ChunkSize \in Nat /\ a % ChunkSize < ChunkSize
  BY <1>1, DivMod
<1> QED
  BY <1>1, <1>2

\* A new flow controller's state has it.
LEMMA InitIInv == FlowInit => IInv
<1> SUFFICES ASSUME FlowInit PROVE IInv
  OBVIOUS
<1>1. FlowTypeOK
  BY WindowAssumption, Zenon DEF FlowInit, FlowTypeOK
<1>2. Chain /\ UpdatesAdvertised
  BY WindowAssumption DEF FlowInit, Chain, UpdatesAdvertised
<1>3. BatchWithinData
  BY DEF FlowInit, BatchWithinData
<1> QED
  BY <1>1, <1>2, <1>3 DEF IInv

\* A step of Write books no more than the send window admits.
LEMMA WriteStepIInv ==
    ASSUME IInv, NEW w \in Writers, WriteStep(w)
    PROVE  IInv'
<1> USE DEF IInv, FlowTypeOK, Chain, UpdatesAdvertised, BatchWithinData,
            sendVars, recvVars, writerVars, netVars
<1>1. CASE WriteCall(w)
  BY <1>1 DEF WriteCall
<1>2. CASE ClampBatch(w)
  <2>1. SendWindowAvailable \in Nat
    BY DEF SendWindowAvailable
  <2>2. sendBatchMax * ChunkSize \in Nat
    BY WindowAssumption
  <2>3. Lesser(Lesser(left[w], sendBatchMax * ChunkSize), SendWindowAvailable) \in 0..left[w]
    BY <2>1, <2>2 DEF Lesser
  <2> QED
    BY <1>2, <2>3 DEF ClampBatch
<1>3. CASE SendDataBlocked(w)
  BY <1>3 DEF SendDataBlocked
<1>4. CASE WaitForCredit(w)
  BY <1>4 DEF WaitForCredit
<1>5. CASE BlockedRetry(w)
  BY <1>5 DEF BlockedRetry
<1>6. CASE WriteDeadline(w)
  BY <1>6 DEF WriteDeadline
<1>7. CASE SendBatch(w)
  <2>1. PICK granted \in Lesser(ChunkSize, want[w])..want[w] :
            /\ dataSent' = dataSent + BatchOf(w, granted)
            /\ left' = [left EXCEPT ![w] = @ - BatchOf(w, granted)]
            /\ wpc' = [wpc EXCEPT ![w] = IF left[w] = BatchOf(w, granted)
                                        THEN "idle" ELSE "loop"]
    BY <1>7, Zenon DEF SendBatch
  <2>2. /\ granted \in Nat /\ granted <= left[w]
        /\ SendWindowAvailable \in Nat
        /\ dataSent + SendWindowAvailable <= maxStreamData
    <3>1. want[w] \in Nat /\ want[w] <= left[w] /\ left[w] \in Nat
      BY <1>7 DEF SendBatch
    <3>2. Lesser(ChunkSize, want[w]) \in Nat
      BY <3>1, WindowAssumption DEF Lesser
    <3> QED
      BY <2>1, <3>1, <3>2 DEF SendWindowAvailable
  <2>3. \A n \in Nat : n > ChunkSize => n - (n % ChunkSize) \in Nat /\ n - (n % ChunkSize) <= n
    BY WholeChunks
  <2>4. /\ Lesser(granted, SendWindowAvailable) \in Nat
        /\ Lesser(granted, SendWindowAvailable) <= left[w]
        /\ Lesser(granted, SendWindowAvailable) <= SendWindowAvailable
    BY <2>2 DEF Lesser
  <2>5. /\ BatchOf(w, granted) \in Nat
        /\ BatchOf(w, granted) <= left[w]
        /\ BatchOf(w, granted) <= SendWindowAvailable
    <3> HIDE DEF IInv
    <3> DEFINE n == Lesser(granted, SendWindowAvailable)
    <3>1. BatchOf(w, granted) = IF n < left[w] /\ n > ChunkSize THEN n - (n % ChunkSize) ELSE n
      BY DEF BatchOf
    <3>2. n \in Nat /\ n <= left[w] /\ n <= SendWindowAvailable /\ left[w] \in Nat
      BY <2>4 DEF IInv
    <3> HIDE DEF n
    <3>3. BatchOf(w, granted) \in Nat /\ BatchOf(w, granted) <= n
      BY <2>3, <3>1, <3>2
    <3> QED
      BY <2>2, <3>2, <3>3
  <2>6. UNCHANGED <<maxStreamData, recvVars, toWrite, want, rpc, netVars>>
    BY <1>7 DEF SendBatch
  <2>7. left[w] - BatchOf(w, granted) \in Nat /\ dataSent + BatchOf(w, granted) \in Nat
    BY <2>5
  <2>8. FlowTypeOK'
    BY <2>1, <2>6, <2>7
  <2>9. Chain' /\ UpdatesAdvertised'
    BY <2>1, <2>2, <2>5, <2>6, <2>7
  <2>10. BatchWithinData'
    BY <2>1, <2>6
  <2> QED
    BY <2>8, <2>9, <2>10, Zenon
<1> QED
  BY <1>1, <1>2, <1>3, <1>4, <1>5, <1>6, <1>7, Zenon DEF WriteStep

\* The receiver's steps move the advertised offset only up to what was
\* consumed plus the window, and every update carries that offset.
LEMMA ReceiverIInv ==
    ASSUME IInv,
           \/ DeliverData
           \/ \E r \in Readers : Read(r) \/ AdvertiseLimit(r)
           \/ RefreshLimit
    PROVE  IInv'
<1> USE DEF IInv, FlowTypeOK, Chain, UpdatesAdvertised, BatchWithinData,
            sendVars, recvVars, writerVars, netVars
<1>1. CASE DeliverData
  <2>1. PICK n \in 1..(dataSent - dataRecvd) :
          \E contiguous \in readable..((dataRecvd + n) - dataConsumed) :
            /\ dataRecvd' = dataRecvd + n
            /\ readable' = contiguous
            /\ UNCHANGED <<sendVars, dataConsumed, recvWindow, lastAdvertised,
                           writerVars, rpc, netVars>>
    BY <1>1 DEF DeliverData
  <2>2. PICK contiguous \in readable..((dataRecvd + n) - dataConsumed) :
            readable' = contiguous
    BY <2>1
  <2>3. dataRecvd' \in Nat /\ dataRecvd' <= dataSent
    BY <2>1
  <2>4. contiguous \in Nat /\ dataConsumed + contiguous <= dataRecvd + n
    OBVIOUS
  <2> QED
    BY <2>1, <2>2, <2>3, <2>4
<1>2. ASSUME NEW r \in Readers, Read(r)
      PROVE  IInv'
  <2>1. PICK n \in 1..readable :
            /\ readable' = readable - n
            /\ dataConsumed' = dataConsumed + n
    BY <1>2 DEF Read
  <2>2. rpc' \in [Readers -> {"idle", "advertise"}]
    BY <1>2 DEF Read
  <2>3. UNCHANGED <<sendVars, dataRecvd, recvWindow, lastAdvertised, writerVars, netVars>>
    BY <1>2 DEF Read
  <2> QED
    BY <2>1, <2>2, <2>3
<1>3. ASSUME NEW window \in Nat, recvWindow <= window, window <= MaxStreamRecvWindow,
             recvWindow' = window, lastAdvertised' = AdvertisedFor(window),
             updates' = updates \cup {WindowUpdate(lastAdvertised')},
             UNCHANGED <<sendVars, dataRecvd, readable, dataConsumed, writerVars, dataBlocked>>,
             rpc' \in [Readers -> {"idle", "advertise"}]
      PROVE  IInv'
  <2>1. /\ lastAdvertised' \in Nat
        /\ lastAdvertised <= lastAdvertised'
        /\ lastAdvertised' <= dataConsumed + window
    BY <1>3 DEF AdvertisedFor
  <2>2. \A a \in Nat : a % windowOffsetModulus \in Nat
    <3> windowOffsetModulus \in Nat \ {0}
      BY ModulusAssumption
    <3> QED
      BY DivMod
  <2>3. lastAdvertised' % windowOffsetModulus \in Nat
    BY <2>1, <2>2
  <2>4. UpdatesAdvertised' /\ updates' \subseteq [at : Nat, wire : Nat]
    BY <1>3, <2>1, <2>3 DEF WindowUpdate
  <2>5. FlowTypeOK'
    BY <1>3, <2>1, <2>4
  <2>6. Chain' /\ BatchWithinData'
    BY <1>3, <2>1
  <2> QED
    BY <2>4, <2>5, <2>6, Zenon
<1>4. ASSUME NEW r \in Readers, AdvertiseLimit(r)
      PROVE  IInv'
  <2>1. GrownWindow \in Nat /\ recvWindow <= GrownWindow /\ GrownWindow <= MaxStreamRecvWindow
    BY WindowAssumption DEF GrownWindow, Lesser
  <2> QED
    BY <1>3, <1>4, <2>1, Zenon DEF AdvertiseLimit
<1>5. CASE RefreshLimit
  <2>1. recvWindow \in Nat /\ recvWindow <= recvWindow /\ recvWindow <= MaxStreamRecvWindow
    OBVIOUS
  <2>2. /\ recvWindow' = recvWindow /\ lastAdvertised' = AdvertisedFor(recvWindow)
        /\ updates' = updates \cup {WindowUpdate(lastAdvertised')}
        /\ UNCHANGED <<sendVars, dataRecvd, readable, dataConsumed, writerVars, dataBlocked>>
    BY <1>5, Zenon DEF RefreshLimit
  <2>3. rpc' \in [Readers -> {"idle", "advertise"}]
    BY <1>5, Zenon DEF RefreshLimit
  <2> QED
    BY <1>3, <2>1, <2>2, <2>3, Zenon
<1> QED
  BY <1>1, <1>2, <1>4, <1>5, Zenon

\* An update raises the limit only to an offset the receiver has advertised.
LEMMA NetworkIInv ==
    ASSUME IInv,
           \/ \E u \in updates : OnWindowUpdate(u) \/ LoseUpdate(u)
           \/ LoseDataBlocked
    PROVE  IInv'
<1> USE DEF IInv, FlowTypeOK, Chain, UpdatesAdvertised, BatchWithinData,
            sendVars, recvVars, writerVars, netVars
<1>1. ASSUME NEW u \in updates, OnWindowUpdate(u)
      PROVE  IInv'
  <2>1. reconstructWindowOffset(u.wire, maxStreamData) = u.at
    BY <1>1, DeliverableDecodes, Zenon DEF UpdatesReconstruct, OnWindowUpdate
  <2>2. maxStreamData' = IF u.at <= maxStreamData THEN maxStreamData ELSE u.at
    BY <1>1, <2>1 DEF OnWindowUpdate
  <2>3. /\ maxStreamData' \in Nat
        /\ maxStreamData <= maxStreamData'
        /\ maxStreamData' <= lastAdvertised
    BY <2>2
  <2> QED
    BY <1>1, <2>3 DEF OnWindowUpdate
<1>2. ASSUME NEW u \in updates, LoseUpdate(u)
      PROVE  IInv'
  BY <1>2 DEF LoseUpdate
<1>3. CASE LoseDataBlocked
  BY <1>3, Zenon DEF LoseDataBlocked
<1> QED
  BY <1>1, <1>2, <1>3, Zenon

\* Every step of writers, readers, the handlers and the network keeps it.
LEMMA NextIInv == IInv /\ [FlowNext]_flowVars => IInv'
<1> SUFFICES ASSUME IInv, [FlowNext]_flowVars PROVE IInv'
  OBVIOUS
<1>1. CASE UNCHANGED flowVars
  BY <1>1 DEF flowVars, IInv, FlowTypeOK, Chain, UpdatesAdvertised, BatchWithinData,
              sendVars, recvVars, writerVars, netVars
<1> QED
  BY <1>1, WriteStepIInv, ReceiverIInv, NetworkIInv DEF FlowNext

\* So flow control has it always.
LEMMA Invariance == FlowSpec => []IInv
  BY InitIInv, NextIInv, PTL DEF FlowSpec

\* Every variable keeps its type: in particular no counter of the two
\* controllers ever becomes negative.
THEOREM TypeCorrect == FlowSpec => []FlowTypeOK
<1>1. IInv => FlowTypeOK
  BY DEF IInv
<1> QED
  BY <1>1, Invariance, PTL

\* Stream.Write never sends past the offset the peer advertised, whatever its
\* goroutines interleave with and whatever becomes of the window updates.
THEOREM SenderHonoursLimit == FlowSpec => []SentWithinAdvertised
<1>1. IInv => SentWithinAdvertised
  BY DEF IInv, Chain, SentWithinAdvertised
<1> QED
  BY <1>1, Invariance, PTL

\* The receive buffer of a stream never outgrows its window, each byte of it
\* counted once.
THEOREM ReceiverBufferBounded == FlowSpec => []BufferedWithinWindow
<1>1. IInv => BufferedWithinWindow
  BY DEF IInv, FlowTypeOK, Chain, BufferedWithinWindow
<1> QED
  BY <1>1, Invariance, PTL

\* The 32-bit window offset is always decoded to the offset advertised, for
\* a stream of any length.
THEOREM WindowOffsetsDecode == FlowSpec => []UpdatesReconstruct
  BY DeliverableDecodes, Invariance, PTL

-----------------------------------------------------------------------------
(***************************************************************************)
(* Acknowledgement: the receive ring is exact and the ACK timer covers     *)
(* what is pending.                                                        *)
(*                                                                         *)
(* RingExact alone says nothing of the ring before the first arrival, and  *)
(* PendingIsTimed nothing of the timer that ackTimer names; RingInv and    *)
(* TimerInv add that.                                                      *)
(***************************************************************************)

EmptyRing == ~any => \A i \in 0..(ackHistory - 1) : ~bits[i]

RingInv == AckTypeOK /\ RingExact /\ EmptyRing

NamedTimerRuns == ackTimer # None => timer[ackTimer] # "idle"

TimerInv == AckTypeOK /\ NamedTimerRuns /\ PendingIsTimed

-----------------------------------------------------------------------------
(***************************************************************************)
(* Slots of the ring.                                                      *)
(***************************************************************************)

\* A sequence has a slot of the ring.
LEMMA SlotInRing ==
    ASSUME NEW s \in Nat
    PROVE  slot(s) \in 0..(ackHistory - 1)
  BY TrackerAssumption DEF slot

\* Two sequences less than the history apart have different slots.
LEMMA SlotsDiffer ==
    ASSUME NEW s \in Nat, NEW t \in Nat, s < t, t - s < ackHistory
    PROVE  slot(s) # slot(t)
  <1> DEFINE H == ackHistory
  <1>1. H \in Nat \ {0}
    BY TrackerAssumption
  <1>2. /\ s = H * (s \div H) + (s % H) /\ s \div H \in Int
        /\ t = H * (t \div H) + (t % H) /\ t \div H \in Int
    BY <1>1
  <1>3. SUFFICES ASSUME s % H = t % H PROVE FALSE
    BY DEF slot
  <1>4. PICK a \in Int, b \in Int : s = H * a + (s % H) /\ t = H * b + (t % H)
    BY <1>2
  <1>5. t - s = H * (b - a)
    BY <1>1, <1>3, <1>4
  <1>6. b - a >= 1
    BY <1>1, <1>5
  <1>7. H * (b - a) >= H
    BY <1>1, <1>6
  <1> QED BY <1>1, <1>5, <1>7

-----------------------------------------------------------------------------
(***************************************************************************)
(* The ring.                                                               *)
(***************************************************************************)

\* The ring before anything arrives.
LEMMA InitRing == AckInit => RingInv
  <1> SUFFICES ASSUME AckInit PROVE RingInv
    OBVIOUS
  <1>1. AckTypeOK
    <2>1. ackPending \in 0..(AckElicitingThreshold - 1) /\ largest \in Seqs
      BY TrackerAssumption DEF AckInit, Seqs
    <2>2. bits \in [0..(ackHistory - 1) -> BOOLEAN]
      BY Zenon DEF AckInit
    <2> QED BY <2>1, <2>2, Zenon DEF AckInit, AckTypeOK
  <1>2. RingExact
    BY DEF AckInit, RingExact
  <1>3. EmptyRing
    BY DEF AckInit, EmptyRing
  <1> QED BY <1>1, <1>2, <1>3 DEF RingInv

\* What add leaves in the slot of a sequence still within reach: the arrival
\* itself, what was there for an older one, nothing for one skipped over.
LEMMA AddedBits ==
    ASSUME RingInv, NEW s \in Seqs, NEW t \in Seqs,
           NEW m \in Seqs, m = IF any /\ s <= largest THEN largest ELSE s,
           t <= m, m - t < ackHistory
    PROVE  addedBits(s)[slot(t)] <=> t \in arrived \cup {s}
  <1> USE DEF Seqs
  <1>1. /\ ackHistory \in Nat \ {0} /\ MaxSeq \in Nat
        /\ s \in Nat /\ t \in Nat /\ largest \in Nat
        /\ any \in BOOLEAN /\ bits \in [0..(ackHistory - 1) -> BOOLEAN]
    BY TrackerAssumption DEF RingInv, AckTypeOK
  <1>2. slot(s) \in 0..(ackHistory - 1) /\ slot(t) \in 0..(ackHistory - 1)
    BY <1>1, SlotInRing
  <1>3. t # s /\ t - s < ackHistory /\ s - t < ackHistory => slot(t) # slot(s)
    BY <1>1, SlotsDiffer
  <1>4. CASE ~any
    <2>1. arrived = {} /\ ~bits[slot(t)] /\ m = s
      BY <1>2, <1>4 DEF RingInv, RingExact, EmptyRing
    <2>2. addedBits(s)[slot(t)] <=> slot(t) = slot(s)
      BY <1>1, <1>2, <1>4, <2>1 DEF addedBits
    <2> QED BY <1>1, <1>3, <2>1, <2>2
  <1>5. CASE any /\ s <= largest
    <2>1. m = largest /\ (bits[slot(t)] <=> t \in arrived)
      BY <1>5 DEF RingInv, RingExact, has
    <2>2. CASE s < largest /\ largest - s >= ackHistory
      <3>1. addedBits(s) = bits
        BY <1>5, <2>2 DEF addedBits
      <3> QED BY <1>1, <2>1, <2>2, <3>1
    <2>3. CASE ~(s < largest /\ largest - s >= ackHistory)
      <3>1. addedBits(s)[slot(t)] <=> slot(t) = slot(s) \/ bits[slot(t)]
        BY <1>1, <1>2, <1>5, <2>3 DEF addedBits
      <3> QED BY <1>1, <1>3, <1>5, <2>1, <2>3, <3>1
    <2> QED BY <2>2, <2>3
  <1>6. CASE any /\ s > largest
    <2> DEFINE skipped == {slot(u) : u \in (largest + 1)..(s - 1)}
    <2>1. m = s
      BY <1>1, <1>6
    <2>2. addedBits(s)[slot(t)] <=>
            \/ slot(t) = slot(s)
            \/ bits[slot(t)] /\ s - largest < ackHistory /\ slot(t) \notin skipped
      BY <1>1, <1>2, <1>6 DEF addedBits
    <2>3. CASE t = s
      BY <2>2, <2>3
    <2>4. CASE t > largest /\ t # s
      <3>1. t \notin arrived
        BY <1>1, <1>6, <2>4 DEF RingInv, RingExact, AckTypeOK
      <3>2. slot(t) \in skipped
        BY <1>1, <2>1, <2>4
      <3>3. slot(t) # slot(s)
        BY <1>1, <1>3, <2>1, <2>4
      <3> QED BY <2>2, <2>4, <3>1, <3>2, <3>3
    <2>5. CASE t <= largest
      <3>1. s - largest < ackHistory /\ largest - t < ackHistory /\ t # s
        BY <1>1, <1>6, <2>1, <2>5
      <3>2. bits[slot(t)] <=> t \in arrived
        BY <1>6, <2>5, <3>1 DEF RingInv, RingExact, has
      <3>3. slot(t) # slot(s)
        BY <1>1, <1>3, <1>6, <2>1, <2>5
      <3>4. ASSUME NEW u \in (largest + 1)..(s - 1)
            PROVE  slot(t) # slot(u)
        BY <1>1, <2>1, <2>5, SlotsDiffer
      <3> QED BY <2>2, <3>1, <3>2, <3>3, <3>4
    <2> QED BY <1>1, <2>3, <2>4, <2>5
  <1> QED BY <1>1, <1>4, <1>5, <1>6

\* An arrival preserves the types: the threshold flushes before ackPending
\* reaches it.
LEMMA ArrivalTypes ==
    ASSUME AckTypeOK, NEW s \in Seqs, NEW edge \in BOOLEAN, noteReceived(s, edge)
    PROVE  AckTypeOK'
  <1>1. any' \in BOOLEAN /\ largest' \in Seqs /\ arrived' \subseteq Seqs
    BY DEF noteReceived, AckTypeOK
  <1>2. bits' \in [0..(ackHistory - 1) -> BOOLEAN]
    <2>1. addedBits(s) = bits \/ addedBits(s) \in [DOMAIN bits -> BOOLEAN]
      BY Zenon DEF addedBits
    <2>2. DOMAIN bits = 0..(ackHistory - 1)
      BY DEF AckTypeOK
    <2> QED BY <2>1, <2>2 DEF noteReceived, AckTypeOK
  <1>3. ackPending' \in 0..(AckElicitingThreshold - 1)
    BY TrackerAssumption DEF noteReceived, AckNow, takeAckLocked, AckTypeOK
  <1>4. /\ ackTimer' \in Timers \cup {None}
        /\ timer' \in [Timers -> {"idle", "armed", "fired"}]
    BY DEF noteReceived, takeAckLocked, Stopped, timerVars, AckTypeOK
  <1> QED BY <1>1, <1>2, <1>3, <1>4 DEF AckTypeOK

\* The timer's steps preserve the types.
LEMMA TimerTypes ==
    ASSUME AckTypeOK, NEW t \in Timers, TimerExpires(t) \/ ackTimerFired(t)
    PROVE  AckTypeOK'
  <1>1. ackPending' \in 0..(AckElicitingThreshold - 1)
    BY TrackerAssumption DEF TimerExpires, ackTimerFired, AckTypeOK
  <1>2. UNCHANGED <<ringVars, arrived>>
    BY DEF TimerExpires, ackTimerFired
  <1>3. /\ ackTimer' \in Timers \cup {None}
        /\ timer' \in [Timers -> {"idle", "armed", "fired"}]
    BY DEF TimerExpires, ackTimerFired, AckTypeOK
  <1> QED BY <1>1, <1>2, <1>3 DEF ringVars, AckTypeOK, Seqs

\* Every step preserves the types.
LEMMA NextTypes == AckTypeOK /\ [AckNext]_ackVars => AckTypeOK'
  <1> SUFFICES ASSUME AckTypeOK, [AckNext]_ackVars PROVE AckTypeOK'
    OBVIOUS
  <1>1. CASE UNCHANGED ackVars
    BY <1>1 DEF ackVars, ringVars, timerVars, AckTypeOK
  <1>2. CASE AckNext
    BY <1>2, ArrivalTypes, TimerTypes DEF AckNext
  <1> QED BY <1>1, <1>2

\* An arrival keeps the ring exact.
LEMMA ArrivalRing ==
    ASSUME RingInv, NEW s \in Seqs, NEW edge \in BOOLEAN, noteReceived(s, edge)
    PROVE  RingInv'
  <1>1. AckTypeOK'
    BY ArrivalTypes DEF RingInv
  <1>2. /\ any' = TRUE /\ arrived' = arrived \cup {s} /\ bits' = addedBits(s)
        /\ largest' = IF any /\ s <= largest THEN largest ELSE s
    BY DEF noteReceived
  <1>3. s \in Nat /\ largest \in Nat /\ arrived \subseteq Nat /\ any \in BOOLEAN
    BY TrackerAssumption DEF RingInv, AckTypeOK, Seqs
  <1>4. largest' \in arrived' /\ \A t \in arrived' : t <= largest'
    <2>1. CASE ~any
      <3>1. arrived = {}
        BY <2>1 DEF RingInv, RingExact
      <3> QED BY <1>2, <1>3, <2>1, <3>1
    <2>2. CASE any
      <3>1. largest \in arrived /\ \A t \in arrived : t <= largest
        BY <2>2 DEF RingInv, RingExact
      <3> QED BY <1>2, <1>3, <2>2, <3>1
    <2> QED BY <1>3, <2>1, <2>2
  <1>5. ASSUME NEW t \in Seqs, t <= largest', largest' - t < ackHistory
        PROVE  has(t)' <=> t \in arrived'
    <2>1. largest' \in Seqs
      BY <1>1 DEF AckTypeOK
    <2>2. addedBits(s)[slot(t)] <=> t \in arrived \cup {s}
      <3>1. PICK m \in Seqs : m = largest'
        BY <2>1
      <3> QED BY <1>2, <1>5, <3>1, AddedBits
    <2>3. has(t)' <=> addedBits(s)[slot(t)]
      BY <1>2, <1>5 DEF has, slot
    <2> QED BY <1>2, <2>2, <2>3
  <1>6. RingExact'
    BY <1>2, <1>4, <1>5 DEF RingExact, Seqs
  <1>7. EmptyRing'
    BY <1>2 DEF EmptyRing
  <1> QED BY <1>1, <1>6, <1>7 DEF RingInv

\* Every step keeps the ring exact.
LEMMA NextRing == RingInv /\ [AckNext]_ackVars => RingInv'
  <1> SUFFICES ASSUME RingInv, [AckNext]_ackVars PROVE RingInv'
    OBVIOUS
  <1>1. AckTypeOK'
    BY NextTypes DEF RingInv
  <1>2. ASSUME UNCHANGED <<ringVars, arrived>> PROVE RingExact' /\ EmptyRing'
    BY <1>2 DEF RingInv, RingExact, EmptyRing, has, slot, ringVars, Seqs
  <1>3. CASE UNCHANGED ackVars
    BY <1>1, <1>2, <1>3 DEF ackVars, RingInv
  <1>4. CASE \E s \in Seqs, edge \in BOOLEAN : noteReceived(s, edge)
    BY <1>4, ArrivalRing
  <1>5. CASE \E t \in Timers : TimerExpires(t) \/ ackTimerFired(t)
    BY <1>1, <1>2, <1>5 DEF TimerExpires, ackTimerFired, RingInv
  <1> QED BY <1>3, <1>4, <1>5 DEF AckNext

\* The ring invariant holds in every reachable state.
LEMMA RingInvariance == AckSpec => []RingInv
  <1> QED BY InitRing, NextRing, PTL DEF AckSpec

\* The type invariant, for every history, threshold and set of timers; that
\* ackPending stays below the threshold is noteReceived's flush.
THEOREM TrackerTypes == AckSpec => []AckTypeOK
  <1>1. RingInv => AckTypeOK
    BY DEF RingInv
  <1> QED BY <1>1, RingInvariance, PTL

\* The ring of recvTracker remembers exactly what arrived within its reach,
\* for every history length and any order of arrivals.
THEOREM RingIsExact == AckSpec => []RingExact
  <1>1. RingInv => RingExact
    BY DEF RingInv
  <1> QED BY <1>1, RingInvariance, PTL

\* add reports a packet out of order exactly when it is, for every history
\* length: the ring loses nothing that the judgement needs.
THEOREM OrderIsJudged == AckSpec => []OrderJudged
  <1>1. RingInv => OrderJudged
    <2> SUFFICES ASSUME RingInv, NEW s \in Seqs
                 PROVE  addedOutOfOrder(s) <=> OutOfOrder(arrived, s)
      BY DEF OrderJudged
    <2>1. s \in Nat /\ largest \in Nat /\ arrived \subseteq Nat /\ ackHistory \in Nat
      BY TrackerAssumption DEF RingInv, AckTypeOK, Seqs
    <2>2. any => Largest(arrived) = largest
      <3> SUFFICES ASSUME any PROVE Largest(arrived) = largest
        OBVIOUS
      <3>1. largest \in arrived /\ \A t \in arrived : t <= largest
        BY DEF RingInv, RingExact
      <3>2. \A u \in arrived : (\A t \in arrived : t <= u) => u = largest
        BY <2>1, <3>1
      <3> QED BY <3>1, <3>2 DEF Largest
    <2>3. any /\ s < largest /\ largest - s < ackHistory => (has(s) <=> s \in arrived)
      BY <2>1 DEF RingInv, RingExact
    <2>4. any <=> arrived # {}
      BY DEF RingInv, RingExact
    <2> QED BY <2>1, <2>2, <2>3, <2>4 DEF addedOutOfOrder, OutOfOrder
  <1> QED BY <1>1, RingInvariance, PTL

-----------------------------------------------------------------------------
(***************************************************************************)
(* The timer.                                                              *)
(***************************************************************************)

\* A pending packet keeps a running timer: noteReceived arms one unless
\* ackTimer names one that runs, and whoever clears ackTimer flushes.
LEMMA NextTimer == TimerInv /\ [AckNext]_ackVars => TimerInv'
  <1> SUFFICES ASSUME TimerInv, [AckNext]_ackVars PROVE TimerInv'
    OBVIOUS
  <1>1. AckTypeOK'
    BY NextTypes DEF TimerInv
  <1> USE DEF TimerInv, NamedTimerRuns, PendingIsTimed
  <1>2. CASE UNCHANGED ackVars
    BY <1>1, <1>2 DEF ackVars, timerVars
  <1>3. ASSUME NEW s \in Seqs, NEW edge \in BOOLEAN, noteReceived(s, edge)
        PROVE  TimerInv'
    <2>1. CASE takeAckLocked
      <3>1. ackPending' = 0 /\ ackTimer' = None
        BY <2>1, Zenon DEF takeAckLocked
      <3>2. ~(ackPending' > 0)
        BY <3>1
      <3> QED BY <1>1, <3>1, <3>2, Zenon
    <2>2. CASE ackTimer # None /\ UNCHANGED timerVars
      BY <1>1, <2>2 DEF timerVars, AckTypeOK
    <2>3. ASSUME NEW t \in Timers, ackTimer' = t, timer' = [timer EXCEPT ![t] = "armed"]
          PROVE  TimerInv'
      <3>1. timer'[t] = "armed"
        BY <2>3 DEF AckTypeOK
      <3> QED BY <1>1, <2>3, <3>1
    <2> QED BY <1>3, <2>1, <2>2, <2>3 DEF noteReceived
  <1>4. ASSUME NEW t \in Timers, TimerExpires(t) PROVE TimerInv'
    BY <1>1, <1>4 DEF TimerExpires, AckTypeOK
  <1>5. ASSUME NEW t \in Timers, ackTimerFired(t) PROVE TimerInv'
    BY <1>1, <1>5 DEF ackTimerFired
  <1> QED BY <1>2, <1>3, <1>4, <1>5, Zenon DEF AckNext

\* A packet that awaits its ACK always has a timer running or its callback
\* waiting for ackMu, for every number of stale callbacks.
THEOREM PendingHasTimer == AckSpec => []PendingIsTimed
  <1>1. AckInit => TimerInv
    <2> SUFFICES ASSUME AckInit PROVE TimerInv
      OBVIOUS
    <2>1. AckTypeOK
      BY InitRing DEF RingInv
    <2> QED BY <2>1 DEF AckInit, TimerInv, NamedTimerRuns, PendingIsTimed
  <1>2. TimerInv => PendingIsTimed
    BY DEF TimerInv
  <1> QED BY <1>1, <1>2, NextTimer, PTL DEF AckSpec

-----------------------------------------------------------------------------
(***************************************************************************)
(* The search for the datagram size, and migration.                        *)
(***************************************************************************)

Probe == [size : Int, crossed : BOOLEAN]

\* Taking a packet out of those outstanding leaves packets, and none if it was
\* the only one.
LEMMA RemoveProbe ==
    ASSUME NEW s \in Seq(Probe), NEW i \in DOMAIN s
    PROVE  DropAt(s, i) \in Seq(Probe) /\ (Len(s) <= 1 => DropAt(s, i) = <<>>)
<1>1. i \in 1..Len(s)
  OBVIOUS
<1>2. SubSeq(s, 1, i - 1) \in Seq(Probe) /\ SubSeq(s, i + 1, Len(s)) \in Seq(Probe)
  BY <1>1
<1>3. ASSUME Len(s) <= 1 PROVE DropAt(s, i) = <<>>
  <2>1. i = 1 /\ Len(s) = 1
    <3>1. PICK n \in Nat : n = Len(s)
      OBVIOUS
    <3>2. i \in 1..n /\ n <= 1
      BY <1>1, <1>3, <3>1
    <3>3. i = 1 /\ n = 1
      BY <3>2
    <3> QED BY <3>1, <3>3
  <2>2. SubSeq(s, 1, 0) = <<>> /\ SubSeq(s, 2, 1) = <<>>
    OBVIOUS
  <2> QED BY <2>1, <2>2 DEF DropAt
<1> QED BY <1>2, <1>3 DEF DropAt

Between(m) == m.current < m.probe /\ m.probe < m.lowFailed

\* nextLocked changes neither the size in use nor a search that is over.
LEMMA NextKeeps ==
    ASSUME NEW m \in Discovery, NEW n, n = nextLocked(m)
    PROVE  /\ n \in Discovery
           /\ n.current = m.current /\ n.retryAt = m.retryAt
           /\ n.inFlight = m.inFlight
           /\ m.done => n.done
<1>1. CASE n = [m EXCEPT !.done = TRUE, !.probe = 0]
  <2>1. n \in Discovery
    <3>1. TRUE \in BOOLEAN /\ 0 \in Int
      OBVIOUS
    <3> QED BY <1>1, <3>1, Zenon DEF Discovery
  <2>2. n.done
    BY <1>1 DEF Discovery
  <2>3. n.current = m.current /\ n.retryAt = m.retryAt
    BY <1>1 DEF Discovery
  <2>4. n.inFlight = m.inFlight
    BY <1>1 DEF Discovery
  <2> QED BY <2>1, <2>2, <2>3, <2>4
<1>2. CASE n = [m EXCEPT !.probe = (m.current + m.lowFailed) \div 2]
  <2>1. PICK p \in Int : p = (m.current + m.lowFailed) \div 2
    BY DEF Discovery
  <2>2. n = [m EXCEPT !.probe = p]
    BY <1>2, <2>1
  <2>3. n \in Discovery
    BY <2>2, Zenon DEF Discovery
  <2>4. /\ n.current = m.current /\ n.retryAt = m.retryAt
        /\ n.inFlight = m.inFlight /\ n.done = m.done
    BY <2>2, Zenon DEF Discovery
  <2> QED BY <2>3, <2>4
<1> QED BY <1>1, <1>2 DEF nextLocked

\* The next size lies strictly between the bounds, or the search is over
\* (nextLocked).
LEMMA NextBetween ==
    ASSUME NEW m \in Discovery, m.current < m.lowFailed, NEW n, n = nextLocked(m), ~n.done
    PROVE  Between(n)
<1>1. CASE m.lowFailed - m.current <= MTUSearchStep
  <2>1. n = [m EXCEPT !.done = TRUE, !.probe = 0]
    BY <1>1 DEF nextLocked
  <2>2. n.done
    BY <2>1 DEF Discovery
  <2> QED BY <2>2
<1>2. CASE ~(m.lowFailed - m.current <= MTUSearchStep)
  <2>1. m.current \in Int /\ m.lowFailed \in Int /\ MTUSearchStep \in Nat \ {0}
    BY SearchAssumption DEF Discovery
  <2>2. PICK p \in Int : p = (m.current + m.lowFailed) \div 2
    BY <2>1
  <2>3. m.current < p /\ p < m.lowFailed
    BY <1>2, <2>1, <2>2
  <2>4. n = [m EXCEPT !.probe = p]
    BY <1>2, <2>2 DEF nextLocked
  <2>5. n.probe = p /\ n.lowFailed = m.lowFailed /\ n.current = m.current
    BY <2>4, Zenon DEF Discovery
  <2> QED BY <2>3, <2>5 DEF Between
<1> QED BY <1>1, <1>2

\* The search between restarts: see SearchNarrows.  A probe is outstanding
\* exactly while the search waits for one.
Searching ==
    /\ Between(mtu)
    /\ mtu.inFlight <=> probes # <<>>
    /\ Len(probes) <= 1
    /\ \A i \in DOMAIN probes : probes[i].size = mtu.probe

SearchInv ==
    /\ mtu \in Discovery /\ probes \in Seq(Probe)
    /\ late \in BOOLEAN
    /\ InFlightTracked
    /\ mtu.retryAt # "none" => mtu.done /\ mtu.current = SafeDatagramSize
    /\ ~late /\ ~mtu.done => Searching

\* NewMTUDiscovery has it.
LEMMA SearchInitially == Init => SearchInv
<1> SUFFICES ASSUME Init
             PROVE  SearchInv
  OBVIOUS
<1>1. mtu = [current |-> SafeDatagramSize, probe |-> MaxDatagramSize,
             lowFailed |-> MaxDatagramSize + 1, tries |-> 0, inFlight |-> FALSE,
             done |-> FALSE, retryAt |-> "none", largeLost |-> 0]
  BY Zenon DEF Init, NewMTUDiscovery, restartLocked
<1>2. /\ mtu \in Discovery /\ Between(mtu)
      /\ ~mtu.inFlight /\ mtu.retryAt = "none"
  BY <1>1, SearchAssumption DEF Discovery, Between, RetryAt
<1>3. probes = <<>> /\ probes \in Seq(Probe) /\ Len(probes) = 0 /\ DOMAIN probes = {}
  BY DEF Init
<1>4. late = FALSE
  BY DEF Init
<1>5. Searching
  <2>1. \A q : Len(q) = 0 => Len(q) <= 1
    OBVIOUS
  <2> QED BY <2>1, <1>2, <1>3, Zenon DEF Searching
<1> QED BY <1>2, <1>3, <1>4, <1>5, Zenon DEF SearchInv, InFlightTracked

\* A black hole ends the search at the base size (Blackhole).
LEMMA Blackholed ==
    ASSUME NEW m \in Discovery, NEW n, n = Blackhole(m)
    PROVE  \/ n = m
           \/ /\ n \in Discovery
              /\ n.done /\ ~n.inFlight
              /\ n.current = SafeDatagramSize
<1>1. CASE m.current <= SafeDatagramSize
  BY <1>1 DEF Blackhole
<1>2. CASE ~(m.current <= SafeDatagramSize)
  <2>1. n = [m EXCEPT !.current = SafeDatagramSize, !.probe = 0, !.done = TRUE,
                      !.inFlight = FALSE, !.largeLost = 0, !.retryAt = "waiting"]
    BY <1>2 DEF Blackhole
  <2>2. n \in Discovery
    <3>1. /\ TRUE \in BOOLEAN /\ FALSE \in BOOLEAN /\ 0 \in Int /\ SafeDatagramSize \in Int
          /\ "waiting" \in RetryAt
      BY SearchAssumption DEF RetryAt
    <3> QED BY <2>1, <3>1, Zenon DEF Discovery
  <2>3. n.current = SafeDatagramSize
    BY <2>1 DEF Discovery
  <2>4. n.done
    BY <2>1 DEF Discovery
  <2>5. ~n.inFlight
    BY <2>1 DEF Discovery
  <2> QED BY <2>2, <2>3, <2>4, <2>5
<1> QED BY <1>1, <1>2

\* Answering a probe goes on with the search: what OnProbeAcked and OnProbeLost
\* make of a discovery, for the probe under test and for one that is not.
LEMMA Answered ==
    ASSUME NEW m \in Discovery, NEW size \in Int, NEW n,
           n = OnProbeAcked(m, size) \/ n = OnProbeLost(m, size),
           m.retryAt # "none" => m.done
    PROVE  /\ n \in Discovery /\ ~n.inFlight
           /\ n.retryAt = m.retryAt
           /\ m.retryAt # "none" => n.current = m.current /\ n.done = m.done
           /\ m.done => n.done
           /\ ~n.done /\ Between(m) /\ size = m.probe => Between(n)
<1>1. CASE m.retryAt # "none"
  <2>1. n = [m EXCEPT !.inFlight = FALSE]
    BY <1>1 DEF OnProbeAcked, OnProbeLost
  <2>2. n \in Discovery
    <3>1. PICK f \in BOOLEAN : n = [m EXCEPT !.inFlight = f]
      BY <2>1, Zenon
    <3> QED BY <3>1, Zenon DEF Discovery
  <2>3. n.retryAt = m.retryAt /\ n.current = m.current
    BY <2>1 DEF Discovery
  <2>4. n.done = m.done
    BY <2>1, Zenon DEF Discovery
  <2>5. ~n.inFlight
    BY <2>1 DEF Discovery
  <2> QED BY <1>1, <2>2, <2>3, <2>4, <2>5
<1>2. CASE m.retryAt = "none" /\ n = OnProbeAcked(m, size)
  <2> DEFINE c == IF size > m.current THEN size ELSE m.current
  <2>1. PICK k : k = [m EXCEPT !.inFlight = FALSE, !.tries = 0, !.current = c]
    BY Zenon
  <2>2. c \in Int
    BY DEF Discovery
  <2>3. k \in Discovery
    <3>1. FALSE \in BOOLEAN /\ 0 \in Int
      OBVIOUS
    <3> HIDE DEF c
    <3> QED BY <2>1, <2>2, <3>1, Zenon DEF Discovery
  <2>4. n = nextLocked(k)
    BY <1>2, <2>1 DEF OnProbeAcked
  <2>5. k.current = c /\ k.lowFailed = m.lowFailed /\ k.retryAt = m.retryAt
    BY <2>1 DEF Discovery
  <2>6. ~k.inFlight
    BY <2>1 DEF Discovery
  <2>7. k.done = m.done
    BY <2>1, Zenon DEF Discovery
  <2>8. /\ n \in Discovery /\ ~n.inFlight
        /\ n.retryAt = m.retryAt /\ (m.done => n.done)
    BY <2>3, <2>4, <2>5, <2>6, <2>7, NextKeeps
  <2>9. ASSUME ~n.done, Between(m), size = m.probe
        PROVE  Between(n)
    <3>1. m.current \in Int /\ m.lowFailed \in Int /\ m.probe \in Int
      BY DEF Discovery
    <3>2. c < m.lowFailed
      BY <2>9, <3>1 DEF Between
    <3>3. k.current < k.lowFailed
      BY <2>5, <3>2
    <3> QED BY <2>3, <2>4, <2>9, <3>3, NextBetween
  <2> QED BY <1>2, <2>8, <2>9
<1>3. CASE m.retryAt = "none" /\ n = OnProbeLost(m, size) /\ m.tries + 1 < MTUProbeTries
  <2>1. n = [m EXCEPT !.inFlight = FALSE, !.tries = m.tries + 1]
    BY <1>3 DEF OnProbeLost
  <2>2. n \in Discovery
    <3>1. FALSE \in BOOLEAN
      OBVIOUS
    <3>2. PICK t \in Int : t = m.tries + 1
      BY DEF Discovery
    <3> QED BY <2>1, <3>1, <3>2, Zenon DEF Discovery
  <2>3. /\ n.retryAt = m.retryAt /\ n.current = m.current
        /\ n.probe = m.probe /\ n.lowFailed = m.lowFailed
    BY <2>1 DEF Discovery
  <2>4. ~n.inFlight
    BY <2>1 DEF Discovery
  <2>5. n.done = m.done
    BY <2>1, Zenon DEF Discovery
  <2> QED BY <1>3, <2>2, <2>3, <2>4, <2>5 DEF Between
<1>4. CASE m.retryAt = "none" /\ n = OnProbeLost(m, size) /\ ~(m.tries + 1 < MTUProbeTries)
  <2> DEFINE l == IF size < m.lowFailed THEN size ELSE m.lowFailed
  <2>1. PICK k : k = [m EXCEPT !.inFlight = FALSE, !.tries = 0, !.lowFailed = l]
    BY Zenon
  <2>2. l \in Int
    BY DEF Discovery
  <2>3. k \in Discovery
    <3>1. FALSE \in BOOLEAN /\ 0 \in Int
      OBVIOUS
    <3> HIDE DEF l
    <3> QED BY <2>1, <2>2, <3>1, Zenon DEF Discovery
  <2>4. n = nextLocked(k)
    BY <1>4, <2>1 DEF OnProbeLost
  <2>5. k.current = m.current /\ k.lowFailed = l /\ k.retryAt = m.retryAt
    BY <2>1 DEF Discovery
  <2>6. ~k.inFlight
    BY <2>1 DEF Discovery
  <2>7. k.done = m.done
    BY <2>1, Zenon DEF Discovery
  <2>8. /\ n \in Discovery /\ ~n.inFlight
        /\ n.retryAt = m.retryAt /\ (m.done => n.done)
    BY <2>3, <2>4, <2>5, <2>6, <2>7, NextKeeps
  <2>9. ASSUME ~n.done, Between(m), size = m.probe
        PROVE  Between(n)
    <3>1. m.current \in Int /\ m.lowFailed \in Int /\ m.probe \in Int
      BY DEF Discovery
    <3>2. m.current < l
      BY <2>9, <3>1 DEF Between
    <3>3. k.current < k.lowFailed
      BY <2>5, <3>2
    <3> QED BY <2>3, <2>4, <2>9, <3>3, NextBetween
  <2> QED BY <1>4, <2>8, <2>9
<1> QED BY <1>1, <1>2, <1>3, <1>4, Zenon

\* What data says of the path changes a discovery only by a black hole.
Same(m, n) ==
    /\ n.current = m.current /\ n.probe = m.probe /\ n.lowFailed = m.lowFailed
    /\ n.retryAt = m.retryAt
    /\ n.inFlight = m.inFlight /\ n.done = m.done

\* Counting lost data changes nothing the search looks at.
LEMMA Counted ==
    ASSUME NEW m \in Discovery, NEW g \in Int, NEW n, n = [m EXCEPT !.largeLost = g]
    PROVE  n \in Discovery /\ Same(m, n)
<1>1. n \in Discovery
  BY Zenon DEF Discovery
<1>2. n.current = m.current /\ n.probe = m.probe /\ n.lowFailed = m.lowFailed /\ n.retryAt = m.retryAt
  BY DEF Discovery
<1>3. n.inFlight = m.inFlight /\ n.done = m.done
  BY Zenon DEF Discovery
<1> QED BY <1>1, <1>2, <1>3 DEF Same

\* Acknowledged data changes nothing the search looks at (OnDataAcked).
LEMMA DataAckedKeeps ==
    ASSUME NEW m \in Discovery, NEW size, NEW n, n = OnDataAcked(m, size)
    PROVE  n \in Discovery /\ Same(m, n)
<1>1. CASE n = m
  BY <1>1 DEF Same
<1>2. CASE n = [m EXCEPT !.largeLost = 0]
  BY <1>2, Counted
<1> QED BY <1>1, <1>2 DEF OnDataAcked

GivenUp(n) ==
    /\ n.done
    /\ ~n.inFlight
    /\ n.current = SafeDatagramSize

\* Lost data changes nothing, or is a black hole (OnDataLost).
LEMMA DataLostKeeps ==
    ASSUME NEW m \in Discovery, NEW size, NEW n, n = OnDataLost(m, size)
    PROVE  n \in Discovery /\ (Same(m, n) \/ GivenUp(n))
<1>1. CASE n = m
  BY <1>1 DEF Same
<1>2. PICK k : k = [m EXCEPT !.largeLost = m.largeLost + 1]
  BY Zenon
<1>3. m.largeLost + 1 \in Int
  BY DEF Discovery
<1>4. k \in Discovery /\ Same(m, k)
  BY <1>2, <1>3, Counted
<1>5. CASE n = k
  BY <1>4, <1>5
<1>6. CASE n = Blackhole(k)
  BY <1>4, <1>6, Blackholed, Zenon DEF GivenUp
<1> QED BY <1>1, <1>2, <1>5, <1>6 DEF OnDataLost

\* NextProbe starts the search again after a black hole, or goes on with it.
LEMMA ProbeSent ==
    ASSUME NEW m \in Discovery, NEW n, n = NextProbe(m), WantsProbe(m),
           m.retryAt # "none" => m.done /\ m.current = SafeDatagramSize
    PROVE  /\ n \in Discovery
           /\ n.retryAt = "none"
           /\ n.inFlight
           /\ m.retryAt = "due" => Between(n)
           /\ m.retryAt # "due" => ~m.done /\ ~m.inFlight
           /\ m.retryAt # "due" => n.current = m.current /\ n.probe = m.probe
                                   /\ n.lowFailed = m.lowFailed
<1>1. m.retryAt \in {"none", "due"}
  BY DEF Discovery, RetryAt, WantsProbe
<1>2. CASE m.retryAt = "due"
  <2>1. PICK k : k = restartLocked(m)
    BY Zenon
  <2>2. k = [m EXCEPT !.probe = MaxDatagramSize, !.lowFailed = MaxDatagramSize + 1,
                      !.tries = 0, !.inFlight = FALSE, !.done = FALSE,
                      !.retryAt = "none", !.largeLost = 0]
    BY <2>1 DEF restartLocked
  <2>3. k \in Discovery
    <3>1. /\ FALSE \in BOOLEAN /\ 0 \in Int /\ MaxDatagramSize \in Int /\ MaxDatagramSize + 1 \in Int
          /\ "none" \in RetryAt
      BY SearchAssumption DEF RetryAt
    <3> QED BY <2>2, <3>1, Zenon DEF Discovery
  <2>4. k.current = m.current /\ k.probe = MaxDatagramSize
    BY <2>2 DEF Discovery
  <2>5. k.lowFailed = MaxDatagramSize + 1 /\ k.retryAt = "none"
    BY <2>2 DEF Discovery
  <2>6. n = [k EXCEPT !.inFlight = TRUE]
    BY <1>2, <2>1 DEF NextProbe, Restarted
  <2>7. n \in Discovery
    <3>1. TRUE \in BOOLEAN
      OBVIOUS
    <3> QED BY <2>3, <2>6, <3>1, Zenon DEF Discovery
  <2>8. n.inFlight
    BY <2>3, <2>6 DEF Discovery
  <2>9. /\ n.current = k.current /\ n.probe = k.probe /\ n.lowFailed = k.lowFailed
        /\ n.retryAt = k.retryAt
    BY <2>3, <2>6 DEF Discovery
  <2>10. Between(n)
    BY <1>2, <2>4, <2>5, <2>9, SearchAssumption DEF Between
  <2> QED BY <1>2, <2>5, <2>7, <2>8, <2>9, <2>10, Zenon
<1>3. CASE m.retryAt = "none"
  <2>1. Restarted(m) = m
    BY <1>3 DEF Restarted
  <2>2. ~m.done /\ ~m.inFlight
    BY <2>1 DEF WantsProbe
  <2>3. n = [m EXCEPT !.inFlight = TRUE]
    BY <2>1 DEF NextProbe
  <2>4. n \in Discovery
    <3>1. TRUE \in BOOLEAN
      OBVIOUS
    <3> QED BY <2>3, <3>1, Zenon DEF Discovery
  <2>5. n.inFlight
    BY <2>3 DEF Discovery
  <2>6. /\ n.current = m.current /\ n.probe = m.probe /\ n.lowFailed = m.lowFailed
        /\ n.retryAt = m.retryAt
    BY <2>3 DEF Discovery
  <2> QED BY <1>3, <2>2, <2>4, <2>5, <2>6
<1> QED BY <1>1, <1>2, <1>3

\* A step that changes only what data says of the path keeps the invariant.
LEMMA DataStep ==
    ASSUME SearchInv, mtu' \in Discovery, Same(mtu, mtu') \/ GivenUp(mtu'), UNCHANGED <<probes, late>>
    PROVE  SearchInv'
<1>1. CASE Same(mtu, mtu')
  BY <1>1, Zenon DEF Same, SearchInv, Searching, Between, InFlightTracked
<1>2. CASE GivenUp(mtu')
  BY <1>2 DEF GivenUp, SearchInv, InFlightTracked
<1> QED BY <1>1, <1>2

\* So does one that takes an answered probe off those outstanding.
LEMMA AnswerStep ==
    ASSUME SearchInv, NEW i \in DOMAIN probes, UNCHANGED late,
           probes' = DropAt(probes, i),
           NEW n, n = OnProbeAcked(mtu, probes[i].size) \/ n = OnProbeLost(mtu, probes[i].size),
           mtu' \in Discovery, Same(n, mtu')
    PROVE  SearchInv'
<1>1. mtu \in Discovery /\ probes \in Seq(Probe) /\ (mtu.retryAt # "none" => mtu.done)
  BY DEF SearchInv
<1>2. probes[i] \in Probe
  <2>1. \A q \in Seq(Probe) : \A j \in DOMAIN q : q[j] \in Probe
    OBVIOUS
  <2> QED BY <1>1, <2>1, Zenon
<1>3. probes[i].size \in Int
  BY <1>2, Zenon DEF Probe
<1>4. /\ n \in Discovery /\ ~n.inFlight
      /\ n.retryAt = mtu.retryAt
      /\ mtu.retryAt # "none" => n.current = mtu.current /\ n.done = mtu.done
      /\ mtu.done => n.done
      /\ ~n.done /\ Between(mtu) /\ probes[i].size = mtu.probe => Between(n)
  BY <1>1, <1>3, Answered, Zenon
<1>5. probes' \in Seq(Probe) /\ (Len(probes) <= 1 => probes' = <<>>)
  BY <1>1, RemoveProbe, Zenon
<1>6. ~mtu'.inFlight /\ mtu'.retryAt = mtu.retryAt
  BY <1>4, Zenon DEF Same
<1>7. mtu'.retryAt # "none" => mtu'.done /\ mtu'.current = SafeDatagramSize
  BY <1>4, <1>6, Zenon DEF Same, SearchInv
<1>8. ASSUME ~late, ~mtu'.done
      PROVE  Searching'
  <2>1. Searching
    BY <1>4, <1>8, Zenon DEF Same, SearchInv
  <2>2. probes' = <<>> /\ probes[i].size = mtu.probe /\ Between(mtu)
    BY <1>5, <2>1, Zenon DEF Searching
  <2>3. Between(mtu')
    BY <1>4, <1>8, <2>2, Zenon DEF Same, Between
  <2>4. \A q : q = <<>> => Len(q) <= 1 /\ DOMAIN q = {}
    OBVIOUS
  <2>5. Len(probes') <= 1 /\ DOMAIN probes' = {}
    BY <2>2, <2>4, Zenon
  <2> QED BY <1>6, <2>2, <2>3, <2>5, Zenon DEF Searching
<1> QED BY <1>5, <1>6, <1>7, <1>8, Zenon DEF SearchInv, InFlightTracked

\* Sending a probe keeps it (probeMTU).
LEMMA ProbeStep ==
    ASSUME SearchInv, probeMTU
    PROVE  SearchInv'
<1>1. CASE UNCHANGED <<mtu, probes, late>>
  BY <1>1, Zenon DEF SearchInv, Searching, InFlightTracked, Between
<1>2. CASE ~UNCHANGED <<mtu, probes, late>>
  <2>1. /\ WantsProbe(mtu) /\ mtu' = NextProbe(mtu)
        /\ probes' = Append(probes, [size |-> mtu'.probe, crossed |-> Crosses(mtu'.probe)])
        /\ late' = IF mtu.retryAt = "due" THEN probes # <<>> ELSE late
    BY <1>2, Zenon DEF probeMTU
  <2>2. mtu \in Discovery /\ probes \in Seq(Probe)
    BY DEF SearchInv
  <2>3. /\ mtu' \in Discovery
        /\ mtu'.retryAt = "none"
        /\ mtu'.inFlight
        /\ mtu.retryAt = "due" => Between(mtu')
        /\ mtu.retryAt # "due" => ~mtu.done /\ ~mtu.inFlight
        /\ mtu.retryAt # "due" => mtu'.current = mtu.current /\ mtu'.probe = mtu.probe
                                  /\ mtu'.lowFailed = mtu.lowFailed
    BY <2>1, <2>2, ProbeSent, Zenon DEF SearchInv
  <2>4. PICK e \in Probe : e = [size |-> mtu'.probe, crossed |-> Crosses(mtu'.probe)]
    <3>1. mtu'.probe \in Int
      BY <2>3 DEF Discovery
    <3>2. Crosses(mtu'.probe) \in BOOLEAN
      BY DEF Crosses
    <3> QED BY <3>1, <3>2, Zenon DEF Probe
  <2>5. probes' = Append(probes, e) /\ e.size = mtu'.probe
    BY <2>1, <2>4
  <2>6. probes' \in Seq(Probe) /\ probes' # <<>>
    <3>1. ASSUME NEW T, NEW q \in Seq(T), NEW x \in T
          PROVE  Append(q, x) \in Seq(T) /\ Append(q, x) # <<>>
      <4>1. Append(q, x) \in Seq(T) /\ Len(Append(q, x)) = Len(q) + 1 /\ Len(q) \in Nat
        OBVIOUS
      <4>2. Len(Append(q, x)) # 0
        BY <4>1
      <4>3. \A y : y = <<>> => Len(y) = 0
        OBVIOUS
      <4> QED BY <4>1, <4>2, <4>3, Zenon
    <3> QED BY <2>2, <2>5, <3>1, Zenon
  <2>7. late' \in BOOLEAN
    BY <2>1, Zenon DEF SearchInv
  <2>8. ASSUME ~late'
        PROVE  Searching'
    <3>1. probes = <<>> /\ Between(mtu')
      <4>1. CASE mtu.retryAt = "due"
        BY <2>1, <2>3, <2>8, <4>1, Zenon
      <4>2. CASE mtu.retryAt # "due"
        BY <2>1, <2>3, <2>8, <4>2, Zenon DEF SearchInv, Searching, Between
      <4> QED BY <4>1, <4>2
    <3>2. probes' = <<e>>
      <4>1. \A q, x : q = <<>> => Append(q, x) = <<x>>
        OBVIOUS
      <4> QED BY <2>5, <3>1, <4>1, Zenon
    <3>3. Len(probes') <= 1 /\ \A i \in DOMAIN probes' : probes'[i] = e
      BY <3>2
    <3> QED BY <2>3, <2>5, <2>6, <3>1, <3>3, Zenon DEF Searching
  <2> QED BY <2>3, <2>6, <2>7, <2>8 DEF SearchInv, InFlightTracked
<1> QED BY <1>1, <1>2

\* Every step keeps it.
LEMMA SearchStep == SearchInv /\ [Next]_vars => SearchInv'
<1> SUFFICES ASSUME SearchInv, [Next]_vars
             PROVE  SearchInv'
  OBVIOUS
<1>0. mtu \in Discovery /\ Same(mtu, mtu)
  BY DEF SearchInv, Same
<1>1. CASE UNCHANGED vars
  BY <1>0, <1>1, DataStep DEF vars
<1>2. CASE SendData
  BY <1>0, <1>2, DataStep DEF SendData
<1>3. ASSUME NEW P \in SUBSET DOMAIN probes, NEW D \in SUBSET large, AckFrame(P, D)
      PROVE  SearchInv'
  <2> DEFINE i == CHOOSE j \in P : TRUE
             m == IF P = {} THEN mtu ELSE OnProbeAcked(mtu, probes[i].size)
  <2>1. /\ mtu' = IF D = {} THEN m ELSE OnDataAcked(m, CHOOSE size \in D : TRUE)
        /\ probes' = IF P = {} THEN probes ELSE DropAt(probes, i)
        /\ late' = late
    BY <1>3 DEF AckFrame
  <2>2. ASSUME m \in Discovery
        PROVE  mtu' \in Discovery /\ Same(m, mtu')
    <3> HIDE DEF m
    <3>1. CASE D = {}
      BY <2>1, <2>2, <3>1 DEF Same
    <3>2. CASE D # {}
      BY <2>1, <2>2, <3>2, DataAckedKeeps
    <3> QED BY <3>1, <3>2
  <2>3. CASE P = {}
    <3>1. m = mtu /\ UNCHANGED <<probes, late>>
      BY <2>1, <2>3
    <3> QED BY <1>0, <2>2, <3>1, DataStep
  <2>4. CASE P # {}
    <3>1. i \in DOMAIN probes
      BY <2>4
    <3>2. m = OnProbeAcked(mtu, probes[i].size) /\ probes' = DropAt(probes, i)
      BY <2>1, <2>4
    <3>3. m \in Discovery
      <4>1. probes[i].size \in Int
        <5>1. probes[i] \in Probe
          BY <3>1 DEF SearchInv
        <5> QED BY <5>1, Zenon DEF Probe
      <4> HIDE DEF m
      <4> QED BY <1>0, <3>2, <4>1, Answered, Zenon DEF SearchInv
    <3> HIDE DEF m, i
    <3> QED BY <2>1, <2>2, <3>1, <3>2, <3>3, AnswerStep
  <2> QED BY <2>3, <2>4
<1>4. CASE probeMTU
  BY <1>4, ProbeStep
<1>5. ASSUME NEW i \in DOMAIN probes, ProbeLost(i)
      PROVE  SearchInv'
  <2>1. mtu' = OnProbeLost(mtu, probes[i].size) /\ probes' = DropAt(probes, i) /\ late' = late
    BY <1>5 DEF ProbeLost
  <2>2. probes[i].size \in Int
    <3>1. probes[i] \in Probe
      BY DEF SearchInv
    <3> QED BY <3>1 DEF Probe
  <2>3. mtu' \in Discovery
    BY <1>0, <2>1, <2>2, Answered, Zenon DEF SearchInv
  <2>4. Same(mtu', mtu')
    BY DEF Same
  <2> QED BY <2>1, <2>3, <2>4, AnswerStep
<1>6. ASSUME NEW size \in large, DataLost(size)
      PROVE  SearchInv'
  <2>1. mtu' = mtu \/ mtu' = OnDataLost(mtu, size)
    BY <1>6 DEF DataLost
  <2>2. UNCHANGED <<probes, late>>
    BY <1>6 DEF DataLost
  <2>3. mtu' \in Discovery /\ (Same(mtu, mtu') \/ GivenUp(mtu'))
    BY <1>0, <2>1, DataLostKeeps
  <2> QED BY <2>2, <2>3, DataStep
<1>7. CASE onPTO
  <2>1. mtu' = mtu \/ mtu' = Blackhole(mtu)
    BY <1>7 DEF onPTO
  <2>2. UNCHANGED <<probes, late>>
    BY <1>7 DEF onPTO
  <2>3. mtu' \in Discovery /\ (Same(mtu, mtu') \/ GivenUp(mtu'))
    BY <1>0, <2>1, Blackholed DEF GivenUp
  <2> QED BY <2>2, <2>3, DataStep
<1>8. CASE RetryElapses
  <2>1. /\ mtu.retryAt = "waiting" /\ mtu' = [mtu EXCEPT !.retryAt = "due"]
        /\ UNCHANGED <<probes, late>>
    BY <1>8 DEF RetryElapses
  <2>2. mtu' \in Discovery
    <3>1. "due" \in RetryAt
      BY DEF RetryAt
    <3> QED BY <1>0, <2>1, <3>1, Zenon DEF Discovery
  <2>3. mtu'.current = mtu.current
    BY <1>0, <2>1 DEF Discovery
  <2>4. mtu'.done = mtu.done /\ mtu'.inFlight = mtu.inFlight
    BY <1>0, <2>1, Zenon DEF Discovery
  <2>5. mtu.done /\ mtu.current = SafeDatagramSize
    BY <2>1 DEF SearchInv
  <2> QED BY <2>1, <2>2, <2>3, <2>4, <2>5 DEF SearchInv, InFlightTracked
<1>9. ASSUME NEW size \in Capacities \cup {0}, PathChanges(size)
      PROVE  SearchInv'
  BY <1>0, <1>9, DataStep DEF PathChanges
<1> QED BY <1>1, <1>2, <1>3, <1>4, <1>5, <1>6, <1>7, <1>8, <1>9 DEF Next

\* A search that no earlier probe disturbs closes in on the path's size, and a
\* search never waits for a probe that is not outstanding (probeMTU,
\* OnProbeAcked, OnProbeLost).
THEOREM SearchSound == Spec => [](SearchNarrows /\ InFlightTracked)
<1>1. SearchInv => SearchNarrows /\ InFlightTracked
  <2> SUFFICES ASSUME SearchInv
               PROVE  SearchNarrows
    BY DEF SearchInv
  <2>1. ASSUME ~late, ~mtu.done
        PROVE  Searching
    BY <2>1 DEF SearchInv
  <2>2. Len(probes) \in Nat /\ (Len(probes) = 0 <=> probes = <<>>)
    BY DEF SearchInv
  <2>3. ASSUME ~late, ~mtu.done, mtu.inFlight
        PROVE  Len(probes) = 1
    <3>1. probes # <<>> /\ Len(probes) <= 1
      BY <2>1, <2>3 DEF Searching
    <3>2. PICK k \in Nat : k = Len(probes)
      BY <2>2
    <3>3. k # 0 /\ k <= 1
      BY <2>2, <3>1, <3>2
    <3> QED BY <3>2, <3>3
  <2> QED BY <2>1, <2>3, Zenon DEF SearchNarrows, Searching, Between
<1> QED BY <1>1, SearchInitially, SearchStep, PTL DEF Spec

-----------------------------------------------------------------------------
(***************************************************************************)
(* Migration.                                                              *)
(***************************************************************************)

\* The outstanding challenge went to the pending address and nowhere else, so
\* that its answer comes from there.
AnswerInv ==
    /\ challenges \subseteq [addr : Addrs, data : Challenges]
    /\ remoteAddr \in Addrs /\ pendingAddr \in Addrs \cup {NoAddr}
    /\ migration \subseteq [data : Challenges, addr : Addrs]
    /\ pathChallengeResp = <<>> \/ \E d \in Challenges : pathChallengeResp = <<d>>
    /\ responses \subseteq Challenges
    /\ pendingAddr # NoAddr =>
        /\ \A c \in challenges : c.data = pendingChallenge => c.addr = pendingAddr
        /\ pendingChallenge \in responses =>
            [addr |-> pendingAddr, data |-> pendingChallenge] \in answered

\* It holds of a new connection.
LEMMA AnswerInitially == MigrationInit => AnswerInv
  BY AddrAssumption DEF MigrationInit, AnswerInv

\* A fresh challenge is not the answer to an old one (SendChallenge).
LEMMA FreshChallenge ==
    ASSUME AnswerInv, NEW d \in Challenges, NEW a \in Addrs, SendChallenge(d, a)
    PROVE  /\ challenges' \subseteq [addr : Addrs, data : Challenges]
           /\ d \notin responses /\ d # pendingChallenge
           /\ \A c \in challenges' : c.data = d => c.addr = a
           /\ \A c \in challenges' : c.data # d => c \in challenges
           /\ \A c \in answered : c.data # d => c \in answered'
<1>1. PICK c0 : c0 = [addr |-> a, data |-> d]
  BY Zenon
<1>2. c0.addr = a /\ c0.data = d /\ c0 \in [addr : Addrs, data : Challenges]
  BY <1>1
<1>3. challenges' = challenges \cup {c0} /\ challenges \subseteq [addr : Addrs, data : Challenges]
  BY <1>1, Zenon DEF SendChallenge, AnswerInv
<1>4. d \notin responses /\ d # pendingChallenge /\ \A c \in challenges : c.data # d
  BY Zenon DEF SendChallenge, Unused
<1>5. answered' = {c \in answered : c.data # d}
  BY Zenon DEF SendChallenge
<1>6. \A c \in answered : c.data # d => c \in answered'
  BY <1>5, Zenon
<1>7. /\ challenges' \subseteq [addr : Addrs, data : Challenges]
      /\ \A c \in challenges' : c.data = d => c.addr = a
      /\ \A c \in challenges' : c.data # d => c \in challenges
  BY <1>2, <1>3, <1>4, Zenon
<1> QED BY <1>4, <1>6, <1>7, Zenon

\* A challenge for another purpose leaves the pending one's answer alone.
LEMMA StillAnswers ==
    ASSUME AnswerInv, NEW d \in Challenges, NEW a \in Addrs, SendChallenge(d, a),
           UNCHANGED <<pendingAddr, pendingChallenge, responses>>
    PROVE  pendingAddr' # NoAddr =>
             /\ \A c \in challenges' : c.data = pendingChallenge' => c.addr = pendingAddr'
             /\ pendingChallenge' \in responses' =>
                  [addr |-> pendingAddr', data |-> pendingChallenge'] \in answered'
<1>1. /\ d # pendingChallenge
      /\ \A c \in challenges' : c.data # d => c \in challenges
      /\ \A c \in answered : c.data # d => c \in answered'
  BY FreshChallenge, Zenon
<1>2. PICK c0 : c0 = [addr |-> pendingAddr, data |-> pendingChallenge]
  BY Zenon
<1>3. c0.data = pendingChallenge
  BY <1>2
<1>4. pendingAddr # NoAddr =>
        /\ \A c \in challenges : c.data = pendingChallenge => c.addr = pendingAddr
        /\ pendingChallenge \in responses => c0 \in answered
  BY <1>2, Zenon DEF AnswerInv
<1>5. pendingAddr # NoAddr =>
        /\ \A c \in challenges' : c.data = pendingChallenge => c.addr = pendingAddr
        /\ pendingChallenge \in responses => c0 \in answered'
  BY <1>1, <1>3, <1>4, Zenon
<1> QED BY <1>2, <1>5

\* Every step keeps it.
LEMMA MigrationStep == AnswerInv /\ [MigrationNext]_migrationVars => AnswerInv'
<1> SUFFICES ASSUME AnswerInv, [MigrationNext]_migrationVars
             PROVE  AnswerInv'
  OBVIOUS
<1>1. CASE UNCHANGED migrationVars
  BY <1>1, Zenon DEF AnswerInv, migrationVars, connVars, airVars
<1>2. ASSUME NEW a \in Addrs, NEW d \in Challenges, observeAddr(a, d)
      PROVE  AnswerInv'
  <2>1. /\ SendChallenge(d, a) /\ pendingAddr' = a /\ pendingChallenge' = d
        /\ UNCHANGED <<remoteAddr, pathChallengeResp, migration, responses>>
    BY <1>2, Zenon DEF observeAddr
  <2>2. /\ challenges' \subseteq [addr : Addrs, data : Challenges]
        /\ d \notin responses /\ \A c \in challenges' : c.data = d => c.addr = a
    BY <2>1, FreshChallenge, Zenon
  <2> QED BY <2>1, <2>2, Zenon DEF AnswerInv
<1>3. ASSUME NEW a \in Addrs, NEW d \in Challenges, InitiatePathMigration(a, d)
      PROVE  AnswerInv'
  <2>1. remoteAddr \in Addrs
    BY DEF AnswerInv
  <2>2. /\ SendChallenge(d, remoteAddr) /\ migration' = {[data |-> d, addr |-> a]}
        /\ UNCHANGED <<remoteAddr, pendingAddr, pendingChallenge, pathChallengeResp, responses>>
    BY <1>3, Zenon DEF InitiatePathMigration
  <2>3. migration' \subseteq [data : Challenges, addr : Addrs]
    BY <2>2
  <2>4. challenges' \subseteq [addr : Addrs, data : Challenges]
    BY <2>1, <2>2, FreshChallenge, Zenon
  <2>5. pendingAddr' # NoAddr =>
          /\ \A c \in challenges' : c.data = pendingChallenge' => c.addr = pendingAddr'
          /\ pendingChallenge' \in responses' =>
               [addr |-> pendingAddr', data |-> pendingChallenge'] \in answered'
    BY <2>1, <2>2, StillAnswers, Zenon
  <2> QED BY <2>2, <2>3, <2>4, <2>5, Zenon DEF AnswerInv
<1>4. ASSUME NEW d \in responses, HandlePathResponse(d)
      PROVE  AnswerInv'
  BY <1>4, Zenon DEF AnswerInv, HandlePathResponse, completes, airVars
<1>5. CASE MigrationResponse \/ MigrationTimeout
  BY <1>5, Zenon DEF AnswerInv, MigrationResponse, MigrationTimeout, airVars
<1>6. CASE PeerSends \/ \E a \in Addrs : Rebind(a)
  BY <1>6, Zenon DEF AnswerInv, PeerSends, Rebind, connVars, airVars
<1>7. ASSUME NEW c \in challenges, PeerAnswers(c)
      PROVE  AnswerInv'
  <2>1. c = [addr |-> c.addr, data |-> c.data]
    BY DEF AnswerInv
  <2> QED BY <1>7, <2>1, Zenon DEF AnswerInv, PeerAnswers, connVars
<1>8. CASE LoseInAir
  BY <1>8, Zenon DEF AnswerInv, LoseInAir, connVars
<1> QED BY <1>1, <1>2, <1>3, <1>4, <1>5, <1>6, <1>7, <1>8 DEF MigrationNext

\* The connection moves only to an address the peer has answered a challenge
\* from, or one that an answered InitiatePathMigration was asked for
\* (completeMigration, InitiatePathMigration).
THEOREM MovesOnAnswer == MigrationSpec => MovesAnswered
<1> DEFINE Move == remoteAddr' # remoteAddr =>
        \/ [addr |-> remoteAddr', data |-> pendingChallenge] \in answered
        \/ \E m \in migration : m.addr = remoteAddr' /\ pathChallengeResp = <<m.data>>
<1>1. ASSUME AnswerInv, [MigrationNext]_migrationVars
      PROVE  [Move]_migrationVars
  <2> SUFFICES ASSUME MigrationNext
               PROVE  Move
    BY <1>1
  <2>1. ASSUME NEW d \in responses, HandlePathResponse(d)
        PROVE  Move
    BY <1>1, <2>1, Zenon DEF AnswerInv, HandlePathResponse, completes
  <2>2. CASE MigrationResponse
    <3>1. PICK d \in Challenges : pathChallengeResp = <<d>>
      BY <1>1, <2>2, Zenon DEF AnswerInv, MigrationResponse
    <3>2. Head(pathChallengeResp) = d
      BY <3>1
    <3>3. PICK m \in migration :
            remoteAddr' = IF Head(pathChallengeResp) = m.data THEN m.addr ELSE remoteAddr
      BY <2>2 DEF MigrationResponse
    <3> QED BY <3>1, <3>2, <3>3
  <2>3. CASE UNCHANGED remoteAddr
    BY <2>3
  <2>4. ASSUME NEW a \in Addrs, NEW d \in Challenges,
               observeAddr(a, d) \/ InitiatePathMigration(a, d)
        PROVE  UNCHANGED remoteAddr
    BY <2>4, Zenon DEF observeAddr, InitiatePathMigration
  <2>5. MigrationTimeout \/ PeerSends \/ LoseInAir => UNCHANGED remoteAddr
    BY Zenon DEF MigrationTimeout, PeerSends, LoseInAir, connVars
  <2>6. ASSUME NEW a \in Addrs, Rebind(a)
        PROVE  UNCHANGED remoteAddr
    BY <2>6 DEF Rebind, connVars
  <2>7. ASSUME NEW c \in challenges, PeerAnswers(c)
        PROVE  UNCHANGED remoteAddr
    BY <2>7 DEF PeerAnswers, connVars
  <2> HIDE DEF Move
  <2> QED BY <2>1, <2>2, <2>3, <2>4, <2>5, <2>6, <2>7 DEF MigrationNext
<1> QED BY <1>1, AnswerInitially, MigrationStep, PTL DEF MigrationSpec, MovesAnswered

=============================================================================
