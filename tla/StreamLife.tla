----------------------------- MODULE StreamLife -----------------------------
(***************************************************************************)
(* The life of streams on a connection of two ends (OpenStream,            *)
(* AcceptStream, Write, Close, Reset in stream.go; handleStreamFrame,      *)
(* findStream, handleResetStream and closeInternal in connection.go).      *)
(*                                                                         *)
(* Each end has its inbound goroutine, one that may close the connection,  *)
(* and for every stream a writer and whoever calls Close or Reset.  What   *)
(* was sent may arrive at any time, in any order, again or never.  A write *)
(* is one byte; flow and congestion control let it pass at any time or     *)
(* never.                                                                  *)
(***************************************************************************)
EXTENDS Integers, FiniteSets, Sequences

CONSTANTS
    AcceptQueue,      \* capacity of incomingStreams
    MaxStreams,       \* streams OpenStream allows
    MaxWritten,       \* bound: bytes written to a stream by one end
    MaxAppCalls       \* bound: calls the applications make

Ends == {"initiator", "responder"}
Peer(e) == IF e = "initiator" THEN "responder" ELSE "initiator"

VARIABLES
    streams,        \* of each end, by local ID
    nextStreamID,
    incoming,       \* incomingStreams
    connState,      \* "open", "closing", "closed"
    closer,         \* who is in closeInternal: "none", "app", "inbound", "done"
    toReset,        \* the streams it has collected and has yet to reset
    inbound,        \* frames the inbound goroutine has looked up and not delivered
    net,            \* everything sent
    appCalls        \* how many calls the applications have made

lifeVars == <<streams, nextStreamID, incoming, connState, closer, toReset, inbound, net, appCalls>>

States == {"Idle", "Open", "HalfClosedLocal", "HalfClosedRemote", "Closed", "Reset"}

\* org is the end that opened the stream and its ID there; late, that the
\* connection had already collected its streams; revived, that a FIN took it
\* out of Reset; raced, that a byte was written after Close took the size.
NewStream(remote, state, org, afterClose) ==
    [remote |-> remote, state |-> state, written |-> 0,
     recv |-> {}, finSeen |-> FALSE, finalSize |-> 0, finReceived |-> FALSE,
     writer |-> "none", org |-> org, late |-> afterClose, revived |-> FALSE, raced |-> FALSE]

NoStreams == [id \in {} |-> NewStream(0, "Idle", <<"initiator", 0>>, FALSE)]

LifeInit ==
    /\ streams = [e \in Ends |-> NoStreams]
    /\ nextStreamID = [e \in Ends |-> IF e = "initiator" THEN 1 ELSE 2]
    /\ incoming = [e \in Ends |-> <<>>]
    /\ connState = [e \in Ends |-> "open"]
    /\ closer = [e \in Ends |-> "none"]
    /\ toReset = [e \in Ends |-> {}]
    /\ inbound = [e \in Ends |-> {}]
    /\ net = {} /\ appCalls = 0

Ids(e) == DOMAIN streams[e]

\* The stream s of end e becomes r; frames go out.
Update(e, id, r) == streams' = [streams EXCEPT ![e][id] = r]

Add(e, r) ==
    /\ streams' = [streams EXCEPT ![e] =
            [id \in Ids(e) \cup {nextStreamID[e]} |->
                IF id = nextStreamID[e] THEN r ELSE streams[e][id]]]
    /\ nextStreamID' = [nextStreamID EXCEPT ![e] = @ + 2]

Frame(e, id, kind, off) ==
    [to |-> Peer(e), dst |-> streams[e][id].remote, src |-> id, kind |-> kind, off |-> off,
     org |-> streams[e][id].org]

Send(f) == net' = net \cup {f}

Called == appCalls < MaxAppCalls /\ appCalls' = appCalls + 1

closeVars == <<connState, closer, toReset>>

(***************************************************************************)
(* The application's calls.                                                *)
(***************************************************************************)
OpenStream(e) ==
    /\ Called
    /\ connState[e] = "open" /\ Cardinality(Ids(e)) < MaxStreams
    /\ Add(e, NewStream(0, "Idle", <<e, nextStreamID[e]>>, FALSE))
    /\ UNCHANGED <<incoming, closeVars, inbound, net>>

AcceptStream(e) ==
    /\ incoming[e] # <<>>
    /\ incoming' = [incoming EXCEPT ![e] = Tail(@)]
    /\ UNCHANGED <<streams, nextStreamID, closeVars, inbound, net, appCalls>>

\* Write up to the point where it waits: for stream credit, or, that given, for
\* the congestion window without the stream's lock.
Write(e, id, place) ==
    LET s == streams[e][id]
    IN /\ Called
       /\ s.writer = "none" /\ s.written < MaxWritten
       /\ s.state \notin {"Reset", "HalfClosedLocal", "Closed"}
       /\ Update(e, id, [s EXCEPT !.writer = place])
       /\ UNCHANGED <<nextStreamID, incoming, closeVars, inbound, net>>

\* A writer blocked by flow control wakes: it gives up, or has its credit.
BlockedWriter(e, id) ==
    LET s == streams[e][id]
    IN /\ s.writer = "blocked"
       /\ Update(e, id, [s EXCEPT !.writer =
                IF s.state \in {"Reset", "HalfClosedLocal", "Closed"} THEN "none" ELSE "credit"])
       /\ UNCHANGED <<nextStreamID, incoming, closeVars, inbound, net, appCalls>>

\* The window is open: the byte is sent unless the stream was reset meanwhile.
WriteCredited(e, id) ==
    LET s == streams[e][id]
    IN /\ s.writer = "credit"
       /\ \/ /\ s.state # "Reset"
             /\ Update(e, id, [s EXCEPT !.writer = "none", !.written = @ + 1,
                    !.state = IF @ = "Idle" THEN "Open" ELSE @,
                    !.raced = @ \/ s.state \in {"HalfClosedLocal", "Closed"}])
             /\ Send(Frame(e, id, "data", s.written))
          \/ /\ s.state = "Reset" \/ connState[e] = "closed"
             /\ Update(e, id, [s EXCEPT !.writer = "none"])
             /\ UNCHANGED net
       /\ UNCHANGED <<nextStreamID, incoming, closeVars, inbound, appCalls>>

\* The FIN carries the final size, and goes out after the lock is released;
\* what another goroutine does in between does not change it.
Close(e, id) ==
    LET s == streams[e][id]
    IN /\ Called
       /\ s.state \notin {"Closed", "Reset"}
       /\ Update(e, id, [s EXCEPT !.state =
                IF @ = "HalfClosedRemote" THEN "Closed" ELSE "HalfClosedLocal"])
       /\ Send(Frame(e, id, "fin", s.written))
       /\ UNCHANGED <<nextStreamID, incoming, closeVars, inbound>>

Reset(e, id) ==
    LET s == streams[e][id]
    IN /\ Called
       /\ s.state \notin {"Closed", "Reset"}
       /\ Update(e, id, [s EXCEPT !.state = "Reset"])
       /\ Send(Frame(e, id, "reset", 0))
       /\ UNCHANGED <<nextStreamID, incoming, closeVars, inbound>>

(***************************************************************************)
(* The inbound goroutine.                                                  *)
(***************************************************************************)

\* Mutant: streams are known by the local ID alone.
findStream_LocalOnly(e, f) == {f.dst} \cap Ids(e)

\* By local ID, then by the ID the peer has for it.
findStream(e, f) ==
    IF f.dst \in Ids(e) THEN {f.dst} ELSE {id \in Ids(e) : f.src # 0 /\ streams[e][id].remote = f.src}

\* It runs until it sees closeCh closed, which it may not for a while, and not
\* while it is itself in closeInternal.
Inbound(e, f) == f \in net /\ f.to = e /\ inbound[e] = {} /\ closer[e] # "inbound"

recvOffset(s) == CHOOSE n \in 0..MaxWritten + 1 : n \notin s.recv /\ 0..n - 1 \subseteq s.recv

\* Mutant: the FIN ends the stream on arrival.
finishLocked_OnSight(s) ==
    IF ~s.finSeen \/ s.finReceived THEN s
    ELSE [s EXCEPT !.finReceived = TRUE,
                   !.state = IF @ = "HalfClosedLocal" THEN "Closed" ELSE "HalfClosedRemote"]

finishLocked(s) ==
    IF ~s.finSeen \/ s.finReceived \/ recvOffset(s) < s.finalSize THEN s
    ELSE [s EXCEPT !.finReceived = TRUE,
                   !.state = IF @ = "HalfClosedLocal" THEN "Closed" ELSE "HalfClosedRemote",
                   !.revived = @ \/ s.state = "Reset"]

\* DeliverData, DeliverFin, DeliverReset.
Delivered(s, f) ==
    CASE f.kind = "data" -> IF f.off \in s.recv THEN s
                            ELSE finishLocked([s EXCEPT !.recv = @ \cup {f.off}])
      [] f.kind = "fin" -> finishLocked([s EXCEPT !.finSeen = TRUE, !.finalSize = f.off])
      [] f.kind = "reset" -> [s EXCEPT !.state = "Reset"]

\* handleStreamFrame and handleResetStream, up to the stream's lock.  Frames
\* that will change nothing, having arrived before, are left out.
LookUp(e, f) ==
    /\ Inbound(e, f) /\ f.kind # "close"
    /\ \E id \in findStream(e, f) :
        /\ Delivered(streams[e][id], f) # streams[e][id]
        /\ inbound' = [inbound EXCEPT ![e] = {[id |-> id, frame |-> f]}]
    /\ UNCHANGED <<streams, nextStreamID, incoming, closeVars, net, appCalls>>

Offered(e, id) ==
    IF Len(incoming[e]) < AcceptQueue THEN [incoming EXCEPT ![e] = Append(@, id)] ELSE incoming

\* Data opens a stream that is not known; it is offered to AcceptStream if
\* there is room.
OpenIncoming(e, f) ==
    /\ Inbound(e, f) /\ f.kind = "data" /\ findStream(e, f) = {} /\ f.src # 0
    /\ Add(e, NewStream(f.src, "Open", f.org, connState[e] = "closed"))
    /\ incoming' = Offered(e, nextStreamID[e])
    /\ inbound' = [inbound EXCEPT ![e] = {[id |-> nextStreamID[e], frame |-> f]}]
    /\ UNCHANGED <<closeVars, net, appCalls>>

Deliver(e) ==
    /\ \E d \in inbound[e] : Update(e, d.id, Delivered(streams[e][d.id], d.frame))
    /\ inbound' = [inbound EXCEPT ![e] = {}]
    /\ UNCHANGED <<nextStreamID, incoming, closeVars, net, appCalls>>

(***************************************************************************)
(* closeInternal, by whoever comes first.                                  *)
(***************************************************************************)
CloseFrame(e) ==
    [to |-> Peer(e), dst |-> 0, src |-> 0, kind |-> "close", off |-> 0, org |-> <<e, 0>>]

BeginClose(e, who) ==
    /\ closer[e] = "none"
    /\ closer' = [closer EXCEPT ![e] = who]
    /\ connState' = [connState EXCEPT ![e] = "closing"]
    /\ Send(CloseFrame(e))
    /\ UNCHANGED <<streams, nextStreamID, incoming, toReset, inbound>>

CloseConnection(e) == Called /\ BeginClose(e, "app")

HandleConnectionClose(e) ==
    /\ Inbound(e, CloseFrame(Peer(e)))
    /\ BeginClose(e, "inbound")
    /\ UNCHANGED appCalls

\* Mutant: the streams the application has not accepted are left out.
Collected_Accepted(e) == {id \in Ids(e) : \A i \in 1..Len(incoming[e]) : incoming[e][i] # id}

Collected(e) == Ids(e)

CloseAndCollect(e) ==
    /\ connState[e] = "closing"
    /\ connState' = [connState EXCEPT ![e] = "closed"]
    /\ toReset' = [toReset EXCEPT ![e] = Collected(e)]
    /\ UNCHANGED <<streams, nextStreamID, incoming, closer, inbound, net, appCalls>>

ResetCollected(e, id) ==
    /\ id \in toReset[e]
    /\ Update(e, id, [streams[e][id] EXCEPT !.state = "Reset"])
    /\ toReset' = [toReset EXCEPT ![e] = @ \ {id}]
    /\ UNCHANGED <<nextStreamID, incoming, connState, closer, inbound, net, appCalls>>

EndClose(e) ==
    /\ connState[e] = "closed" /\ toReset[e] = {} /\ closer[e] \in {"app", "inbound"}
    /\ closer' = [closer EXCEPT ![e] = "done"]
    /\ UNCHANGED <<streams, nextStreamID, incoming, connState, toReset, inbound, net, appCalls>>

LifeNext ==
    \E e \in Ends :
        \/ OpenStream(e) \/ AcceptStream(e) \/ CloseConnection(e)
        \/ \E id \in Ids(e) :
            \/ \E place \in {"blocked", "credit"} : Write(e, id, place)
            \/ BlockedWriter(e, id) \/ WriteCredited(e, id)
            \/ Close(e, id) \/ Reset(e, id)
        \/ \E f \in net : LookUp(e, f) \/ OpenIncoming(e, f)
        \/ Deliver(e)
        \/ HandleConnectionClose(e)
        \/ CloseAndCollect(e) \/ EndClose(e)
        \/ \E id \in toReset[e] : ResetCollected(e, id)

LifeSpec == LifeInit /\ [][LifeNext]_lifeVars

-----------------------------------------------------------------------------
LifeTypeOK ==
    /\ \A e \in Ends : \A id \in Ids(e) :
        LET s == streams[e][id]
        IN /\ s.state \in States /\ s.written \in 0..MaxWritten /\ s.recv \subseteq 0..MaxWritten - 1
           /\ s.writer \in {"none", "blocked", "credit"}
    /\ \A e \in Ends :
        /\ \A id \in Ids(e) : id < nextStreamID[e]
        /\ Len(incoming[e]) <= AcceptQueue
        /\ connState[e] \in {"open", "closing", "closed"}
        /\ closer[e] \in {"none", "app", "inbound", "done"}
        /\ toReset[e] \subseteq Ids(e) /\ Cardinality(inbound[e]) <= 1
    /\ appCalls \in 0..MaxAppCalls

\* Frames reach the stream they belong to, by the local ID or by the peer's
\* (handleStreamFrame, findStream), and a stream is opened at each end once,
\* whichever ends open streams and whatever arrives first or twice.
NoCrossTalk ==
    \A e \in Ends :
        /\ \A d \in inbound[e] : streams[e][d.id].org = d.frame.org
        /\ \A i, j \in Ids(e) : streams[e][i].org = streams[e][j].org => i = j

\* A reader that sees the end has had every byte the peer wrote (finishLocked),
\* unless the peer wrote on after its FIN: in a Write that was waiting for
\* credit while Close took the final size, or because a FIN took its side out
\* of Reset again.
EndIsComplete ==
    \A e \in Ends : \A id \in Ids(e), pid \in Ids(Peer(e)) :
        LET s == streams[e][id]  p == streams[Peer(e)][pid]
        IN s.org = p.org /\ s.finReceived /\ ~p.raced /\ ~p.revived => s.recv = 0..p.written - 1

\* Once closeInternal is through, no stream it could collect keeps a reader
\* waiting, nor a writer, unless a FIN that was being delivered took the stream
\* out of Reset again (finishLocked).  Streams that a late frame opened on the
\* closed connection are not among them.
ClosedReleases ==
    \A e \in Ends : \A id \in Ids(e) :
        LET s == streams[e][id]
        IN closer[e] = "done" /\ ~s.late =>
            /\ s.state \in {"Reset", "Closed"} \/ s.finReceived
            /\ s.state \in {"Idle", "Open", "HalfClosedRemote"} => s.revived

=============================================================================
