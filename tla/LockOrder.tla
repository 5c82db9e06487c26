----------------------------- MODULE LockOrder -----------------------------
(***************************************************************************)
(* Who holds which mutex while waiting for which other, over the           *)
(* goroutines of one connection and the read loop of its multiplexer.      *)
(*                                                                         *)
(* A script is the order in which a piece of code takes and releases       *)
(* mutexes; its data is left out.  A critical section that takes no other  *)
(* mutex inside it is a single step, possible when the mutex is free; two  *)
(* in a row of the same mutex count as one.                                *)
(***************************************************************************)
EXTENDS Integers, Sequences, FiniteSets

CONSTANTS
    Goroutines,  \* those running: a subset of the ones in Work
    Nobody

VARIABLES
    todo,        \* goroutine |-> the rest of the script it is running
    holder       \* mutex |-> the goroutine that holds it, or Nobody

vars == <<todo, holder>>

\* c.mu, cc.mu, pm.mu, Pacer.mu, lostMu, ackMu, sendCreditMu, closeOnce and
\* the multiplexer's m.mu.
Mutexes == {"c", "cc", "pm", "pacer", "lost", "ack", "credit", "once", "mux"}

L(m) == <<[op |-> "pass", m |-> m]>>
Holding(m, body) == <<[op |-> "lock", m |-> m]>> \o body \o <<[op |-> "unlock", m |-> m]>>

-----------------------------------------------------------------------------
(***************************************************************************)
(* The scripts.                                                            *)
(***************************************************************************)
lossDelay == L("cc")                             \* SmoothedRtt, LatestRtt
LastSentSeq == Holding("c", L("pm"))             \* lastSentSeqFn
detectLostLocked == Holding("pm", lossDelay)

\* Only the first loss of a recovery epoch asks for the last sequence sent.
OnCongestionEvent(first) == Holding("cc", IF first THEN LastSentSeq \o L("pacer") ELSE <<>>)

\* sendPacket of a control packet: the amplification count and peerAddr.
sendControl == L("c")

\* One packet re-sent: TimeUntilSend, CanSend, Resend, OnPacketSent twice,
\* retransmitPacket.
flushLost(some) ==
    Holding("lost", IF some THEN L("pacer") \o L("cc") \o L("pm") \o L("cc") \o L("pacer") \o L("c")
                    ELSE <<>>)

onPacketsLost(first) ==
    L("cc") \o OnCongestionEvent(first) \o L("cc") \o L("pm") \o L("lost") \o flushLost(TRUE)

probeMTU == L("cc") \o L("pm") \o L("c")

handleAckFrame(lost, first) ==
    L("pm") \o Holding("cc", L("pacer")) \o detectLostLocked
        \o (IF lost THEN onPacketsLost(first) ELSE <<>>)
        \o flushLost(FALSE) \o probeMTU

\* The ACK timer's delay is read from the controller with ackMu held.
noteReceived == Holding("ack", L("cc")) \o sendControl

closeInternal(announce) ==
    Holding("once", L("c") \o L("ack") \o (IF announce THEN sendControl ELSE <<>>)
                      \o L("c") \o L("credit") \o L("lost") \o L("cc") \o L("pm") \o L("mux"))

\* Mutant: the timeout is computed once c.mu is held.
idleExpired_UnderLock == Holding("c", L("cc"))

idleExpired == L("cc") \o L("c")                 \* idleTimeout, then the test

onPtoTimeout == L("cc") \o L("pm") \o L("c") \o L("pacer") \o L("cc")

\* awaitSendCreditUpTo, then prepareDataPacket and writeDatagrams.
WritePacket ==
    Holding("credit", L("pacer") \o L("cc")) \o L("cc")
        \o L("pm") \o L("cc") \o L("pacer") \o L("c")

\* handleDatagram: the lookup, then observeAddr.
handleDatagram == L("mux") \o L("c")

\* What each goroutine may be asked to do.
Work(g) ==
    CASE g = "inbound"  -> {L("c") \o noteReceived, L("c") \o closeInternal(TRUE)}
                             \cup {L("c") \o handleAckFrame(lost, first) : lost, first \in BOOLEAN}
      [] g = "loss"     -> {detectLostLocked} \cup {detectLostLocked \o onPacketsLost(first) : first \in BOOLEAN}
      [] g = "pacer"    -> {flushLost(some) : some \in BOOLEAN}
      [] g = "pto"      -> {onPtoTimeout}
      [] g = "writer"   -> {WritePacket}
      [] g = "idle"     -> {idleExpired \o L("c"), idleExpired \o closeInternal(FALSE)}
      [] g = "readLoop" -> {handleDatagram}

-----------------------------------------------------------------------------
Init ==
    /\ todo = [g \in Goroutines |-> <<>>]
    /\ holder = [m \in Mutexes |-> Nobody]

Start(g) ==
    /\ todo[g] = <<>>
    /\ \E script \in Work(g) : todo' = [todo EXCEPT ![g] = script]
    /\ UNCHANGED holder

Step(g) ==
    /\ todo[g] # <<>>
    /\ LET do == Head(todo[g])
       IN  \/ /\ do.op = "pass" /\ holder[do.m] = Nobody
              /\ UNCHANGED holder
           \/ /\ do.op = "lock" /\ holder[do.m] = Nobody
              /\ holder' = [holder EXCEPT ![do.m] = g]
           \/ /\ do.op = "unlock"
              /\ holder' = [holder EXCEPT ![do.m] = Nobody]
    /\ todo' = [todo EXCEPT ![g] = Tail(@)]

Next == \E g \in Goroutines : Start(g) \/ Step(g)

Spec == Init /\ [][Next]_vars

\* A goroutine that can go on does, and Go's mutexes do not starve a waiter.
FairSpec == Spec /\ \A g \in Goroutines : SF_vars(Step(g))

-----------------------------------------------------------------------------
\* No goroutines wait for each other's mutexes in a circle, whatever they are
\* doing and however they overlap.
Awaits(g, h) ==
    /\ todo[g] # <<>>
    /\ Head(todo[g]).op # "unlock"
    /\ holder[Head(todo[g]).m] = h

NoWaitCycle ==
    \A S \in SUBSET Goroutines \ {{}} : \E g \in S : \A h \in S : ~Awaits(g, h)

\* The read loop never waits on a connection: readLoop's comment has it that
\* it does not take "a connection's locks".
ReadLoopServes == (todo["readLoop"] # <<>>) ~> (todo["readLoop"] = <<>>)

=============================================================================
