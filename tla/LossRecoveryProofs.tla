------------------------- MODULE LossRecoveryProofs -------------------------
(***************************************************************************)
(* Proofs about LossRecovery, for any number of writers and PTO callbacks  *)
(* and any interleaving of their critical sections: a packet is tracked    *)
(* once, an ACK frees what it names, unacknowledged data is always held.   *)
(***************************************************************************)
EXTENDS LossRecovery, ListLemmas

Labels == {"idle", "register", "book", "transmit", "acked", "detect", "lost",
           "queue", "enter", "flush", "expired", "pick", "probe"}

Ids == 1..Len(pkts)

Packets == [seq : Nat, isAcked : BOOLEAN, size : Nat \ {0}, carries : SUBSET Nat]

Types ==
    /\ pkts \in Seq(Packets)
    /\ nextSeq \in Nat /\ chunks \in Nat
    /\ DOMAIN sentPackets \subseteq 0..(nextSeq - 1)
    /\ sentPackets \in [DOMAIN sentPackets -> Ids]
    /\ DOMAIN wire \subseteq 0..(nextSeq - 1)
    /\ lostQueue \in Seq(Ids)
    /\ pc \in [Procs -> Labels]
    /\ hand \in [Procs -> Seq(Ids)]
    /\ num \in [Procs -> Nat]

\* A goroutine that has taken a sequence and not yet used it on the wire.
Carrying(p) == pc[p] \in {"register", "book", "transmit"}

\* The sequence it has taken names no other packet than the one in hand, and
\* nothing has gone out under it.
OwnNumber(p) ==
    /\ Len(hand[p]) = 1 /\ num[p] < nextSeq /\ num[p] \notin DOMAIN wire
    /\ num[p] \in DOMAIN sentPackets => sentPackets[num[p]] = hand[p][1]

Numbered ==
    /\ \A p \in Procs : Carrying(p) => OwnNumber(p)
    /\ \A p, q \in Procs : Carrying(p) /\ Carrying(q) /\ num[p] = num[q] => p = q

IsTracked(i) == \E s \in DOMAIN sentPackets : sentPackets[s] = i

\* A packet on its way to being tracked is known to its writer alone.
Unshared(i, p) ==
    ~IsTracked(i) /\ ~Among(i, lostQueue) /\ \A q \in Procs \ {p} : ~Among(i, hand[q])

Registers(p, i) ==
    /\ i = hand[p][1] /\ Unshared(i, p)
    /\ pkts[i].seq = num[p] /\ ~pkts[i].isAcked /\ num[p] \notin DOMAIN sentPackets

Registering == \A p \in Procs : pc[p] = "register" => \E i \in Ids : Registers(p, i)

\* The packets somebody will act on: tracked, queued, or in the hands of a
\* goroutine that has still to track or queue them.
Keeps(p) == pc[p] \in {"register", "lost", "queue", "probe"}

Held(i) ==
    IsTracked(i) \/ Among(i, lostQueue) \/ \E p \in Procs : Keeps(p) /\ Among(i, hand[p])

Covered ==
    \A c \in (1..chunks) \ acked :
        \E i \in Ids : Held(i) /\ c \in pkts[i].carries /\ ~pkts[i].isAcked

RecoveryInv ==
    /\ Types /\ TrackedOnce /\ Numbered /\ Registering /\ AckFreesWhatItNames /\ Covered

-----------------------------------------------------------------------------
(***************************************************************************)
(* Every interleaving.                                                     *)
(***************************************************************************)

\* What the types say of one packet, one queue and one goroutine.
LEMMA TypeFacts ==
    ASSUME Types
    PROVE  /\ Len(pkts) \in Nat
           /\ \A i \in Ids : /\ pkts[i] \in Packets /\ pkts[i].seq \in Nat
                             /\ pkts[i].size \in Nat \ {0} /\ pkts[i].isAcked \in BOOLEAN
                             /\ pkts[i].carries \subseteq Nat
           /\ \A s \in DOMAIN sentPackets : s \in Nat /\ s < nextSeq /\ sentPackets[s] \in Ids
           /\ \A s \in DOMAIN wire : s \in Nat /\ s < nextSeq
           /\ Len(lostQueue) \in Nat /\ \A k \in 1..Len(lostQueue) : lostQueue[k] \in Ids
           /\ \A p \in Procs : /\ pc[p] \in Labels /\ hand[p] \in Seq(Ids) /\ num[p] \in Nat
                               /\ Len(hand[p]) \in Nat
                               /\ \A k \in 1..Len(hand[p]) : hand[p][k] \in Ids
<1>1. Len(pkts) \in Nat
  BY DEF Types
<1>2. \A i \in Ids : /\ pkts[i] \in Packets /\ pkts[i].seq \in Nat
                     /\ pkts[i].size \in Nat \ {0} /\ pkts[i].isAcked \in BOOLEAN
                     /\ pkts[i].carries \subseteq Nat
  <2>1. \A i \in Ids : pkts[i] \in Packets
    BY DEF Types, Ids
  <2>2. \A x \in Packets : /\ x.seq \in Nat /\ x.size \in Nat \ {0} /\ x.isAcked \in BOOLEAN
                           /\ x.carries \subseteq Nat
    BY DEF Packets
  <2> QED BY <2>1, <2>2 DEF Types
<1>3. \A s \in DOMAIN sentPackets : s \in Nat /\ s < nextSeq /\ sentPackets[s] \in Ids
  BY DEF Types
<1>4. \A s \in DOMAIN wire : s \in Nat /\ s < nextSeq
  BY DEF Types
<1>5. Len(lostQueue) \in Nat /\ \A k \in 1..Len(lostQueue) : lostQueue[k] \in Ids
  BY DEF Types
<1>6. \A p \in Procs : /\ pc[p] \in Labels /\ hand[p] \in Seq(Ids) /\ num[p] \in Nat
  BY DEF Types
<1>7. \A q \in Seq(Ids) : Len(q) \in Nat /\ \A k \in 1..Len(q) : q[k] \in Ids
  OBVIOUS
<1> QED BY <1>1, <1>2, <1>3, <1>4, <1>5, <1>6, <1>7

\* Goroutine q keeps its sequence through a step; p takes one of its own.
KeepsNumber(q) ==
    /\ Carrying(q) /\ hand'[q] = hand[q] /\ num'[q] = num[q]
    /\ num[q] < nextSeq' /\ num[q] \notin DOMAIN wire'
    /\ num[q] \in DOMAIN sentPackets' =>
         num[q] \in DOMAIN sentPackets /\ sentPackets'[num[q]] = sentPackets[num[q]]

TakesNumber(p) ==
    OwnNumber(p)' /\ \A q \in Procs : q # p /\ Carrying(q) => num[q] # num'[p]

\* Goroutine p apart, those with a sequence of their own still have it.
LEMMA StillNumbered ==
    ASSUME Numbered, NEW p \in Procs,
           \A q \in Procs : q # p /\ Carrying(q)' => KeepsNumber(q),
           Carrying(p)' => TakesNumber(p)
    PROVE  Numbered'
<1> USE DEF KeepsNumber, TakesNumber
<1>1. ASSUME NEW q \in Procs, q # p, Carrying(q)' PROVE OwnNumber(q)'
  <2>1. OwnNumber(q) /\ hand'[q] = hand[q] /\ num'[q] = num[q]
    BY <1>1, Zenon DEF Numbered
  <2>2. /\ num[q] < nextSeq' /\ num[q] \notin DOMAIN wire'
        /\ num[q] \in DOMAIN sentPackets' =>
             num[q] \in DOMAIN sentPackets /\ sentPackets'[num[q]] = sentPackets[num[q]]
    BY <1>1, Zenon
  <2> QED BY <2>1, <2>2, Zenon DEF OwnNumber
<1>2. \A q \in Procs : Carrying(q)' => OwnNumber(q)'
  BY <1>1, Zenon
<1>3. ASSUME NEW q \in Procs, NEW r \in Procs, Carrying(q)', Carrying(r)', num'[q] = num'[r]
      PROVE  q = r
  <2>1. CASE q # p /\ r # p
    BY <1>3, <2>1, Zenon DEF Numbered
  <2>2. CASE q = p \/ r = p
    BY <1>3, <2>2, Zenon
  <2> QED BY <2>1, <2>2, Zenon
<1> QED BY <1>2, <1>3, Zenon DEF Numbered

\* Packet j stays goroutine q's alone through a step.
KeepsPacket(q, j) ==
    /\ j \in Ids' /\ pkts'[j].seq = pkts[j].seq /\ pkts'[j].isAcked = pkts[j].isAcked
    /\ num[q] \notin DOMAIN sentPackets' /\ Unshared(j, q)'

\* Goroutine p apart, those on their way to track a packet still have it to
\* themselves.
LEMMA StillRegistering ==
    ASSUME Registering, NEW p \in Procs,
           \A q \in Procs : q # p /\ pc'[q] = "register" =>
                pc[q] = "register" /\ hand'[q] = hand[q] /\ num'[q] = num[q],
           \A q \in Procs, j \in Ids : q # p /\ pc[q] = "register" /\ Registers(q, j)
                => KeepsPacket(q, j),
           pc'[p] = "register" => \E i \in Ids' : Registers(p, i)'
    PROVE  Registering'
<1> USE DEF KeepsPacket
<1>1. ASSUME NEW q \in Procs, q # p, pc'[q] = "register" PROVE \E j \in Ids' : Registers(q, j)'
  <2>1. pc[q] = "register" /\ hand'[q] = hand[q] /\ num'[q] = num[q]
    BY <1>1, Zenon
  <2>2. PICK j \in Ids : Registers(q, j)
    BY <2>1, Zenon DEF Registering
  <2>3. /\ j \in Ids' /\ pkts'[j].seq = pkts[j].seq /\ pkts'[j].isAcked = pkts[j].isAcked
        /\ num[q] \notin DOMAIN sentPackets' /\ Unshared(j, q)'
    BY <2>1, <2>2, <1>1, Zenon
  <2>4. j = hand[q][1] /\ pkts[j].seq = num[q] /\ ~pkts[j].isAcked
    BY <2>2, Zenon DEF Registers
  <2>5. ~pkts'[j].isAcked /\ pkts'[j].seq = num'[q] /\ j = hand'[q][1]
    BY <2>1, <2>3, <2>4
  <2>6. Registers(q, j)'
    BY <2>1, <2>3, <2>5, Zenon DEF Registers
  <2> QED BY <2>3, <2>6, Zenon
<1> QED BY <1>1, Zenon DEF Registering

\* Every packet that holds unacknowledged data still does.
LEMMA StillCovered ==
    ASSUME Covered, chunks' = chunks, acked' = acked,
           \A i \in Ids : Held(i) /\ ~pkts[i].isAcked =>
                /\ i \in Ids' /\ Held(i)' /\ pkts'[i].carries = pkts[i].carries
                /\ pkts'[i].isAcked = pkts[i].isAcked
    PROVE  Covered'
<1> SUFFICES ASSUME NEW c \in (1..chunks') \ acked'
             PROVE  \E i \in Ids' : Held(i)' /\ c \in pkts'[i].carries /\ ~pkts'[i].isAcked
  BY Zenon DEF Covered
<1>1. c \in (1..chunks) \ acked
  OBVIOUS
<1>2. PICK i \in Ids : Held(i) /\ c \in pkts[i].carries /\ ~pkts[i].isAcked
  BY <1>1, Zenon DEF Covered
<1> QED BY <1>2, Zenon

\* What is tracked is tracked as before.
LEMMA StillTracked ==
    ASSUME Types, TrackedOnce, AckFreesWhatItNames,
           \A s \in DOMAIN sentPackets' :
                /\ s \in DOMAIN sentPackets /\ sentPackets'[s] = sentPackets[s]
                /\ s \in DOMAIN wire' => s \in DOMAIN wire /\ wire'[s] = wire[s],
           \A i \in Ids : pkts'[i].seq = pkts[i].seq /\ pkts'[i].carries = pkts[i].carries,
           \A s \in DOMAIN sentPackets', i \in Ids :
                sentPackets[s] = i => pkts'[i].isAcked = pkts[i].isAcked
    PROVE  /\ TrackedOnce' /\ AckFreesWhatItNames'
           /\ \A i : IsTracked(i)' => IsTracked(i)
<1>1. ASSUME NEW s \in DOMAIN sentPackets'
      PROVE  /\ pkts'[sentPackets'[s]].seq = s /\ ~pkts'[sentPackets'[s]].isAcked
             /\ s \in DOMAIN wire' => wire'[s] = pkts'[sentPackets'[s]].carries
  <2>1. PICK i \in Ids : i = sentPackets[s] /\ sentPackets'[s] = i /\ s \in DOMAIN sentPackets
    BY TypeFacts, Zenon
  <2>2. pkts[i].seq = s /\ ~pkts[i].isAcked /\ (s \in DOMAIN wire => wire[s] = pkts[i].carries)
    BY <2>1 DEF TrackedOnce, AckFreesWhatItNames
  <2>3. /\ pkts'[i].seq = s /\ ~pkts'[i].isAcked
        /\ s \in DOMAIN wire' => wire'[s] = pkts'[i].carries
    BY <2>1, <2>2, Zenon
  <2> QED BY <2>1, <2>3, Zenon
<1>2. AckFreesWhatItNames'
  BY <1>1, Zenon DEF AckFreesWhatItNames
<1>3. \A s, t \in DOMAIN sentPackets' : sentPackets'[s] = sentPackets'[t] => s = t
  BY Zenon DEF TrackedOnce
<1>4. \A i : IsTracked(i)' => IsTracked(i)
  BY Zenon DEF IsTracked
<1> QED BY <1>1, <1>2, <1>3, <1>4, Zenon DEF TrackedOnce

\* A goroutine goes on with the packets it has, with tracked ones, or without
\* any: nobody loses track of a packet.
LEMMA QuietStep ==
    ASSUME RecoveryInv, NEW p \in Procs, NEW l \in Labels \ {"register"}, NEW h \in Seq(Ids),
           UNCHANGED <<pkts, sentPackets, nextSeq, lostQueue, wire, acked, chunks, num>>,
           pc' = [pc EXCEPT ![p] = l], hand' = [hand EXCEPT ![p] = h],
           l \in {"book", "transmit"} => Carrying(p) /\ h = hand[p],
           \A i : Among(i, h) => IsTracked(i) \/ Among(i, hand[p]),
           Keeps(p) => hand[p] = <<>> \/ (l \in {"lost", "queue", "probe"} /\ h = hand[p])
    PROVE  RecoveryInv'
<1> USE DEF RecoveryInv
<1>1. Ids' = Ids /\ \A i : IsTracked(i)' <=> IsTracked(i)
  BY DEF Ids, IsTracked
<1>2. Types'
  BY <1>1 DEF Types
<1>3. TrackedOnce' /\ AckFreesWhatItNames'
  BY DEF TrackedOnce, AckFreesWhatItNames
<1>4. /\ \A q \in Procs : q # p => pc'[q] = pc[q] /\ hand'[q] = hand[q]
      /\ pc'[p] = l /\ hand'[p] = h
  BY DEF Types
<1>5. Numbered'
  <2>1. \A q \in Procs : q # p /\ Carrying(q)' => Carrying(q) /\ hand'[q] = hand[q]
    BY <1>4, Zenon DEF Carrying
  <2>2. Carrying(p)' => Carrying(p) /\ hand'[p] = hand[p]
    BY <1>4 DEF Carrying
  <2>3. \A q \in Procs : Carrying(q) => OwnNumber(q)
    BY Zenon DEF Numbered
  <2>4. \A q \in Procs : q # p /\ Carrying(q)' => KeepsNumber(q)
    BY <2>1, <2>3, Zenon DEF OwnNumber, KeepsNumber
  <2>5. Carrying(p)' => OwnNumber(p)'
    BY <2>2, <2>3, Zenon DEF OwnNumber
  <2>6. Carrying(p)' => TakesNumber(p)
    BY <2>2, <2>5, Zenon DEF Numbered, TakesNumber
  <2> QED BY <2>4, <2>6, StillNumbered, Zenon
<1>6. Registering'
  <2>1. ASSUME NEW q \in Procs, NEW j \in Ids, q # p, Registers(q, j) PROVE KeepsPacket(q, j)
    <3>1. Unshared(j, q)'
      <4>1. ~IsTracked(j) /\ ~Among(j, lostQueue) /\ \A r \in Procs \ {q} : ~Among(j, hand[r])
        BY <2>1, Zenon DEF Registers, Unshared
      <4>2. ~IsTracked(j)'
        BY <4>1, <1>1, Zenon
      <4>3. ~Among(j, lostQueue')
        BY <4>1, Zenon
      <4>4. \A r \in Procs \ {q} : ~Among(j, hand'[r])
        BY <4>1, <2>1, <1>4, Zenon
      <4> QED BY <4>2, <4>3, <4>4, Zenon DEF Unshared
    <3> QED BY <2>1, <3>1, <1>1, Zenon DEF Registers, KeepsPacket
  <2> QED BY <2>1, <1>4, StillRegistering, Zenon
<1>7. Covered'
  <2>1. ASSUME NEW q \in Procs, NEW i \in Ids, Keeps(q), Among(i, hand[q])
        PROVE  Keeps(q)' /\ hand'[q] = hand[q]
    <3>1. hand[q] # <<>>
      BY <2>1 DEF Among
    <3> QED BY <2>1, <3>1, <1>4 DEF Keeps
  <2>2. \A i \in Ids : Held(i) => Held(i)'
    BY <2>1, <1>1, Zenon DEF Held
  <2> QED BY <2>2, <1>1, StillCovered, Zenon
<1> QED BY <1>2, <1>3, <1>5, <1>6, <1>7

\* A queue of packets is still one when there are more packets.
LEMMA SeqGrows ==
    ASSUME NEW m \in Nat, NEW n \in Nat, m <= n, NEW q \in Seq(1..m)
    PROVE  q \in Seq(1..n)
  OBVIOUS

\* A list of tracked packets, lowest sequence first.
LEMMA ProbesTracked ==
    ASSUME Types, NEW S \in SUBSET DOMAIN sentPackets, NEW w \in Sorted(S)
    PROVE  /\ Len(w) \in Nat /\ DOMAIN w = 1..Len(w)
           /\ InOrder(w) \in Seq(Ids) /\ Len(InOrder(w)) = Len(w)
           /\ \A k \in 1..Len(w) : w[k] \in S /\ InOrder(w)[k] = sentPackets[w[k]]
           /\ \A j, k \in 1..Len(w) : w[j] = w[k] => j = k
           /\ \A s \in S : \E k \in 1..Len(w) : w[k] = s
           /\ \A i : Among(i, InOrder(w)) <=> \E s \in S : sentPackets[s] = i
<1>1. S \subseteq Int
  BY TypeFacts
<1>2. /\ Len(w) \in Nat /\ DOMAIN w = 1..Len(w)
      /\ \A k \in 1..Len(w) : w[k] \in S
      /\ \A j, k \in 1..Len(w) : w[j] = w[k] => j = k
      /\ \A s \in S : \E k \in 1..Len(w) : w[k] = s
  BY <1>1, SortedLists, Zenon
<1>3. InOrder(w) \in [1..Len(w) -> Ids] /\ \A k \in 1..Len(w) : InOrder(w)[k] = sentPackets[w[k]]
  BY <1>2, TypeFacts DEF InOrder
<1>4. InOrder(w) \in Seq(Ids) /\ Len(InOrder(w)) = Len(w)
  BY <1>2, <1>3, IsSequence
<1>5. \A i : Among(i, InOrder(w)) <=> \E s \in S : sentPackets[s] = i
  <2>1. ASSUME NEW i, Among(i, InOrder(w)) PROVE \E s \in S : sentPackets[s] = i
    <3>1. PICK k \in 1..Len(w) : InOrder(w)[k] = i
      BY <2>1, <1>4 DEF Among
    <3> QED BY <3>1, <1>2, <1>3
  <2>2. ASSUME NEW s \in S PROVE Among(sentPackets[s], InOrder(w))
    <3>1. PICK k \in 1..Len(w) : w[k] = s
      BY <1>2, Zenon
    <3>2. InOrder(w)[k] = sentPackets[s]
      BY <3>1, <1>3
    <3> QED BY <3>2, <1>4 DEF Among
  <2> QED BY <2>1, <2>2, Zenon
<1> QED BY <1>2, <1>3, <1>4, <1>5

\* The quiet steps: booking, acknowledging and losing bytes, timers, and the
\* choice of probes.
LEMMA QuietSteps ==
    ASSUME RecoveryInv, NEW p \in Procs,
           \/ OnPacketSent(p) \/ OnPacketAcked \/ LossTimerFires \/ PacerFires
           \/ OnPacketLost(p) \/ EnterFlush(p) \/ FlushStop(p)
           \/ PtoFires(p) \/ PtoExpired(p) \/ PickProbes(p) \/ RearmPto(p)
    PROVE  RecoveryInv'
<1>0. Types /\ Inbound \in Procs /\ Loss \in Procs /\ Pacer \in Procs
  BY DEF RecoveryInv, Procs
<1>1. hand \in [Procs -> Seq(Ids)] /\ <<>> \in Seq(Ids)
  BY <1>0 DEF Types
<1>2. \A q \in Procs : hand = [hand EXCEPT ![q] = hand[q]] /\ hand[q] \in Seq(Ids)
  BY <1>1
<1> USE DEF Goto, pmVars, netVars, lostVars, ccVars
<1>3. CASE OnPacketSent(p)
  <2>1. /\ UNCHANGED <<pkts, sentPackets, nextSeq, lostQueue, wire, acked, chunks, num, hand>>
        /\ pc[p] = "book" /\ pc' = [pc EXCEPT ![p] = "transmit"]
    BY <1>3 DEF OnPacketSent
  <2> QED BY <2>1, <1>2, QuietStep, Zenon DEF Carrying, Keeps, Labels
<1>4. CASE OnPacketAcked
  <2>1. /\ UNCHANGED <<pkts, sentPackets, nextSeq, lostQueue, wire, acked, chunks, num>>
        /\ hand' = [hand EXCEPT ![Inbound] = <<>>]
        /\ pc[Inbound] = "acked" /\ pc' = [pc EXCEPT ![Inbound] = "detect"]
    BY <1>4 DEF OnPacketAcked
  <2>2. PICK h \in Seq(Ids) : h = <<>>
    BY <1>1, Zenon
  <2>4. \A i : ~Among(i, h)
    BY <2>2, AmongFew, Zenon
  <2> QED BY <2>1, <2>2, <2>4, <1>0, QuietStep, Zenon DEF Carrying, Keeps, Labels
<1>5. CASE LossTimerFires
  <2>1. /\ UNCHANGED <<pkts, sentPackets, nextSeq, lostQueue, wire, acked, chunks, num, hand>>
        /\ pc[Loss] = "idle" /\ pc' = [pc EXCEPT ![Loss] = "detect"]
    BY <1>5 DEF LossTimerFires, MayStart
  <2> QED BY <2>1, <1>0, <1>2, QuietStep, Zenon DEF Carrying, Keeps, Labels
<1>6. CASE PacerFires
  <2>1. /\ UNCHANGED <<pkts, sentPackets, nextSeq, lostQueue, wire, acked, chunks, num, hand>>
        /\ pc[Pacer] = "idle" /\ pc' = [pc EXCEPT ![Pacer] = "enter"]
    BY <1>6 DEF PacerFires, MayStart
  <2> QED BY <2>1, <1>0, <1>2, QuietStep, Zenon DEF Carrying, Keeps, Labels
<1>7. CASE OnPacketLost(p)
  <2>1. /\ UNCHANGED <<pkts, sentPackets, nextSeq, lostQueue, wire, acked, chunks, num, hand>>
        /\ pc[p] = "lost" /\ pc' = [pc EXCEPT ![p] = "queue"]
    BY <1>7 DEF OnPacketLost
  <2> QED BY <2>1, <1>2, QuietStep, Zenon DEF Carrying, Keeps, Labels
<1>8. CASE EnterFlush(p)
  <2>1. /\ UNCHANGED <<pkts, sentPackets, nextSeq, lostQueue, wire, acked, chunks, num, hand>>
        /\ pc[p] = "enter" /\ pc' = [pc EXCEPT ![p] = "flush"]
    BY <1>8 DEF EnterFlush
  <2> QED BY <2>1, <1>2, QuietStep, Zenon DEF Carrying, Keeps, Labels
<1>9. CASE FlushStop(p)
  <2>1. /\ UNCHANGED <<pkts, sentPackets, nextSeq, lostQueue, wire, acked, chunks, num, hand>>
        /\ pc[p] = "flush" /\ pc' = [pc EXCEPT ![p] = "idle"]
    BY <1>9 DEF FlushStop
  <2> QED BY <2>1, <1>2, QuietStep, Zenon DEF Carrying, Keeps, Labels
<1>10. CASE PtoFires(p)
  <2>1. /\ UNCHANGED <<pkts, sentPackets, nextSeq, lostQueue, wire, acked, chunks, num, hand>>
        /\ pc[p] = "idle" /\ pc' = [pc EXCEPT ![p] = "expired"]
    BY <1>10 DEF PtoFires, MayStart
  <2> QED BY <2>1, <1>2, QuietStep, Zenon DEF Carrying, Keeps, Labels
<1>11. CASE PtoExpired(p)
  <2>1. /\ UNCHANGED <<pkts, sentPackets, nextSeq, lostQueue, wire, acked, chunks, num, hand>>
        /\ pc[p] = "expired" /\ pc' = [pc EXCEPT ![p] = "pick"]
    BY <1>11 DEF PtoExpired
  <2> QED BY <2>1, <1>2, QuietStep, Zenon DEF Carrying, Keeps, Labels
<1>12. CASE PickProbes(p)
  <2>0. PICK oldest \in SUBSET DOMAIN sentPackets :
            \E w \in Sorted(oldest) : hand' = [hand EXCEPT ![p] = InOrder(w)]
    BY <1>12, Zenon DEF PickProbes
  <2>1. PICK w \in Sorted(oldest) : hand' = [hand EXCEPT ![p] = InOrder(w)]
    BY <2>0, Zenon
  <2>2. /\ UNCHANGED <<pkts, sentPackets, nextSeq, lostQueue, wire, acked, chunks, num>>
        /\ pc[p] = "pick" /\ pc' = [pc EXCEPT ![p] = "probe"]
    BY <1>12 DEF PickProbes
  <2>3. InOrder(w) \in Seq(Ids) /\ \A i : Among(i, InOrder(w)) => IsTracked(i)
    BY <1>0, ProbesTracked DEF IsTracked
  <2> QED BY <2>1, <2>2, <2>3, QuietStep, Zenon DEF Carrying, Keeps, Labels
<1>13. CASE RearmPto(p)
  <2>1. /\ UNCHANGED <<pkts, sentPackets, nextSeq, lostQueue, wire, acked, chunks, num, hand>>
        /\ pc[p] = "probe" /\ hand[p] = <<>> /\ pc' = [pc EXCEPT ![p] = "idle"]
    BY <1>13, Zenon DEF RearmPto
  <2> QED BY <2>1, <1>2, QuietStep, Zenon DEF Carrying, Keeps, Labels
<1> QED BY <1>3, <1>4, <1>5, <1>6, <1>7, <1>8, <1>9, <1>10, <1>11, <1>12, <1>13

-----------------------------------------------------------------------------
\* A new packet, in a writer's hands.
LEMMA PrepareStep ==
    ASSUME RecoveryInv, NEW p \in Procs, PrepareDataPacket(p)
    PROVE  RecoveryInv'
<1> USE DEF RecoveryInv
<1>0. PICK n \in {1, 2}, isFin \in {FALSE, ~overlaps} :
        /\ pkts' = Append(pkts, [seq |-> nextSeq, isAcked |-> FALSE,
                                 size |-> HeaderSize + (IF isFin THEN 0 ELSE n),
                                 carries |-> (chunks + 1)..(chunks + n)])
        /\ chunks' = chunks + n
  BY Zenon DEF PrepareDataPacket
<1>1. /\ nextSeq' = nextSeq + 1 /\ hand' = [hand EXCEPT ![p] = <<Len(pkts')>>]
      /\ num' = [num EXCEPT ![p] = nextSeq]
      /\ pc[p] = "idle" /\ pc' = [pc EXCEPT ![p] = "register"]
      /\ UNCHANGED <<sentPackets, lostQueue, wire, acked>>
  BY DEF PrepareDataPacket, MayStart, Goto, lostVars
<1>2. PICK m \in Nat : m = Len(pkts)
  BY TypeFacts
<1>3. PICK x \in Packets : /\ pkts' = Append(pkts, x) /\ x.seq = nextSeq /\ ~x.isAcked
                           /\ x.carries = (chunks + 1)..(chunks + n)
  <2>1. PICK size : size = HeaderSize + (IF isFin THEN 0 ELSE n)
    BY Zenon
  <2>2. size \in Nat \ {0}
    BY <2>1, HeaderAssumption
  <2>3. PICK new : new = (chunks + 1)..(chunks + n)
    BY Zenon
  <2>4. new \in SUBSET Nat
    BY <2>3 DEF Types
  <2>5. PICK x : x = [seq |-> nextSeq, isAcked |-> FALSE, size |-> size, carries |-> new]
    BY Zenon
  <2>6. x \in Packets /\ x.seq = nextSeq /\ ~x.isAcked /\ x.carries = new
    BY <2>2, <2>4, <2>5 DEF Types, Packets
  <2> QED BY <2>1, <2>3, <2>5, <2>6, <1>0
<1>4. /\ Len(pkts') = m + 1 /\ pkts' \in Seq(Packets) /\ pkts'[m + 1] = x
      /\ \A i \in Ids : pkts'[i] = pkts[i]
      /\ Ids' = 1..(m + 1) /\ Ids = 1..m /\ m + 1 \notin Ids
  BY <1>2, <1>3 DEF Types, Ids
<1>5. /\ \A q \in Procs : q # p => pc'[q] = pc[q] /\ hand'[q] = hand[q] /\ num'[q] = num[q]
      /\ pc'[p] = "register" /\ hand'[p] = <<m + 1>> /\ num'[p] = nextSeq
  BY <1>1, <1>4 DEF Types
<1>6. Types'
  <2>1. nextSeq \in Nat /\ chunks \in Nat /\ pc \in [Procs -> Labels] /\ num \in [Procs -> Nat]
    BY DEF Types
  <2>2. nextSeq' \in Nat /\ chunks' \in Nat
    BY <2>1, <1>0, <1>1
  <2>3. num' \in [Procs -> Nat] /\ pc' \in [Procs -> Labels]
    BY <2>1, <1>1 DEF Labels
  <2>4. DOMAIN sentPackets' \subseteq 0..(nextSeq' - 1) /\ DOMAIN wire' \subseteq 0..(nextSeq' - 1)
    BY <2>1, <1>1, TypeFacts
  <2>5. sentPackets' \in [DOMAIN sentPackets' -> Ids']
    BY <1>1, <1>4 DEF Types
  <2>6. \A q \in Seq(Ids) : q \in Seq(Ids')
    BY <1>4, SeqGrows
  <2>7. lostQueue' \in Seq(Ids')
    BY <2>6, <1>1, Zenon DEF Types
  <2>8. <<m + 1>> \in Seq(Ids') /\ \A q \in Procs : hand[q] \in Seq(Ids')
    BY <2>6, <1>4, TypeFacts
  <2>9. hand' \in [Procs -> Seq(Ids')]
    BY <2>8, <1>1, <1>4, Zenon DEF Types
  <2> QED BY <2>2, <2>3, <2>4, <2>5, <2>7, <2>9, <1>4, Zenon DEF Types
<1>7. /\ TrackedOnce' /\ AckFreesWhatItNames'
      /\ \A i : IsTracked(i)' => IsTracked(i)
  BY <1>1, <1>4, StillTracked, Zenon
<1>8. Numbered'
  <2>1. nextSeq \notin DOMAIN wire /\ nextSeq \notin DOMAIN sentPackets /\ Len(<<m + 1>>) = 1
    BY TypeFacts DEF Types
  <2>2. \A q \in Procs : num[q] < nextSeq => num[q] # nextSeq /\ num[q] < nextSeq'
    <3>1. nextSeq \in Nat /\ nextSeq' = nextSeq + 1 /\ \A q \in Procs : num[q] \in Nat
      BY <1>1, TypeFacts, Zenon DEF Types
    <3>2. \A n1, n2 \in Nat : n1 < n2 => n1 # n2 /\ n1 < n2 + 1
      OBVIOUS
    <3> QED BY <3>1, <3>2, Zenon
  <2>3. nextSeq < nextSeq'
    BY <1>1 DEF Types
  <2>4. \A q \in Procs : q # p /\ Carrying(q)' => Carrying(q)
    BY <1>5, Zenon DEF Carrying
  <2>5. \A q \in Procs : Carrying(q) => OwnNumber(q)
    BY Zenon DEF Numbered
  <2>6. OwnNumber(p)'
    BY <2>1, <2>3, <1>1, <1>5, Zenon DEF OwnNumber
  <2>7. TakesNumber(p)
    BY <2>2, <2>5, <2>6, <1>5, Zenon DEF OwnNumber, TakesNumber
  <2>8. \A q \in Procs : q # p /\ Carrying(q)' => KeepsNumber(q)
    BY <2>2, <2>4, <2>5, <1>1, <1>5, Zenon DEF OwnNumber, KeepsNumber
  <2> QED BY <2>7, <2>8, StillNumbered, Zenon
<1>9. /\ \A j : Among(j, hand'[p]) <=> j = m + 1
      /\ \A q \in Procs : q # p => hand'[q] = hand[q]
  <2>1. \A j : Among(j, <<m + 1>>) <=> j = m + 1
    BY AmongFew, Zenon
  <2> QED BY <2>1, <1>5, Zenon
<1>10. Registering'
  <2>1. ASSUME NEW q \in Procs, NEW j \in Ids, q # p, Registers(q, j)
        PROVE  KeepsPacket(q, j)
    <3>1. j # m + 1 /\ j \in Ids'
      BY <1>4
    <3>2. Unshared(j, q)'
      BY <2>1, <3>1, <1>1, <1>7, <1>9, Zenon DEF Registers, Unshared
    <3> QED BY <2>1, <3>1, <3>2, <1>1, <1>4, Zenon DEF Registers, KeepsPacket
  <2>2. Registers(p, m + 1)'
    <3>1. ~IsTracked(m + 1) /\ ~Among(m + 1, lostQueue) /\ \A q \in Procs : ~Among(m + 1, hand[q])
      <4>1. m + 1 \notin Ids /\ lostQueue \in Seq(Ids)
        BY <1>4, Zenon DEF Types
      <4>2. ~IsTracked(m + 1)
        BY <4>1, TypeFacts, Zenon DEF IsTracked
      <4>3. \A q \in Procs : hand[q] \in Seq(Ids)
        BY TypeFacts, Zenon
      <4> QED BY <4>1, <4>2, <4>3, AmongSeq, Zenon
    <3>2. Unshared(m + 1, p)'
      BY <3>1, <1>1, <1>7, <1>9, Zenon DEF Unshared
    <3>3. hand'[p][1] = m + 1 /\ nextSeq \notin DOMAIN sentPackets
      BY <1>5, TypeFacts DEF Types
    <3> QED BY <3>2, <3>3, <1>1, <1>3, <1>4, <1>5, Zenon DEF Registers
  <2>3. m + 1 \in Ids'
    BY <1>4
  <2> QED BY <2>1, <2>2, <2>3, <1>5, StillRegistering, Zenon
<1>11. Covered'
  <2>1. \A i : Held(i) => Held(i)'
    <3>1. \A i : IsTracked(i) => IsTracked(i)'
      BY <1>1 DEF IsTracked
    <3>2. \A q \in Procs : Keeps(q) => q # p /\ Keeps(q)'
      BY <1>1, <1>5 DEF Keeps
    <3> QED BY <3>1, <3>2, <1>1, <1>5, Zenon DEF Held
  <2>2. Held(m + 1)' /\ m + 1 \in Ids'
    BY <1>4, <1>5, <1>9 DEF Held, Keeps
  <2> SUFFICES ASSUME NEW c \in (1..chunks') \ acked'
               PROVE  \E i \in Ids' : Held(i)' /\ c \in pkts'[i].carries /\ ~pkts'[i].isAcked
    BY Zenon DEF Covered
  <2>3. CASE c \in 1..chunks
    <3>1. PICK i \in Ids : Held(i) /\ c \in pkts[i].carries /\ ~pkts[i].isAcked
      BY <2>3, <1>1, Zenon DEF Covered
    <3>2. i \in Ids' /\ pkts'[i] = pkts[i]
      BY <1>4
    <3> QED BY <3>1, <3>2, <2>1, Zenon
  <2>4. CASE c \notin 1..chunks
    <3>1. c \in x.carries
      BY <2>4, <1>0, <1>3 DEF Types
    <3> QED BY <3>1, <2>2, <1>3, <1>4, Zenon
  <2> QED BY <2>3, <2>4
<1> QED BY <1>6, <1>7, <1>8, <1>10, <1>11

\* A packet becomes tracked, under the sequence its writer took.
LEMMA RegisterStep ==
    ASSUME RecoveryInv, NEW p \in Procs, SendPacket(p)
    PROVE  RecoveryInv'
<1> USE DEF RecoveryInv
<1>1. /\ sentPackets' = With(sentPackets, num[p], hand[p][1]) /\ pc[p] = "register"
      /\ pc' = [pc EXCEPT ![p] = "book"]
      /\ UNCHANGED <<pkts, nextSeq, lostQueue, wire, acked, chunks, hand, num>>
  BY DEF SendPacket, Goto, lostVars, netVars
<1>2. PICK i \in Ids : Registers(p, i)
  BY <1>1, Zenon DEF Registering
<1>3. PICK n : n = num[p]
  BY Zenon
<1>4. /\ i = hand[p][1] /\ n \notin DOMAIN sentPackets /\ Unshared(i, p)
      /\ pkts[i].seq = n /\ ~pkts[i].isAcked
  BY <1>2, <1>3 DEF Registers
<1>5. OwnNumber(p) /\ Len(hand[p]) = 1 /\ n \in Nat /\ n < nextSeq /\ n \notin DOMAIN wire
  BY <1>1, <1>3, TypeFacts DEF Numbered, Carrying, OwnNumber
<1>6. /\ DOMAIN sentPackets' = DOMAIN sentPackets \cup {n} /\ sentPackets'[n] = i
      /\ \A s \in DOMAIN sentPackets : sentPackets'[s] = sentPackets[s]
      /\ sentPackets' \in [DOMAIN sentPackets' -> Ids]
  BY <1>1, <1>3, <1>4, TypeFacts DEF With
<1>7. /\ \A q \in Procs : q # p => pc'[q] = pc[q]
      /\ pc'[p] = "book" /\ Ids' = Ids
  BY <1>1 DEF Types, Ids
<1>8. Types'
  <2>1. DOMAIN sentPackets' \subseteq 0..(nextSeq' - 1)
    BY <1>1, <1>5, <1>6 DEF Types
  <2>2. pc' \in [Procs -> Labels]
    BY <1>1 DEF Types, Labels
  <2> QED BY <2>1, <2>2, <1>1, <1>6, <1>7, Zenon DEF Types
<1>9. \A j : IsTracked(j)' <=> IsTracked(j) \/ j = i
  BY <1>6, Zenon DEF IsTracked
<1>10. TrackedOnce'
  <2>1. \A s \in DOMAIN sentPackets : sentPackets[s] # i
    BY <1>4, Zenon DEF Unshared, IsTracked
  <2> QED BY <2>1, <1>1, <1>4, <1>6 DEF TrackedOnce
<1>11. AckFreesWhatItNames'
  BY <1>1, <1>5, <1>6 DEF AckFreesWhatItNames
<1>12. Numbered'
  <2>1. \A q \in Procs : Carrying(q)' <=> Carrying(q)
    BY <1>1, <1>7 DEF Carrying
  <2>2. Carrying(p) /\ \A q \in Procs : Carrying(q) /\ num[q] = n => q = p
    BY <1>1, <1>3 DEF Numbered, Carrying
  <2>3. \A q \in Procs : Carrying(q) => OwnNumber(q)
    BY Zenon DEF Numbered
  <2>4. \A q \in Procs : q # p /\ Carrying(q)' => KeepsNumber(q)
    BY <2>1, <2>2, <2>3, <1>1, <1>6, Zenon DEF KeepsNumber, OwnNumber
  <2>5. TakesNumber(p)
    BY <2>2, <1>1, <1>3, <1>4, <1>5, <1>6, Zenon DEF TakesNumber, OwnNumber
  <2> QED BY <2>4, <2>5, StillNumbered, Zenon
<1>13. Registering'
  <2>1. ASSUME NEW q \in Procs, NEW j \in Ids, q # p, pc[q] = "register", Registers(q, j)
        PROVE  KeepsPacket(q, j)
    <3>1. Among(i, hand[p])
      BY <1>4, <1>5 DEF Among
    <3>2. j # i
      BY <2>1, <3>1, Zenon DEF Registers, Unshared
    <3>3. num[q] # n
      BY <2>1, <1>1, <1>3 DEF Numbered, Carrying
    <3>4. Unshared(j, q)'
      BY <2>1, <3>2, <1>1, <1>9, Zenon DEF Registers, Unshared
    <3> QED BY <2>1, <3>3, <3>4, <1>1, <1>6, <1>7, Zenon DEF Registers, KeepsPacket
  <2> QED BY <2>1, <1>1, <1>7, StillRegistering, Zenon
<1>14. Covered'
  <2>1. \A j : Among(j, hand[p]) => j = i
    BY <1>4, <1>5 DEF Among
  <2>2. \A j : Held(j) => Held(j)'
    BY <2>1, <1>1, <1>7, <1>9, Zenon DEF Held, Keeps
  <2> QED BY <2>2, <1>1, <1>7, StillCovered, Zenon
<1> QED BY <1>8, <1>10, <1>11, <1>12, <1>13, <1>14

\* A packet goes out under the sequence assigned to it.
LEMMA TransmitStep ==
    ASSUME RecoveryInv, NEW p \in Procs, Transmit(p)
    PROVE  RecoveryInv'
<1> USE DEF RecoveryInv
<1>0. PICK i, n : i = hand[p][1] /\ n = num[p]
  BY Zenon
<1>1. PICK l \in {"idle", "flush"} :
      /\ wire' = With(wire, n, pkts[i].carries) /\ pc[p] = "transmit"
      /\ num' = [num EXCEPT ![p] = 0] /\ hand' = [hand EXCEPT ![p] = <<>>]
      /\ pc' = [pc EXCEPT ![p] = l]
      /\ UNCHANGED <<pkts, sentPackets, nextSeq, lostQueue, acked, chunks>>
  BY <1>0, Zenon DEF Transmit, Goto, lostVars, pmVars
<1>2. Carrying(p) /\ OwnNumber(p)
  BY <1>1 DEF Numbered, Carrying
<1>3. /\ n < nextSeq /\ n \notin DOMAIN wire /\ n \in Nat
      /\ n \in DOMAIN sentPackets => sentPackets[n] = i
  BY <1>0, <1>2, TypeFacts DEF OwnNumber
<1>4. /\ DOMAIN wire' = DOMAIN wire \cup {n} /\ wire'[n] = pkts[i].carries
      /\ \A s \in DOMAIN wire : wire'[s] = wire[s]
  BY <1>1, <1>3 DEF With
<1>5. /\ \A q \in Procs : q # p => pc'[q] = pc[q] /\ hand'[q] = hand[q] /\ num'[q] = num[q]
      /\ pc'[p] = l /\ hand'[p] = <<>> /\ Ids' = Ids
  BY <1>1 DEF Types, Ids
<1>6. Types'
  <2>1. DOMAIN wire' \subseteq 0..(nextSeq' - 1)
    BY <1>1, <1>3, <1>4 DEF Types
  <2>2. pc' \in [Procs -> Labels] /\ num' \in [Procs -> Nat] /\ hand' \in [Procs -> Seq(Ids)]
    BY <1>1 DEF Types, Labels
  <2> QED BY <2>1, <2>2, <1>1, <1>5, Zenon DEF Types
<1>7. TrackedOnce' /\ \A j : IsTracked(j)' <=> IsTracked(j)
  BY <1>1 DEF TrackedOnce, IsTracked
<1>8. AckFreesWhatItNames'
  BY <1>1, <1>3, <1>4 DEF AckFreesWhatItNames
<1>9. ~Carrying(p)' /\ pc'[p] # "register" /\ ~Keeps(p)
  BY <1>1, <1>5 DEF Carrying, Keeps
<1>10. Numbered'
  <2>1. \A q \in Procs : q # p /\ Carrying(q) => num[q] # n
    BY <1>0, <1>2, Zenon DEF Numbered
  <2>2. \A q \in Procs : Carrying(q) => OwnNumber(q)
    BY Zenon DEF Numbered
  <2>3. ASSUME NEW q \in Procs, q # p, Carrying(q)' PROVE KeepsNumber(q)
    <3>1. Carrying(q) /\ OwnNumber(q)
      BY <2>2, <2>3, <1>5, Zenon DEF Carrying
    <3> QED BY <2>1, <2>3, <3>1, <1>1, <1>4, <1>5, Zenon DEF KeepsNumber, OwnNumber
  <2> QED BY <2>3, <1>9, StillNumbered, Zenon
<1>11. \A j : ~Among(j, hand'[p])
  BY <1>5, AmongFew, Zenon
<1>12. Registering'
  <2>1. ASSUME NEW q \in Procs, NEW j \in Ids, q # p, Registers(q, j) PROVE KeepsPacket(q, j)
    <3>1. Unshared(j, q)'
      BY <2>1, <1>1, <1>5, <1>7, <1>11, Zenon DEF Registers, Unshared
    <3> QED BY <2>1, <3>1, <1>1, <1>5, Zenon DEF Registers, KeepsPacket
  <2> QED BY <2>1, <1>5, <1>9, StillRegistering, Zenon
<1>13. Covered'
  <2>1. \A j : Held(j) => Held(j)'
    BY <1>1, <1>5, <1>7, <1>9, Zenon DEF Held, Keeps
  <2> QED BY <2>1, <1>1, <1>5, StillCovered, Zenon
<1> QED BY <1>6, <1>7, <1>8, <1>10, <1>12, <1>13

\* An ACK takes the sequences it names out, and their packets are done with.
LEMMA AckStep ==
    ASSUME RecoveryInv, HandleAckFrame
    PROVE  RecoveryInv'
<1> USE DEF RecoveryInv
<1>0. PICK got \in SUBSET DOMAIN sentPackets :
        /\ pkts' = [i \in DOMAIN pkts |->
                      [pkts[i] EXCEPT !.isAcked = @ \/ \E s \in got : sentPackets[s] = i]]
        /\ sentPackets' = Without(sentPackets, got)
        /\ acked' = acked \cup UNION {pkts[sentPackets[s]].carries : s \in got}
        /\ \E w \in Sorted(got) : hand' = [hand EXCEPT ![Inbound] = InOrder(w)]
  BY Zenon DEF HandleAckFrame
<1> PICK w \in Sorted(got) : hand' = [hand EXCEPT ![Inbound] = InOrder(w)]
  BY <1>0, Zenon
<1>1. /\ pc[Inbound] = "idle" /\ pc' = [pc EXCEPT ![Inbound] = "acked"] /\ Inbound \in Procs
      /\ UNCHANGED <<nextSeq, lostQueue, wire, chunks, num>>
  BY DEF HandleAckFrame, MayStart, Goto, lostVars, Procs
<1>2. Ids = DOMAIN pkts /\ Len(pkts) \in Nat
  BY DEF Ids, Types
<1>3. ASSUME NEW i \in Ids
      PROVE  /\ pkts'[i] \in Packets
             /\ pkts'[i].seq = pkts[i].seq /\ pkts'[i].carries = pkts[i].carries
             /\ pkts'[i].isAcked <=> (pkts[i].isAcked \/ \E s \in got : sentPackets[s] = i)
  <2>1. PICK b \in BOOLEAN : b = (pkts[i].isAcked \/ \E s \in got : sentPackets[s] = i)
    BY Zenon
  <2>2. pkts'[i] = [pkts[i] EXCEPT !.isAcked = b]
    BY <2>1, <1>0, <1>2
  <2> QED BY <2>1, <2>2, TypeFacts, Zenon DEF Packets
<1>4. pkts' \in Seq(Packets) /\ Len(pkts') = Len(pkts) /\ Ids' = Ids
  <2>1. pkts' \in [1..Len(pkts) -> Packets]
    BY <1>0, <1>2, <1>3, Zenon DEF Ids
  <2>2. pkts' \in Seq(Packets) /\ Len(pkts') = Len(pkts)
    BY <2>1, <1>2, IsSequence
  <2> QED BY <2>2 DEF Ids
<1>5. /\ DOMAIN sentPackets' = DOMAIN sentPackets \ got
      /\ \A s \in DOMAIN sentPackets' : sentPackets'[s] = sentPackets[s]
  BY <1>0 DEF Without
<1>6. /\ \A q \in Procs : q # Inbound => pc'[q] = pc[q] /\ hand'[q] = hand[q]
      /\ pc'[Inbound] = "acked" /\ hand'[Inbound] = InOrder(w)
      /\ InOrder(w) \in Seq(Ids)
  <2>1. /\ \A q \in Procs : q # Inbound => pc'[q] = pc[q] /\ hand'[q] = hand[q]
        /\ pc'[Inbound] = "acked" /\ hand'[Inbound] = InOrder(w)
    BY <1>0, <1>1, Zenon DEF Types
  <2>2. InOrder(w) \in Seq(Ids)
    BY <1>0, <1>1, ProbesTracked, Zenon
  <2> QED BY <2>1, <2>2, Zenon
<1>7. Types'
  <2>1. sentPackets' \in [DOMAIN sentPackets' -> Ids']
    BY <1>0, <1>4, <1>5, TypeFacts DEF Without
  <2>2. DOMAIN sentPackets' \subseteq 0..(nextSeq' - 1) /\ DOMAIN wire' \subseteq 0..(nextSeq' - 1)
    BY <1>1, <1>5 DEF Types
  <2>3. pc' \in [Procs -> Labels] /\ hand' \in [Procs -> Seq(Ids)]
    BY <1>0, <1>1, <1>6 DEF Types, Labels
  <2> QED BY <2>1, <2>2, <2>3, <1>1, <1>4, Zenon DEF Types
<1>8. ASSUME NEW i \in Ids, \A s \in got : sentPackets[s] # i
      PROVE  pkts'[i].isAcked = pkts[i].isAcked
  <2>1. pkts[i].isAcked \in BOOLEAN /\ pkts'[i].isAcked \in BOOLEAN
    BY <1>3, TypeFacts DEF Packets
  <2>2. pkts'[i].isAcked <=> pkts[i].isAcked
    BY <1>3, <1>8, Zenon
  <2> QED BY <2>1, <2>2
<1>9. /\ TrackedOnce' /\ AckFreesWhatItNames'
      /\ \A i : IsTracked(i)' => IsTracked(i)
  <2>1. \A s \in DOMAIN sentPackets', i \in Ids :
            sentPackets[s] = i => pkts'[i].isAcked = pkts[i].isAcked
    <3> SUFFICES ASSUME NEW s \in DOMAIN sentPackets', NEW i \in Ids, sentPackets[s] = i
                 PROVE  pkts'[i].isAcked = pkts[i].isAcked
      BY Zenon
    <3>1. s \in DOMAIN sentPackets /\ s \notin got
      BY <1>5, Zenon
    <3>2. \A t \in got : sentPackets[t] # i
      BY <3>1, Zenon DEF TrackedOnce
    <3> QED BY <3>2, <1>8, Zenon
  <2> QED BY <2>1, <1>1, <1>3, <1>5, StillTracked, Zenon
<1>10. Numbered'
  <2>1. \A q \in Procs : Carrying(q) => OwnNumber(q)
    BY Zenon DEF Numbered
  <2>2. \A q \in Procs : q # Inbound /\ Carrying(q)' => KeepsNumber(q)
    BY <2>1, <1>1, <1>5, <1>6, Zenon DEF KeepsNumber, OwnNumber, Carrying
  <2>3. ~Carrying(Inbound)'
    BY <1>6 DEF Carrying
  <2> QED BY <2>2, <2>3, <1>1, StillNumbered, Zenon
<1>11. \A i : Among(i, InOrder(w)) <=> \E s \in got : sentPackets[s] = i
  BY ProbesTracked, Zenon
<1>12. Registering'
  <2>1. ASSUME NEW q \in Procs, NEW j \in Ids, q # Inbound, Registers(q, j)
        PROVE  KeepsPacket(q, j)
    <3>1. \A s \in DOMAIN sentPackets : sentPackets[s] # j
      BY <2>1, Zenon DEF Registers, Unshared, IsTracked
    <3>2. pkts'[j].isAcked = pkts[j].isAcked /\ ~Among(j, InOrder(w))
      BY <3>1, <1>8, <1>11, Zenon
    <3>3. Unshared(j, q)'
      <4>1. ~IsTracked(j) /\ ~Among(j, lostQueue) /\ \A r \in Procs \ {q} : ~Among(j, hand[r])
        BY <2>1, Zenon DEF Registers, Unshared
      <4>2. ~IsTracked(j)'
        BY <4>1, <1>9, Zenon
      <4>3. ~Among(j, lostQueue')
        BY <4>1, <1>1, Zenon
      <4>4. \A r \in Procs \ {q} : ~Among(j, hand'[r])
        BY <4>1, <2>1, <3>2, <1>6, Zenon
      <4> QED BY <4>2, <4>3, <4>4, Zenon DEF Unshared
    <3> QED BY <2>1, <3>2, <3>3, <1>3, <1>4, <1>5, Zenon DEF Registers, KeepsPacket
  <2>2. pc'[Inbound] # "register"
    BY <1>6
  <2> QED BY <2>1, <2>2, <1>1, <1>6, StillRegistering, Zenon
<1>13. Covered'
  <2> SUFFICES ASSUME NEW c \in (1..chunks') \ acked'
               PROVE  \E i \in Ids' : Held(i)' /\ c \in pkts'[i].carries /\ ~pkts'[i].isAcked
    BY Zenon DEF Covered
  <2>1. c \in (1..chunks) \ acked
    BY <1>0, <1>1
  <2>2. PICK i \in Ids : Held(i) /\ c \in pkts[i].carries /\ ~pkts[i].isAcked
    BY <2>1, Zenon DEF Covered
  <2>3. \A s \in got : sentPackets[s] # i
    BY <2>2, <1>0
  <2>4. IsTracked(i) => IsTracked(i)'
    BY <2>3, <1>5, Zenon DEF IsTracked
  <2>5. ~Keeps(Inbound)
    BY <1>1 DEF Keeps
  <2>6. Held(i)'
    BY <2>2, <2>4, <2>5, <1>1, <1>6, Zenon DEF Held, Keeps
  <2>7. ~pkts'[i].isAcked
    BY <2>2, <2>3, <1>3, Zenon
  <2> QED BY <2>2, <2>6, <2>7, <1>3, <1>4, Zenon
<1> QED BY <1>7, <1>9, <1>10, <1>12, <1>13

\* Packets declared lost pass from the tracker into the detector's hands.
LEMMA DetectStep ==
    ASSUME RecoveryInv, NEW p \in Procs, DetectLostPackets(p)
    PROVE  RecoveryInv'
<1> USE DEF RecoveryInv
<1>0. PICK gone \in SUBSET DOMAIN sentPackets, l \in {"lost", "enter", "idle"} :
        /\ \E w \in Sorted(gone) : hand' = [hand EXCEPT ![p] = InOrder(w)]
        /\ sentPackets' = Without(sentPackets, gone)
        /\ pc' = [pc EXCEPT ![p] = l]
        /\ gone # {} => l = "lost"
  <2> DEFINE behind == {s \in DOMAIN sentPackets : s <= largestAcked}
             far == {s \in behind : largestAcked - s >= LossReorderThreshold}
  <2>1. PICK old \in SUBSET (behind \ far) :
            /\ \E w \in Sorted(far \cup old) : hand' = [hand EXCEPT ![p] = InOrder(w)]
            /\ sentPackets' = Without(sentPackets, far \cup old)
            /\ Goto(p, IF far \cup old # {} THEN "lost"
                       ELSE IF p = Inbound THEN "enter" ELSE "idle")
    BY Zenon DEF DetectLostPackets
  <2>2. far \cup old \in SUBSET DOMAIN sentPackets
    OBVIOUS
  <2> HIDE DEF behind, far
  <2> QED BY <2>1, <2>2, Zenon DEF Goto
<1> PICK w \in Sorted(gone) : hand' = [hand EXCEPT ![p] = InOrder(w)]
  BY <1>0, Zenon
<1>1. pc[p] = "detect" /\ UNCHANGED <<pkts, nextSeq, lostQueue, wire, acked, chunks, num>>
  BY DEF DetectLostPackets, lostVars, netVars
<1>2. /\ DOMAIN sentPackets' = DOMAIN sentPackets \ gone
      /\ \A s \in DOMAIN sentPackets' : sentPackets'[s] = sentPackets[s]
  BY <1>0 DEF Without
<1>3. /\ \A q \in Procs : q # p => pc'[q] = pc[q] /\ hand'[q] = hand[q]
      /\ pc'[p] = l /\ hand'[p] = InOrder(w) /\ InOrder(w) \in Seq(Ids) /\ Ids' = Ids
  <2>1. /\ \A q \in Procs : q # p => pc'[q] = pc[q] /\ hand'[q] = hand[q]
        /\ pc'[p] = l /\ hand'[p] = InOrder(w)
    BY <1>0, Zenon DEF Types
  <2>2. InOrder(w) \in Seq(Ids)
    BY <1>0, ProbesTracked, Zenon
  <2>3. Ids' = Ids
    BY <1>1, Zenon DEF Ids
  <2> QED BY <2>1, <2>2, <2>3, Zenon
<1>4. Types'
  <2>1. sentPackets' \in [DOMAIN sentPackets' -> Ids']
    BY <1>0, <1>2, <1>3, TypeFacts DEF Without
  <2>2. DOMAIN sentPackets' \subseteq 0..(nextSeq' - 1)
    BY <1>1, <1>2 DEF Types
  <2>3. pc' \in [Procs -> Labels] /\ hand' \in [Procs -> Seq(Ids)]
    BY <1>0, <1>3 DEF Types, Labels
  <2> QED BY <2>1, <2>2, <2>3, <1>1, <1>3, Zenon DEF Types
<1>5. /\ TrackedOnce' /\ AckFreesWhatItNames'
      /\ \A i : IsTracked(i)' => IsTracked(i)
  BY <1>1, <1>2, StillTracked, Zenon
<1>6. Numbered'
  <2>1. \A q \in Procs : Carrying(q) => OwnNumber(q)
    BY Zenon DEF Numbered
  <2>2. \A q \in Procs : q # p /\ Carrying(q)' => KeepsNumber(q)
    BY <2>1, <1>1, <1>2, <1>3, Zenon DEF KeepsNumber, OwnNumber, Carrying
  <2>3. ~Carrying(p)'
    BY <1>0, <1>3 DEF Carrying
  <2> QED BY <2>2, <2>3, StillNumbered, Zenon
<1>7. \A i : Among(i, InOrder(w)) <=> \E s \in gone : sentPackets[s] = i
  BY ProbesTracked, Zenon
<1>8. Registering'
  <2>1. ASSUME NEW q \in Procs, NEW j \in Ids, q # p, Registers(q, j) PROVE KeepsPacket(q, j)
    <3>1. ~Among(j, InOrder(w))
      BY <2>1, <1>7, Zenon DEF Registers, Unshared, IsTracked
    <3>2. Unshared(j, q)'
      <4>1. ~IsTracked(j) /\ ~Among(j, lostQueue) /\ \A r \in Procs \ {q} : ~Among(j, hand[r])
        BY <2>1, Zenon DEF Registers, Unshared
      <4>2. ~IsTracked(j)'
        BY <4>1, <1>5, Zenon
      <4>3. ~Among(j, lostQueue')
        BY <4>1, <1>1, Zenon
      <4>4. \A r \in Procs \ {q} : ~Among(j, hand'[r])
        BY <4>1, <2>1, <3>1, <1>3, Zenon
      <4> QED BY <4>2, <4>3, <4>4, Zenon DEF Unshared
    <3> QED BY <2>1, <3>2, <1>1, <1>2, <1>3, Zenon DEF Registers, KeepsPacket
  <2>2. pc'[p] # "register"
    BY <1>0, <1>3
  <2> QED BY <2>1, <2>2, <1>1, <1>3, StillRegistering, Zenon
<1>9. Covered'
  <2>1. ASSUME NEW i, IsTracked(i) PROVE IsTracked(i)' \/ (Keeps(p)' /\ Among(i, hand'[p]))
    <3>1. CASE \E s \in gone : sentPackets[s] = i
      <4>1. pc'[p] = "lost"
        BY <3>1, <1>0, <1>3, Zenon
      <4>2. Keeps(p)'
        BY <4>1 DEF Keeps
      <4> QED BY <4>2, <3>1, <1>3, <1>7, Zenon
    <3>2. CASE ~ \E s \in gone : sentPackets[s] = i
      BY <2>1, <3>2, <1>2, Zenon DEF IsTracked
    <3> QED BY <3>1, <3>2
  <2>2. ~Keeps(p)
    BY <1>1 DEF Keeps
  <2>3. \A i : Held(i) => Held(i)'
    BY <2>1, <2>2, <1>1, <1>3, Zenon DEF Held, Keeps
  <2> QED BY <2>3, <1>1, <1>3, StillCovered, Zenon
<1> QED BY <1>4, <1>5, <1>6, <1>8, <1>9

\* Lost packets pass from the detector's hands into the queue.
LEMMA QueueStep ==
    ASSUME RecoveryInv, NEW p \in Procs, QueueLost(p)
    PROVE  RecoveryInv'
<1> USE DEF RecoveryInv
<1>1. /\ pc[p] = "queue" /\ pc' = [pc EXCEPT ![p] = "enter"] /\ hand' = [hand EXCEPT ![p] = <<>>]
      /\ lostQueue' = lostQueue \o hand[p]
      /\ UNCHANGED <<pkts, sentPackets, nextSeq, wire, acked, chunks, num>>
  BY DEF QueueLost, Goto, pmVars, netVars
<1>2. /\ lostQueue' \in Seq(Ids)
      /\ \A i : Among(i, lostQueue') <=> Among(i, lostQueue) \/ Among(i, hand[p])
  <2>1. lostQueue \in Seq(Ids) /\ hand[p] \in Seq(Ids)
    BY DEF Types
  <2> QED BY <2>1, <1>1, AmongConcat, Zenon
<1>3. /\ \A q \in Procs : q # p => pc'[q] = pc[q] /\ hand'[q] = hand[q]
      /\ pc'[p] = "enter" /\ hand'[p] = <<>> /\ Ids' = Ids
  BY <1>1 DEF Types, Ids
<1>4. Types'
  <2>1. pc' \in [Procs -> Labels] /\ hand' \in [Procs -> Seq(Ids)]
    BY <1>1 DEF Types, Labels
  <2> QED BY <2>1, <1>1, <1>2, <1>3, Zenon DEF Types
<1>5. /\ TrackedOnce' /\ AckFreesWhatItNames'
      /\ \A i : IsTracked(i)' <=> IsTracked(i)
  BY <1>1, Zenon DEF TrackedOnce, AckFreesWhatItNames, IsTracked
<1>6. ~Carrying(p)' /\ pc'[p] # "register"
  BY <1>3 DEF Carrying
<1>7. Numbered'
  <2>1. \A q \in Procs : Carrying(q) => OwnNumber(q)
    BY Zenon DEF Numbered
  <2>2. \A q \in Procs : q # p /\ Carrying(q)' => KeepsNumber(q)
    BY <2>1, <1>1, <1>3, Zenon DEF KeepsNumber, OwnNumber, Carrying
  <2> QED BY <2>2, <1>6, StillNumbered, Zenon
<1>8. \A i : ~Among(i, hand'[p])
  BY <1>3, AmongFew, Zenon
<1>9. Registering'
  <2>1. ASSUME NEW q \in Procs, NEW j \in Ids, q # p, Registers(q, j) PROVE KeepsPacket(q, j)
    <3>1. Unshared(j, q)'
      BY <2>1, <1>2, <1>3, <1>5, <1>8, Zenon DEF Registers, Unshared
    <3> QED BY <2>1, <3>1, <1>1, <1>3, Zenon DEF Registers, KeepsPacket
  <2> QED BY <2>1, <1>1, <1>3, <1>6, StillRegistering, Zenon
<1>10. Covered'
  <2>1. \A i : Held(i) => Held(i)'
    BY <1>2, <1>3, <1>5, Zenon DEF Held, Keeps
  <2> QED BY <2>1, <1>1, <1>3, StillCovered, Zenon
<1> QED BY <1>4, <1>5, <1>7, <1>9, <1>10

\* A packet acknowledged while it waited is dropped from the queue.
LEMMA SkipStep ==
    ASSUME RecoveryInv, NEW p \in Procs, FlushSkip(p)
    PROVE  RecoveryInv'
<1> USE DEF RecoveryInv
<1>1. /\ lostQueue # <<>> /\ pkts[Head(lostQueue)].isAcked /\ lostQueue' = Tail(lostQueue)
      /\ UNCHANGED <<pkts, sentPackets, nextSeq, wire, acked, chunks, num, pc, hand>>
  BY DEF FlushSkip, Goto, pmVars, netVars
<1>2. /\ lostQueue' \in Seq(Ids)
      /\ \A i : Among(i, lostQueue) <=> i = Head(lostQueue) \/ Among(i, lostQueue')
  <2>1. lostQueue \in Seq(Ids)
    BY DEF Types
  <2> QED BY <2>1, <1>1, AmongTail, Zenon
<1>3. Ids' = Ids
  BY <1>1 DEF Ids
<1>4. Types'
  BY <1>1, <1>2, <1>3, Zenon DEF Types
<1>5. /\ TrackedOnce' /\ AckFreesWhatItNames'
      /\ \A i : IsTracked(i)' <=> IsTracked(i)
  BY <1>1, Zenon DEF TrackedOnce, AckFreesWhatItNames, IsTracked
<1>6. Numbered'
  BY <1>1, Zenon DEF Numbered, Carrying, OwnNumber
<1>7. Registering'
  <2>1. ASSUME NEW q \in Procs, NEW j \in Ids, Registers(q, j) PROVE Registers(q, j)'
    <3>1. Unshared(j, q)'
      BY <2>1, <1>1, <1>2, <1>5, Zenon DEF Registers, Unshared
    <3> QED BY <2>1, <3>1, <1>1, Zenon DEF Registers
  <2> QED BY <2>1, <1>1, <1>3, Zenon DEF Registering
<1>8. Covered'
  <2>1. \A i : Held(i) /\ ~pkts[i].isAcked => Held(i)'
    BY <1>1, <1>2, <1>5, Zenon DEF Held, Keeps
  <2> QED BY <2>1, <1>1, <1>3, StillCovered, Zenon
<1> QED BY <1>4, <1>5, <1>6, <1>7, <1>8

-----------------------------------------------------------------------------
\* Packet i is tracked under the next sequence, and under no other.
Rekeyed(i) ==
    /\ nextSeq' = nextSeq + 1
    /\ pkts' \in Seq(Packets) /\ Ids' = Ids
    /\ \A j \in Ids : /\ pkts'[j].carries = pkts[j].carries /\ pkts'[j].size = pkts[j].size
                      /\ pkts'[j].isAcked = pkts[j].isAcked
                      /\ j # i => pkts'[j].seq = pkts[j].seq
    /\ pkts'[i].seq = nextSeq
    /\ DOMAIN sentPackets' = {s \in DOMAIN sentPackets : sentPackets[s] # i} \cup {nextSeq}
    /\ sentPackets' \in [DOMAIN sentPackets' -> Ids]
    /\ sentPackets'[nextSeq] = i
    /\ \A s \in DOMAIN sentPackets : sentPackets[s] # i => sentPackets'[s] = sentPackets[s]

\* Resend: the check of the packet's sequence finds its only entry.
LEMMA RekeyFacts ==
    ASSUME Types, TrackedOnce, NEW i \in Ids, Rekey(i)
    PROVE  Rekeyed(i)
<1> DEFINE tracked == {s \in DOMAIN sentPackets : s = pkts[i].seq /\ sentPackets[s] = i}
<1>1. /\ sentPackets' = With(Without(sentPackets, tracked), nextSeq, i)
      /\ pkts' = [pkts EXCEPT ![i].seq = nextSeq]
      /\ nextSeq' = nextSeq + 1
  BY DEF Rekey
<1>2. tracked = {s \in DOMAIN sentPackets : sentPackets[s] = i}
  BY DEF TrackedOnce
<1>3. nextSeq \notin DOMAIN sentPackets /\ nextSeq \in Nat
  BY TypeFacts DEF Types
<1>4. /\ DOMAIN sentPackets' = (DOMAIN sentPackets \ tracked) \cup {nextSeq}
      /\ sentPackets'[nextSeq] = i
      /\ \A s \in DOMAIN sentPackets \ tracked : sentPackets'[s] = sentPackets[s]
      /\ sentPackets' \in [DOMAIN sentPackets' -> Ids]
  <2> HIDE DEF tracked
  <2>1. \A s \in DOMAIN sentPackets : sentPackets[s] \in Ids
    BY TypeFacts, Zenon
  <2> QED BY <2>1, <1>1, <1>3 DEF With, Without
<1>5. pkts' \in Seq(Packets) /\ Len(pkts') = Len(pkts)
  <2>1. [pkts[i] EXCEPT !.seq = nextSeq] \in Packets
    BY <1>3, TypeFacts, Zenon DEF Packets
  <2>2. pkts' = [pkts EXCEPT ![i] = [pkts[i] EXCEPT !.seq = nextSeq]]
    BY <1>1
  <2>3. PICK x \in Packets : pkts' = [pkts EXCEPT ![i] = x]
    BY <2>1, <2>2, Zenon
  <2> QED BY <2>3 DEF Types, Ids
<1>6. Ids' = Ids
  BY <1>5 DEF Ids
<1>7. \A j \in Ids : j # i => pkts'[j] = pkts[j]
  BY <1>1 DEF Types, Ids
<1>8. pkts'[i] = [pkts[i] EXCEPT !.seq = nextSeq]
  <2>1. PICK x : x = [pkts[i] EXCEPT !.seq = nextSeq]
    BY Zenon
  <2>2. pkts' = [pkts EXCEPT ![i] = x]
    BY <2>1, <1>1
  <2>3. i \in DOMAIN pkts
    BY DEF Types, Ids
  <2> QED BY <2>1, <2>2, <2>3
<1>9. /\ pkts'[i].carries = pkts[i].carries /\ pkts'[i].size = pkts[i].size
      /\ pkts'[i].isAcked = pkts[i].isAcked /\ pkts'[i].seq = nextSeq
  BY <1>8, TypeFacts DEF Packets
<1> QED BY <1>1, <1>2, <1>4, <1>5, <1>6, <1>7, <1>9, Zenon DEF Rekeyed

\* A re-keyed packet keeps the tracker in order.
LEMMA RekeyTracks ==
    ASSUME Types, TrackedOnce, NEW i \in Ids, ~pkts[i].isAcked, Rekeyed(i)
    PROVE  /\ TrackedOnce' /\ DOMAIN sentPackets' \subseteq 0..(nextSeq' - 1)
           /\ nextSeq \in Nat /\ nextSeq < nextSeq'
           /\ nextSeq \notin DOMAIN sentPackets /\ nextSeq \notin DOMAIN wire
           /\ \A n \in Nat : n < nextSeq => n # nextSeq /\ n < nextSeq'
           /\ \A s \in DOMAIN sentPackets' : s # nextSeq =>
                s \in DOMAIN sentPackets /\ sentPackets'[s] = sentPackets[s]
           /\ \A j : IsTracked(j)' <=> IsTracked(j) \/ j = i
<1>1. /\ nextSeq \in Nat /\ nextSeq' = nextSeq + 1
      /\ \A j \in Ids : pkts'[j].isAcked = pkts[j].isAcked /\ (j # i => pkts'[j].seq = pkts[j].seq)
      /\ pkts'[i].seq = nextSeq /\ nextSeq \in DOMAIN sentPackets' /\ sentPackets'[nextSeq] = i
  BY DEF Rekeyed, Types
<1>2. \A s \in DOMAIN sentPackets' : s # nextSeq =>
        s \in DOMAIN sentPackets /\ sentPackets'[s] = sentPackets[s] /\ sentPackets[s] # i
  BY DEF Rekeyed
<1>3. \A s \in DOMAIN sentPackets :
        /\ s # nextSeq /\ sentPackets[s] \in Ids
        /\ sentPackets[s] # i => s \in DOMAIN sentPackets' /\ sentPackets'[s] = sentPackets[s]
  BY TypeFacts DEF Rekeyed
<1>4. nextSeq \notin DOMAIN sentPackets /\ nextSeq \notin DOMAIN wire
  BY <1>1, TypeFacts
<1>5. \A n \in Nat : n < nextSeq => n # nextSeq /\ n < nextSeq'
  BY <1>1
<1>6. nextSeq < nextSeq' /\ DOMAIN sentPackets' \subseteq 0..(nextSeq' - 1)
  BY <1>1, <1>2, TypeFacts
<1>7. ASSUME NEW s \in DOMAIN sentPackets'
      PROVE  pkts'[sentPackets'[s]].seq = s /\ ~pkts'[sentPackets'[s]].isAcked
  <2>1. CASE s = nextSeq
    BY <2>1, <1>1
  <2>2. CASE s # nextSeq
    <3>1. PICK j \in Ids : j = sentPackets[s] /\ j # i /\ sentPackets'[s] = j /\ s \in DOMAIN sentPackets
      BY <2>2, <1>2, <1>3, Zenon
    <3>2. pkts[j].seq = s /\ ~pkts[j].isAcked
      BY <3>1 DEF TrackedOnce
    <3>3. pkts'[j].seq = s /\ ~pkts'[j].isAcked
      BY <3>1, <3>2, <1>1
    <3> QED BY <3>1, <3>3, Zenon
  <2> QED BY <2>1, <2>2
<1>8. TrackedOnce'
  <2>1. \A s, t \in DOMAIN sentPackets' : sentPackets'[s] = sentPackets'[t] => s = t
    BY <1>7
  <2> QED BY <2>1, <1>7, Zenon DEF TrackedOnce
<1>9. \A j : IsTracked(j)' <=> IsTracked(j) \/ j = i
  BY <1>1, <1>2, <1>3, Zenon DEF IsTracked
<1> QED BY <1>1, <1>2, <1>4, <1>5, <1>6, <1>8, <1>9, Zenon

\* The oldest lost packet is tracked again, in the hands of the flush.
LEMMA ResendStep ==
    ASSUME RecoveryInv, NEW p \in Procs, FlushResend(p)
    PROVE  RecoveryInv'
<1> USE DEF RecoveryInv
<1>0. PICK i : i = Head(lostQueue)
  BY Zenon
<1>1. /\ lostQueue # <<>> /\ lostQueue' = Tail(lostQueue) /\ ~pkts[i].isAcked /\ Rekey(i)
      /\ pc[p] = "flush" /\ pc' = [pc EXCEPT ![p] = "book"]
      /\ hand' = [hand EXCEPT ![p] = <<i>>] /\ num' = [num EXCEPT ![p] = nextSeq]
      /\ UNCHANGED <<wire, acked, chunks>>
  BY <1>0 DEF FlushResend, Goto, netVars
<1>2. /\ lostQueue' \in Seq(Ids) /\ i \in Ids
      /\ \A j : Among(j, lostQueue) <=> j = i \/ Among(j, lostQueue')
  <2>1. lostQueue \in Seq(Ids)
    BY DEF Types
  <2> QED BY <2>1, <1>0, <1>1, AmongTail, Zenon
<1>3. Rekeyed(i)
  BY <1>1, <1>2, RekeyFacts, Zenon
<1>4. /\ TrackedOnce' /\ DOMAIN sentPackets' \subseteq 0..(nextSeq' - 1)
      /\ nextSeq \in Nat /\ nextSeq < nextSeq'
      /\ nextSeq \notin DOMAIN sentPackets /\ nextSeq \notin DOMAIN wire
      /\ \A n \in Nat : n < nextSeq => n # nextSeq /\ n < nextSeq'
      /\ \A s \in DOMAIN sentPackets' : s # nextSeq =>
           s \in DOMAIN sentPackets /\ sentPackets'[s] = sentPackets[s]
      /\ \A j : IsTracked(j)' <=> IsTracked(j) \/ j = i
  BY <1>1, <1>2, <1>3, RekeyTracks, Zenon
<1>5. /\ nextSeq' \in Nat /\ Ids' = Ids /\ pkts' \in Seq(Packets)
      /\ sentPackets' \in [DOMAIN sentPackets' -> Ids] /\ sentPackets'[nextSeq] = i
      /\ \A j \in Ids : pkts'[j].carries = pkts[j].carries /\ pkts'[j].isAcked = pkts[j].isAcked
      /\ \A j \in Ids : j # i => pkts'[j].seq = pkts[j].seq
  BY <1>3, <1>4 DEF Rekeyed
<1>6. /\ \A q \in Procs : q # p => pc'[q] = pc[q] /\ hand'[q] = hand[q] /\ num'[q] = num[q]
      /\ pc'[p] = "book" /\ hand'[p] = <<i>> /\ num'[p] = nextSeq
  BY <1>1 DEF Types
<1>7. Types'
  <2>1. DOMAIN wire' \subseteq 0..(nextSeq' - 1)
    BY <1>1, <1>4, <1>5, TypeFacts
  <2>2. pc' \in [Procs -> Labels] /\ num' \in [Procs -> Nat]
    BY <1>1 DEF Types, Labels
  <2>3. hand' \in [Procs -> Seq(Ids)]
    BY <1>1, <1>2 DEF Types
  <2> QED BY <2>1, <2>2, <2>3, <1>1, <1>2, <1>4, <1>5, Zenon DEF Types
<1>8. AckFreesWhatItNames'
  <2>1. ASSUME NEW s \in DOMAIN sentPackets' \cap DOMAIN wire'
        PROVE  wire'[s] = pkts'[sentPackets'[s]].carries
    <3>1. PICK j \in Ids : j = sentPackets[s] /\ sentPackets'[s] = j /\ s \in DOMAIN sentPackets
      BY <1>1, <1>4, TypeFacts
    <3>2. wire[s] = pkts[j].carries
      BY <3>1, <1>1 DEF AckFreesWhatItNames
    <3> QED BY <3>1, <3>2, <1>1, <1>5
  <2> QED BY <2>1, Zenon DEF AckFreesWhatItNames
<1>9. Numbered'
  <2>1. Len(<<i>>) = 1 /\ <<i>>[1] = i
    OBVIOUS
  <2>2. \A q \in Procs : Carrying(q) => OwnNumber(q)
    BY Zenon DEF Numbered
  <2>3. \A q \in Procs : Carrying(q) => num[q] # nextSeq /\ num[q] < nextSeq'
    BY <2>2, <1>4, TypeFacts, Zenon DEF OwnNumber
  <2>4. TakesNumber(p)
    <3>1. OwnNumber(p)'
      BY <2>1, <1>1, <1>4, <1>5, <1>6, Zenon DEF OwnNumber
    <3>2. \A q \in Procs : q # p /\ Carrying(q) => num[q] # num'[p]
      BY <2>3, <1>6, Zenon
    <3> QED BY <3>1, <3>2, Zenon DEF TakesNumber
  <2>5. \A q \in Procs : q # p /\ Carrying(q)' => KeepsNumber(q)
    BY <2>2, <2>3, <1>1, <1>4, <1>6, Zenon DEF KeepsNumber, OwnNumber, Carrying
  <2> QED BY <2>4, <2>5, StillNumbered, Zenon
<1>10. \A j : Among(j, hand'[p]) <=> j = i
  BY <1>6, AmongFew, Zenon
<1>11. Registering'
  <2>1. ASSUME NEW q \in Procs, NEW j \in Ids, q # p, pc[q] = "register", Registers(q, j)
        PROVE  KeepsPacket(q, j)
    <3>1. j # i
      BY <2>1, <1>2, Zenon DEF Registers, Unshared
    <3>2. Unshared(j, q)'
      BY <2>1, <3>1, <1>2, <1>4, <1>6, <1>10, Zenon DEF Registers, Unshared
    <3>3. num[q] < nextSeq
      BY <2>1 DEF Numbered, Carrying, OwnNumber
    <3>4. num[q] \notin DOMAIN sentPackets'
      BY <2>1, <3>3, <1>4, TypeFacts, Zenon DEF Registers
    <3> QED BY <3>1, <3>2, <3>4, <1>5, Zenon DEF KeepsPacket
  <2>2. pc'[p] # "register"
    BY <1>6
  <2> QED BY <2>1, <2>2, <1>6, StillRegistering, Zenon
<1>12. Covered'
  <2>1. ~Keeps(p)
    BY <1>1 DEF Keeps
  <2>2. \A j : Held(j) => Held(j)'
    BY <2>1, <1>2, <1>4, <1>6, Zenon DEF Held, Keeps
  <2> QED BY <2>2, <1>1, <1>5, StillCovered, Zenon
<1> QED BY <1>4, <1>7, <1>8, <1>9, <1>11, <1>12

\* A probe goes out again under a new sequence, unless it was acknowledged.
LEMMA ProbeResendStep ==
    ASSUME RecoveryInv, NEW p \in Procs, ProbeResend(p)
    PROVE  RecoveryInv'
<1> USE DEF RecoveryInv
<1>0. PICK i : i = Head(hand[p])
  BY Zenon
<1>1. /\ pc[p] = "probe" /\ hand[p] # <<>> /\ hand' = [hand EXCEPT ![p] = Tail(hand[p])]
      /\ UNCHANGED <<lostQueue, acked, chunks, pc, num>>
      /\ \/ pkts[i].isAcked /\ UNCHANGED <<pkts, sentPackets, nextSeq, wire>>
         \/ ~pkts[i].isAcked /\ Rekey(i) /\ wire' = With(wire, nextSeq, pkts[i].carries)
  BY <1>0 DEF ProbeResend, lostVars, Types
<1>2. PICK h : h = Tail(hand[p])
  BY Zenon
<1>3. /\ h \in Seq(Ids) /\ i \in Ids
      /\ \A j : Among(j, hand[p]) <=> j = i \/ Among(j, h)
  <2>1. hand[p] \in Seq(Ids)
    BY DEF Types
  <2> QED BY <2>1, <1>0, <1>1, <1>2, AmongTail, Zenon
<1>4. /\ \A q \in Procs : q # p => hand'[q] = hand[q]
      /\ hand'[p] = h /\ hand' \in [Procs -> Seq(Ids)]
  BY <1>1, <1>2, <1>3 DEF Types
<1>5. /\ ~Carrying(p)' /\ pc'[p] # "register" /\ Keeps(p)
      /\ \A q \in Procs : Carrying(q)' => Carrying(q)
      /\ \A q \in Procs : Keeps(q) => Keeps(q)'
  BY <1>1 DEF Carrying, Keeps
<1>6. ASSUME NEW q \in Procs, NEW j \in Ids, q # p, Registers(q, j),
             \A k : IsTracked(k)' => IsTracked(k) \/ k = i
      PROVE  j # i /\ Unshared(j, q)'
  <2>1. j # i
    BY <1>3, <1>6, Zenon DEF Registers, Unshared
  <2> QED BY <2>1, <1>1, <1>3, <1>4, <1>6, Zenon DEF Registers, Unshared
<1>7. CASE pkts[i].isAcked /\ UNCHANGED <<pkts, sentPackets, nextSeq, wire>>
  <2>1. Ids' = Ids /\ \A j : IsTracked(j)' <=> IsTracked(j)
    BY <1>7, Zenon DEF Ids, IsTracked
  <2>2. Types'
    BY <2>1, <1>1, <1>4, <1>7, Zenon DEF Types
  <2>3. TrackedOnce' /\ AckFreesWhatItNames'
    BY <1>7, Zenon DEF TrackedOnce, AckFreesWhatItNames
  <2>4. Numbered'
    <3>1. \A q \in Procs : Carrying(q) => OwnNumber(q)
      BY Zenon DEF Numbered
    <3>2. \A q \in Procs : q # p /\ Carrying(q)' => KeepsNumber(q)
      BY <3>1, <1>1, <1>4, <1>5, <1>7, Zenon DEF KeepsNumber, OwnNumber
    <3> QED BY <3>2, <1>5, StillNumbered, Zenon
  <2>5. Registering'
    <3>1. ASSUME NEW q \in Procs, NEW j \in Ids, q # p, Registers(q, j) PROVE KeepsPacket(q, j)
      <4>1. Unshared(j, q)'
        BY <3>1, <2>1, <1>6, Zenon
      <4> QED BY <3>1, <4>1, <2>1, <1>7, Zenon DEF Registers, KeepsPacket
    <3> QED BY <3>1, <1>1, <1>4, <1>5, StillRegistering, Zenon
  <2>6. Covered'
    <3>1. \A j : Held(j) /\ ~pkts[j].isAcked => Held(j)'
      BY <2>1, <1>1, <1>3, <1>4, <1>5, <1>7, Zenon DEF Held
    <3> QED BY <3>1, <2>1, <1>1, <1>7, StillCovered, Zenon
  <2> QED BY <2>2, <2>3, <2>4, <2>5, <2>6
<1>8. CASE ~pkts[i].isAcked /\ Rekey(i) /\ wire' = With(wire, nextSeq, pkts[i].carries)
  <2>1. Rekeyed(i)
    BY <1>3, <1>8, RekeyFacts, Zenon
  <2>2. /\ TrackedOnce' /\ DOMAIN sentPackets' \subseteq 0..(nextSeq' - 1)
        /\ nextSeq \in Nat /\ nextSeq < nextSeq'
        /\ nextSeq \notin DOMAIN sentPackets /\ nextSeq \notin DOMAIN wire
        /\ \A n \in Nat : n < nextSeq => n # nextSeq /\ n < nextSeq'
        /\ \A s \in DOMAIN sentPackets' : s # nextSeq =>
             s \in DOMAIN sentPackets /\ sentPackets'[s] = sentPackets[s]
        /\ \A j : IsTracked(j)' <=> IsTracked(j) \/ j = i
    BY <1>3, <1>8, <2>1, RekeyTracks, Zenon
  <2>3. /\ nextSeq' = nextSeq + 1 /\ Ids' = Ids /\ pkts' \in Seq(Packets)
        /\ sentPackets' \in [DOMAIN sentPackets' -> Ids] /\ sentPackets'[nextSeq] = i
        /\ \A j \in Ids : pkts'[j].carries = pkts[j].carries /\ pkts'[j].isAcked = pkts[j].isAcked
        /\ \A j \in Ids : j # i => pkts'[j].seq = pkts[j].seq
    BY <2>1 DEF Rekeyed
  <2>4. /\ DOMAIN wire' = DOMAIN wire \cup {nextSeq} /\ wire'[nextSeq] = pkts[i].carries
        /\ \A s \in DOMAIN wire : wire'[s] = wire[s]
    BY <1>8, <2>2 DEF With
  <2>5. Types'
    <3>1. DOMAIN wire' \subseteq 0..(nextSeq' - 1) /\ nextSeq' \in Nat
      BY <2>2, <2>3, <2>4, TypeFacts
    <3> QED BY <3>1, <2>2, <2>3, <1>1, <1>4, Zenon DEF Types
  <2>6. AckFreesWhatItNames'
    <3>1. ASSUME NEW s \in DOMAIN sentPackets' \cap DOMAIN wire'
          PROVE  wire'[s] = pkts'[sentPackets'[s]].carries
      <4>1. CASE s = nextSeq
        BY <4>1, <2>3, <2>4, <1>3
      <4>2. CASE s # nextSeq
        <5>1. s \in DOMAIN wire
          BY <4>2, <2>4
        <5>2. PICK j \in Ids : j = sentPackets[s] /\ sentPackets'[s] = j /\ s \in DOMAIN sentPackets
          BY <4>2, <2>2, TypeFacts
        <5>3. wire[s] = pkts[j].carries
          BY <5>1, <5>2 DEF AckFreesWhatItNames
        <5> QED BY <5>1, <5>2, <5>3, <2>3, <2>4
      <4> QED BY <4>1, <4>2
    <3> QED BY <3>1, Zenon DEF AckFreesWhatItNames
  <2>7. Numbered'
    <3>1. \A q \in Procs : Carrying(q) => OwnNumber(q)
      BY Zenon DEF Numbered
    <3>2. \A q \in Procs : Carrying(q) => num[q] # nextSeq /\ num[q] < nextSeq'
      BY <3>1, <2>2, TypeFacts, Zenon DEF OwnNumber
    <3>3. \A q \in Procs : q # p /\ Carrying(q)' => KeepsNumber(q)
      BY <3>1, <3>2, <2>2, <2>4, <1>1, <1>4, <1>5, Zenon DEF KeepsNumber, OwnNumber
    <3> QED BY <3>3, <1>5, StillNumbered, Zenon
  <2>8. Registering'
    <3>1. ASSUME NEW q \in Procs, NEW j \in Ids, q # p, pc[q] = "register", Registers(q, j)
          PROVE  KeepsPacket(q, j)
      <4>1. j # i /\ Unshared(j, q)'
        BY <3>1, <2>2, <1>6, Zenon
      <4>2. num[q] < nextSeq
        BY <3>1 DEF Numbered, Carrying, OwnNumber
      <4>3. num[q] \notin DOMAIN sentPackets'
        BY <3>1, <4>2, <2>2, TypeFacts, Zenon DEF Registers
      <4> QED BY <4>1, <4>3, <2>3, Zenon DEF KeepsPacket
    <3> QED BY <3>1, <1>1, <1>4, <1>5, StillRegistering, Zenon
  <2>9. Covered'
    <3>1. \A j : Held(j) => Held(j)'
      BY <2>2, <1>1, <1>3, <1>4, <1>5, Zenon DEF Held
    <3> QED BY <3>1, <2>3, <1>1, StillCovered, Zenon
  <2> QED BY <2>2, <2>5, <2>6, <2>7, <2>8, <2>9
<1> QED BY <1>1, <1>7, <1>8

-----------------------------------------------------------------------------
\* Packet i is no longer tracked, and n new packets carry its chunks, listed
\* in w.
Fitted(i, w, n) ==
    /\ n \in Nat /\ pkts' \in Seq(Packets) /\ Len(pkts') = Len(pkts) + n
    /\ \A j \in Ids : j \in Ids' /\ pkts'[j] = pkts[j]
    /\ \A j \in Ids' \ Ids : ~pkts'[j].isAcked
    /\ \A c \in pkts[i].carries : \E k \in 1..n : c \in pkts'[Len(pkts) + k].carries
    /\ Pieces(w) \in Seq(Ids') /\ Len(Pieces(w)) = n
    /\ \A k \in 1..n : Pieces(w)[k] = Len(pkts) + k /\ Len(pkts) + k \in Ids' \ Ids
    /\ DOMAIN sentPackets' = {s \in DOMAIN sentPackets : sentPackets[s] # i}
    /\ sentPackets' \in [DOMAIN sentPackets' -> Ids]
    /\ \A s \in DOMAIN sentPackets' : sentPackets'[s] = sentPackets[s]

\* fitToPath: every chunk of the packet has a piece.
LEMMA FitFacts ==
    ASSUME Types, TrackedOnce, NEW i \in Ids,
           NEW w \in Sorted(pkts[i].carries), FitToPath(i, w)
    PROVE  \E n : Fitted(i, w, n)
<1> DEFINE C == pkts[i].carries
<1>1. C \subseteq Nat
  BY TypeFacts
<1>2. PICK n : /\ n = Len(w) /\ n \in Nat /\ DOMAIN w = 1..n /\ w \in [1..n -> C]
               /\ \A c \in C : \E k \in 1..n : w[k] = c
  <2>1. C \subseteq Int
    BY <1>1
  <2> HIDE DEF C
  <2>2. w \in Sorted(C)
    BY DEF C
  <2>3. /\ Len(w) \in Nat /\ DOMAIN w = 1..Len(w) /\ w \in [1..Len(w) -> C]
        /\ \A c \in C : \E k \in 1..Len(w) : w[k] = c
    BY <2>1, <2>2, SortedLists, Zenon
  <2> QED BY <2>3, Zenon
<1> DEFINE x(k) == [seq |-> 0, isAcked |-> FALSE, size |-> HeaderSize + 1, carries |-> {w[k]}]
<1>3. PICK P : P = PiecesOf(w)
  BY Zenon
<1>4. P = [k \in 1..n |-> x(k)]
  BY <1>2, <1>3, Zenon DEF PiecesOf
<1>5. ASSUME NEW k \in 1..n
      PROVE  x(k) \in Packets /\ ~x(k).isAcked /\ x(k).carries = {w[k]}
  <2>1. HeaderSize + 1 \in Nat \ {0} /\ {w[k]} \in SUBSET Nat
    BY <1>1, <1>2, HeaderAssumption
  <2> QED BY <2>1, Zenon DEF Packets
<1> HIDE DEF x
<1>6. P \in Seq(Packets) /\ Len(P) = n /\ \A k \in 1..n : P[k] = x(k)
  <2>1. P \in [1..n -> Packets]
    BY <1>4, <1>5
  <2>2. P \in Seq(Packets) /\ Len(P) = n
    BY <2>1, <1>2, IsSequence
  <2> QED BY <2>2, <1>4
<1>7. pkts' = pkts \o P
  BY <1>3 DEF FitToPath
<1>8. PICK m \in Nat : m = Len(pkts) /\ Ids = 1..m
  BY TypeFacts DEF Ids
<1>9. /\ pkts' \in Seq(Packets) /\ Len(pkts') = m + n
      /\ \A j \in 1..m : pkts'[j] = pkts[j]
      /\ \A k \in 1..n : pkts'[m + k] = x(k)
  <2>1. Joins(pkts', pkts, P, Packets)
    BY <1>6, <1>7, ConcatJoins DEF Types
  <2> QED BY <2>1, <1>6, <1>8 DEF Joins
<1>10. Ids' = 1..(m + n)
  BY <1>9 DEF Ids
<1>11. \A j \in Ids : j \in Ids' /\ pkts'[j] = pkts[j]
  BY <1>2, <1>8, <1>9, <1>10
<1>12. \A j \in Ids' \ Ids : \E k \in 1..n : j = m + k
  <2>1. \A j \in Ids' \ Ids : j - m \in 1..n /\ j = m + (j - m)
    BY <1>2, <1>8, <1>10
  <2> QED BY <2>1
<1>13. \A j \in Ids' \ Ids : ~pkts'[j].isAcked
  <2>1. ASSUME NEW k \in 1..n PROVE ~pkts'[m + k].isAcked
    BY <1>5, <1>9, Zenon
  <2> QED BY <2>1, <1>12
<1>14. \A c \in C : \E k \in 1..n : c \in pkts'[m + k].carries
  <2>1. ASSUME NEW k \in 1..n PROVE pkts'[m + k].carries = {w[k]}
    BY <1>5, <1>9
  <2>2. ASSUME NEW c \in C PROVE \E k \in 1..n : w[k] = c
    BY <1>2, Zenon
  <2>3. ASSUME NEW k \in 1..n PROVE w[k] \in pkts'[m + k].carries
    BY <2>1
  <2> QED BY <2>2, <2>3, Zenon
<1>15. Pieces(w) = [k \in 1..n |-> m + k]
  BY <1>3, <1>6, <1>8 DEF Pieces
<1>16. \A k \in 1..n : m + k \in Ids' \ Ids
  BY <1>2, <1>8, <1>10
<1>17. Pieces(w) \in Seq(Ids') /\ Len(Pieces(w)) = n /\ \A k \in 1..n : Pieces(w)[k] = m + k
  <2>1. Pieces(w) \in [1..n -> Ids']
    BY <1>15, <1>16
  <2>2. Pieces(w) \in Seq(Ids') /\ Len(Pieces(w)) = n
    BY <2>1, <1>2, IsSequence
  <2> QED BY <2>2, <1>15
<1>18. /\ DOMAIN sentPackets' = {s \in DOMAIN sentPackets : sentPackets[s] # i}
       /\ sentPackets' \in [DOMAIN sentPackets' -> Ids]
       /\ \A s \in DOMAIN sentPackets' : sentPackets'[s] = sentPackets[s]
  <2> DEFINE tracked == {s \in DOMAIN sentPackets : s = pkts[i].seq /\ sentPackets[s] = i}
  <2>1. tracked = {s \in DOMAIN sentPackets : sentPackets[s] = i}
    BY DEF TrackedOnce
  <2>2. \A s \in DOMAIN sentPackets : sentPackets[s] \in Ids
    BY TypeFacts, Zenon
  <2>3. sentPackets' = Without(sentPackets, tracked)
    BY DEF FitToPath
  <2> QED BY <2>1, <2>2, <2>3 DEF Without
<1>19. Fitted(i, w, n)
  BY <1>2, <1>8, <1>9, <1>11, <1>13, <1>14, <1>16, <1>17, <1>18, Zenon DEF Fitted
<1> QED BY <1>19, Zenon

\* The tracker, the wire and the sequences taken do not mind the split, and
\* the data of packet i is in the pieces.
LEMMA FitTracks ==
    ASSUME Types, TrackedOnce, AckFreesWhatItNames, NEW i \in Ids, NEW w, NEW n, Fitted(i, w, n),
           UNCHANGED <<nextSeq, wire, chunks, num, pc>>
    PROVE  /\ TrackedOnce' /\ AckFreesWhatItNames'
           /\ DOMAIN sentPackets' \subseteq 0..(nextSeq' - 1)
           /\ sentPackets' \in [DOMAIN sentPackets' -> Ids']
           /\ \A q \in Seq(Ids) : q \in Seq(Ids')
           /\ \A j \in Ids : j \in Ids' /\ pkts'[j] = pkts[j]
           /\ \A s \in DOMAIN sentPackets' : s \in DOMAIN sentPackets /\ sentPackets'[s] = sentPackets[s]
           /\ \A j : IsTracked(j)' <=> IsTracked(j) /\ j # i
           /\ pkts' \in Seq(Packets) /\ Pieces(w) \in Seq(Ids')
           /\ \A j \in Ids : ~Among(j, Pieces(w))
           /\ \A c \in pkts[i].carries : \E x \in Ids' :
                Among(x, Pieces(w)) /\ c \in pkts'[x].carries /\ ~pkts'[x].isAcked
<1>1. /\ \A j \in Ids : j \in Ids' /\ pkts'[j] = pkts[j]
      /\ \A s \in DOMAIN sentPackets' :
            s \in DOMAIN sentPackets /\ sentPackets'[s] = sentPackets[s] /\ sentPackets[s] # i
      /\ \A s \in DOMAIN sentPackets : sentPackets[s] # i => s \in DOMAIN sentPackets'
      /\ pkts' \in Seq(Packets) /\ Pieces(w) \in Seq(Ids')
  BY Zenon DEF Fitted
<1>2. TrackedOnce' /\ AckFreesWhatItNames'
  BY <1>1, StillTracked, Zenon
<1>3. \A j : IsTracked(j)' <=> IsTracked(j) /\ j # i
  BY <1>1, Zenon DEF IsTracked
<1>4. DOMAIN sentPackets' \subseteq 0..(nextSeq' - 1)
  BY <1>1, Zenon DEF Types
<1>5. sentPackets' \in [DOMAIN sentPackets' -> Ids']
  <2>1. sentPackets' \in [DOMAIN sentPackets' -> Ids]
    BY Zenon DEF Fitted
  <2> QED BY <2>1, <1>1
<1>6. \A q \in Seq(Ids) : q \in Seq(Ids')
  <2>1. PICK m \in Nat, k \in Nat : m = Len(pkts) /\ k = Len(pkts') /\ m <= k
    <3>1. Len(pkts) \in Nat /\ n \in Nat /\ Len(pkts') = Len(pkts) + n
      BY TypeFacts, Zenon DEF Fitted
    <3>2. \A a, b \in Nat : a + b \in Nat /\ a <= a + b
      OBVIOUS
    <3> QED BY <3>1, <3>2, Zenon
  <2> QED BY <2>1, SeqGrows DEF Ids
<1>7. /\ n = Len(Pieces(w)) /\ \A k \in 1..n : Pieces(w)[k] = Len(pkts) + k
      /\ \A k \in 1..n : Len(pkts) + k \in Ids' \ Ids
      /\ \A j \in Ids' \ Ids : ~pkts'[j].isAcked
      /\ \A c \in pkts[i].carries : \E k \in 1..n : c \in pkts'[Len(pkts) + k].carries
  BY Zenon DEF Fitted
<1>8. ASSUME NEW j \in Ids PROVE ~Among(j, Pieces(w))
  BY <1>7 DEF Among
<1>9. ASSUME NEW c \in pkts[i].carries
      PROVE  \E x \in Ids' : Among(x, Pieces(w)) /\ c \in pkts'[x].carries /\ ~pkts'[x].isAcked
  <2>1. PICK k \in 1..n : c \in pkts'[Len(pkts) + k].carries
    BY <1>7, Zenon
  <2>2. PICK x : x = Len(pkts) + k
    BY Zenon
  <2>3. x \in Ids' /\ ~pkts'[x].isAcked
    BY <2>2, <1>7
  <2>4. Among(x, Pieces(w))
    BY <2>2, <1>7 DEF Among
  <2> QED BY <2>1, <2>2, <2>3, <2>4, Zenon
<1> QED BY <1>1, <1>2, <1>3, <1>4, <1>5, <1>6, <1>8, <1>9, Zenon

\* Splitting packet i into the pieces keeps the data covered, when the pieces
\* are held and nothing else is dropped.
LEMMA SplitCovers ==
    ASSUME Covered, NEW i \in Ids, NEW w, chunks' = chunks, acked' = acked,
           \A j \in Ids : j \in Ids' /\ pkts'[j] = pkts[j],
           \A j \in Ids : Held(j) /\ j # i => Held(j)',
           \A x \in Ids' : Among(x, Pieces(w)) => Held(x)',
           \A c \in pkts[i].carries : \E x \in Ids' :
                Among(x, Pieces(w)) /\ c \in pkts'[x].carries /\ ~pkts'[x].isAcked
    PROVE  Covered'
<1> SUFFICES ASSUME NEW c \in (1..chunks') \ acked'
             PROVE  \E j \in Ids' : Held(j)' /\ c \in pkts'[j].carries /\ ~pkts'[j].isAcked
  BY Zenon DEF Covered
<1>1. c \in (1..chunks) \ acked
  OBVIOUS
<1>2. PICK j \in Ids : Held(j) /\ c \in pkts[j].carries /\ ~pkts[j].isAcked
  BY <1>1, Zenon DEF Covered
<1>3. CASE j = i
  <2>1. c \in pkts[i].carries
    BY <1>2, <1>3
  <2> QED BY <2>1, Zenon
<1>4. CASE j # i
  BY <1>2, <1>4, Zenon
<1> QED BY <1>3, <1>4

\* A lost packet too large for the path is replaced, in the queue, by its
\* pieces.
LEMMA FlushSplitStep ==
    ASSUME RecoveryInv, NEW p \in Procs, FlushSplit(p)
    PROVE  RecoveryInv'
<1> USE DEF RecoveryInv
<1>0. PICK i : i = Head(lostQueue)
  BY Zenon
<1> PICK w \in Sorted(pkts[i].carries) : FitToPath(i, w) /\ lostQueue' = Pieces(w) \o Tail(lostQueue)
  BY <1>0, Zenon DEF FlushSplit
<1>1. /\ lostQueue # <<>> /\ FitToPath(i, w) /\ lostQueue' = Pieces(w) \o Tail(lostQueue)
      /\ UNCHANGED <<nextSeq, wire, acked, chunks, pc, hand, num>>
  BY <1>0, Zenon DEF FlushSplit, netVars
<1>2. PICK t : t = Tail(lostQueue)
  BY Zenon
<1>3. /\ t \in Seq(Ids) /\ i \in Ids
      /\ \A j : Among(j, lostQueue) <=> j = i \/ Among(j, t)
  <2>1. lostQueue \in Seq(Ids)
    BY DEF Types
  <2> QED BY <2>1, <1>0, <1>1, <1>2, AmongTail, Zenon
<1>4. PICK n : Fitted(i, w, n)
  BY <1>1, <1>3, FitFacts, Zenon
<1>5. /\ TrackedOnce' /\ AckFreesWhatItNames'
      /\ DOMAIN sentPackets' \subseteq 0..(nextSeq' - 1)
      /\ sentPackets' \in [DOMAIN sentPackets' -> Ids']
      /\ \A q \in Seq(Ids) : q \in Seq(Ids')
      /\ \A j \in Ids : j \in Ids' /\ pkts'[j] = pkts[j]
      /\ \A s \in DOMAIN sentPackets' : s \in DOMAIN sentPackets /\ sentPackets'[s] = sentPackets[s]
      /\ \A j : IsTracked(j)' <=> IsTracked(j) /\ j # i
      /\ pkts' \in Seq(Packets) /\ Pieces(w) \in Seq(Ids')
      /\ \A j \in Ids : ~Among(j, Pieces(w))
      /\ \A c \in pkts[i].carries : \E x \in Ids' :
           Among(x, Pieces(w)) /\ c \in pkts'[x].carries /\ ~pkts'[x].isAcked
  BY <1>1, <1>3, <1>4, FitTracks, Zenon
<1>6. /\ lostQueue' \in Seq(Ids')
      /\ \A j : Among(j, lostQueue') <=> Among(j, Pieces(w)) \/ Among(j, t)
  <2>1. t \in Seq(Ids')
    BY <1>3, <1>5, Zenon
  <2>2. lostQueue' = Pieces(w) \o t
    BY <1>1, <1>2
  <2>3. /\ Pieces(w) \o t \in Seq(Ids')
        /\ \A j : Among(j, Pieces(w) \o t) <=> Among(j, Pieces(w)) \/ Among(j, t)
    BY <2>1, <1>5, AmongConcat, Zenon
  <2> QED BY <2>2, <2>3, Zenon
<1>7. Types'
  <2>1. \A q \in Procs : hand[q] \in Seq(Ids')
    BY <1>5, TypeFacts, Zenon
  <2>2. hand' \in [Procs -> Seq(Ids')]
    BY <2>1, <1>1 DEF Types
  <2> QED BY <2>2, <1>1, <1>5, <1>6, Zenon DEF Types
<1>8. Numbered'
  <2>1. \A q \in Procs : Carrying(q) => OwnNumber(q)
    BY Zenon DEF Numbered
  <2>2. \A q \in Procs : Carrying(q)' => Carrying(q)
    BY <1>1, Zenon DEF Carrying
  <2>3. \A q \in Procs : Carrying(q) => OwnNumber(q)'
    BY <2>1, <1>1, <1>5, Zenon DEF OwnNumber
  <2> QED BY <2>2, <2>3, <1>1, Zenon DEF Numbered
<1>9. Registering'
  <2>1. ASSUME NEW q \in Procs, NEW j \in Ids, Registers(q, j) PROVE Registers(q, j)'
    <3>1. Unshared(j, q)'
      BY <2>1, <1>1, <1>3, <1>5, <1>6, Zenon DEF Registers, Unshared
    <3> QED BY <2>1, <3>1, <1>1, <1>5, Zenon DEF Registers
  <2> QED BY <2>1, <1>1, <1>5, Zenon DEF Registering
<1>10. Covered'
  <2>1. \A j \in Ids : Held(j) /\ j # i => Held(j)'
    BY <1>1, <1>3, <1>5, <1>6, Zenon DEF Held, Keeps
  <2>2. \A x \in Ids' : Among(x, Pieces(w)) => Held(x)'
    BY <1>6, Zenon DEF Held
  <2> QED BY <2>1, <2>2, <1>1, <1>3, <1>5, SplitCovers, Zenon
<1> QED BY <1>5, <1>7, <1>8, <1>9, <1>10

\* A probe too large for the path is replaced, in the hands of the PTO
\* callback, by its pieces.
LEMMA ProbeSplitStep ==
    ASSUME RecoveryInv, NEW p \in Procs, ProbeSplit(p)
    PROVE  RecoveryInv'
<1> USE DEF RecoveryInv
<1>0. PICK i : i = Head(hand[p])
  BY Zenon
<1> PICK w \in Sorted(pkts[i].carries) :
        FitToPath(i, w) /\ hand' = [hand EXCEPT ![p] = Pieces(w) \o Tail(@)]
  BY <1>0, Zenon DEF ProbeSplit
<1>1. /\ pc[p] = "probe" /\ hand[p] # <<>> /\ FitToPath(i, w)
      /\ hand' = [hand EXCEPT ![p] = Pieces(w) \o Tail(hand[p])]
      /\ UNCHANGED <<nextSeq, lostQueue, wire, acked, chunks, pc, num>>
  BY <1>0, Zenon DEF ProbeSplit, netVars, lostVars, Types
<1>2. PICK t, h : t = Tail(hand[p]) /\ h = Pieces(w) \o Tail(hand[p])
  BY Zenon
<1>3. /\ t \in Seq(Ids) /\ i \in Ids
      /\ \A j : Among(j, hand[p]) <=> j = i \/ Among(j, t)
  <2>1. hand[p] \in Seq(Ids)
    BY DEF Types
  <2> QED BY <2>1, <1>0, <1>1, <1>2, AmongTail, Zenon
<1>4. PICK n : Fitted(i, w, n)
  BY <1>1, <1>3, FitFacts, Zenon
<1>5. /\ TrackedOnce' /\ AckFreesWhatItNames'
      /\ DOMAIN sentPackets' \subseteq 0..(nextSeq' - 1)
      /\ sentPackets' \in [DOMAIN sentPackets' -> Ids']
      /\ \A q \in Seq(Ids) : q \in Seq(Ids')
      /\ \A j \in Ids : j \in Ids' /\ pkts'[j] = pkts[j]
      /\ \A s \in DOMAIN sentPackets' : s \in DOMAIN sentPackets /\ sentPackets'[s] = sentPackets[s]
      /\ \A j : IsTracked(j)' <=> IsTracked(j) /\ j # i
      /\ pkts' \in Seq(Packets) /\ Pieces(w) \in Seq(Ids')
      /\ \A j \in Ids : ~Among(j, Pieces(w))
      /\ \A c \in pkts[i].carries : \E x \in Ids' :
           Among(x, Pieces(w)) /\ c \in pkts'[x].carries /\ ~pkts'[x].isAcked
  BY <1>1, <1>3, <1>4, FitTracks, Zenon
<1>6. /\ h \in Seq(Ids')
      /\ \A j : Among(j, h) <=> Among(j, Pieces(w)) \/ Among(j, t)
  <2>1. t \in Seq(Ids')
    BY <1>3, <1>5, Zenon
  <2> QED BY <2>1, <1>2, <1>5, AmongConcat, Zenon
<1>7. /\ \A q \in Procs : q # p => hand'[q] = hand[q]
      /\ hand'[p] = h
  BY <1>1, <1>2, Zenon DEF Types
<1>8. Types'
  <2>1. \A q \in Procs : hand[q] \in Seq(Ids')
    BY <1>5, TypeFacts, Zenon
  <2>2. hand' \in [Procs -> Seq(Ids')]
    BY <2>1, <1>1, <1>2, <1>6 DEF Types
  <2>3. lostQueue' \in Seq(Ids')
    BY <1>1, <1>5, Zenon DEF Types
  <2> QED BY <2>2, <2>3, <1>1, <1>5, Zenon DEF Types
<1>9. /\ ~Carrying(p)' /\ pc'[p] # "register" /\ Keeps(p)'
      /\ \A q \in Procs : Carrying(q)' => Carrying(q)
      /\ \A q \in Procs : Keeps(q) => Keeps(q)'
  BY <1>1 DEF Carrying, Keeps
<1>10. Numbered'
  <2>1. \A q \in Procs : Carrying(q) => OwnNumber(q)
    BY Zenon DEF Numbered
  <2>2. \A q \in Procs : q # p /\ Carrying(q)' => KeepsNumber(q)
    BY <2>1, <1>1, <1>5, <1>7, <1>9, Zenon DEF KeepsNumber, OwnNumber
  <2> QED BY <2>2, <1>9, StillNumbered, Zenon
<1>11. Registering'
  <2>1. ASSUME NEW q \in Procs, NEW j \in Ids, q # p, Registers(q, j) PROVE KeepsPacket(q, j)
    <3>1. ~Among(j, h)
      BY <2>1, <1>3, <1>5, <1>6, Zenon DEF Registers, Unshared
    <3>2. Unshared(j, q)'
      BY <2>1, <3>1, <1>1, <1>5, <1>7, Zenon DEF Registers, Unshared
    <3> QED BY <2>1, <3>2, <1>5, Zenon DEF Registers, KeepsPacket
  <2> QED BY <2>1, <1>1, <1>7, <1>9, StillRegistering, Zenon
<1>12. Covered'
  <2>1. \A j \in Ids : Held(j) /\ j # i => Held(j)'
    BY <1>1, <1>3, <1>5, <1>6, <1>7, <1>9, Zenon DEF Held
  <2>2. \A x \in Ids' : Among(x, Pieces(w)) => Held(x)'
    BY <1>6, <1>7, <1>9, Zenon DEF Held
  <2> QED BY <2>1, <2>2, <1>1, <1>3, <1>5, SplitCovers, Zenon
<1> QED BY <1>5, <1>8, <1>10, <1>11, <1>12

-----------------------------------------------------------------------------
\* The invariant holds initially, is kept by every step, and so always holds.
LEMMA RecoveryInit == Init => RecoveryInv
<1> SUFFICES ASSUME Init PROVE RecoveryInv
  OBVIOUS
<1> USE DEF Init
<1>1. Len(pkts) = 0 /\ Ids = {} /\ DOMAIN sentPackets = {} /\ DOMAIN wire = {}
  BY DEF Ids
<1>2. Types
  <2>1. pkts \in Seq(Packets) /\ lostQueue \in Seq(Ids) /\ <<>> \in Seq(Ids)
    OBVIOUS
  <2>2. sentPackets \in [DOMAIN sentPackets -> Ids]
    BY <1>1
  <2> QED BY <2>1, <2>2, <1>1 DEF Types, Labels
<1>3. TrackedOnce /\ AckFreesWhatItNames /\ Covered
  BY <1>1 DEF TrackedOnce, AckFreesWhatItNames, Covered
<1>4. Numbered /\ Registering
  BY DEF Numbered, Carrying, Registering
<1> QED BY <1>2, <1>3, <1>4 DEF RecoveryInv

\* One step per handler.
LEMMA RecoveryStep == RecoveryInv /\ [Next]_vars => RecoveryInv'
<1> SUFFICES ASSUME RecoveryInv, [Next]_vars PROVE RecoveryInv'
  OBVIOUS
<1>1. CASE HandleAckFrame
  BY <1>1, AckStep
<1>2. CASE OnPacketAcked \/ LossTimerFires \/ PacerFires
  <2>1. Inbound \in Procs
    BY DEF Procs
  <2> QED BY <2>1, <1>2, QuietSteps
<1>3. ASSUME NEW p \in Procs,
             \/ PrepareDataPacket(p) \/ SendPacket(p) \/ OnPacketSent(p) \/ Transmit(p)
             \/ DetectLostPackets(p) \/ OnPacketLost(p) \/ QueueLost(p)
             \/ EnterFlush(p) \/ FlushSkip(p) \/ FlushSplit(p) \/ FlushResend(p) \/ FlushStop(p)
             \/ PtoFires(p) \/ PtoExpired(p) \/ PickProbes(p)
             \/ ProbeSplit(p) \/ ProbeResend(p) \/ RearmPto(p)
      PROVE  RecoveryInv'
  BY <1>3, PrepareStep, RegisterStep, TransmitStep, DetectStep, QueueStep, SkipStep,
     FlushSplitStep, ResendStep, ProbeSplitStep, ProbeResendStep, QuietSteps
<1>4. CASE UNCHANGED vars
  <2>1. UNCHANGED <<pkts, sentPackets, nextSeq, lostQueue, wire, acked, chunks, pc, hand, num>>
    BY <1>4 DEF vars, pmVars, lostVars, netVars
  <2>2. Ids' = Ids
    BY <2>1 DEF Ids
  <2>3. Types' /\ TrackedOnce' /\ AckFreesWhatItNames'
    BY <2>1, <2>2 DEF RecoveryInv, Types, TrackedOnce, AckFreesWhatItNames
  <2>4. Numbered' /\ Registering'
    <3>1. \A j : IsTracked(j)' <=> IsTracked(j)
      BY <2>1, Zenon DEF IsTracked
    <3>2. \A q \in Procs, j \in Ids : Registers(q, j) => Registers(q, j)'
      BY <2>1, <3>1, Zenon DEF Registers, Unshared
    <3>3. Registering'
      BY <2>1, <2>2, <3>2, Zenon DEF RecoveryInv, Registering
    <3> QED BY <2>1, <3>3, Zenon DEF RecoveryInv, Numbered, Carrying, OwnNumber
  <2>5. Covered'
    BY <2>1, <2>2, Zenon DEF RecoveryInv, Covered, Held, Keeps, IsTracked
  <2> QED BY <2>3, <2>4, <2>5 DEF RecoveryInv
<1> QED BY <1>1, <1>2, <1>3, <1>4 DEF Next

\* The invariant holds in every behaviour of the goroutines.
LEMMA RecoveryAlways == Spec => []RecoveryInv
  BY RecoveryInit, RecoveryStep, PTL DEF Spec

\* Whatever goroutines overlap (the ACK path, loss detection, a flush, a PTO,
\* writers), a packet in sentPackets is there once, under the sequence it was
\* last sent under, and not yet acknowledged: the check in Resend and in
\* fitToPath finds the only entry.
THEOREM PacketsTrackedOnce == Spec => []TrackedOnce
<1>1. RecoveryInv => TrackedOnce
  BY DEF RecoveryInv
<1> QED BY <1>1, RecoveryAlways, PTL

\* An ACK of a sequence releases the chunks that went out under that sequence,
\* though packets are re-keyed and split between sending and acknowledgement.
THEOREM AcksFreeWhatTheyName == Spec => []AckFreesWhatItNames
<1>1. RecoveryInv => AckFreesWhatItNames
  BY DEF RecoveryInv
<1> QED BY <1>1, RecoveryAlways, PTL

\* Data that is not acknowledged is never dropped between the tracker, the
\* queue of lost packets and the goroutines passing packets from one to the
\* other.
THEOREM DataIsHeld == Spec => []DataHeld
<1>1. RecoveryInv => DataHeld
  <2> SUFFICES ASSUME RecoveryInv, NEW c \in (1..chunks) \ acked
               PROVE  \E i \in Live : c \in pkts[i].carries /\ ~pkts[i].isAcked
    BY DEF DataHeld
  <2>1. PICK i \in Ids : Held(i) /\ c \in pkts[i].carries /\ ~pkts[i].isAcked
    BY DEF RecoveryInv, Covered
  <2>2. DOMAIN lostQueue = 1..Len(lostQueue) /\ \A p \in Procs : DOMAIN hand[p] = 1..Len(hand[p])
    BY DEF RecoveryInv, Types
  <2>3. i \in Live
    <3>1. \A j : Among(j, lostQueue) => j \in Range(lostQueue)
      BY <2>2 DEF Among, Range
    <3>2. \A p \in Procs : \A j : Among(j, hand[p]) => j \in Range(hand[p])
      BY <2>2 DEF Among, Range
    <3> QED BY <2>1, <3>1, <3>2 DEF Held, Live, IsTracked
  <2> QED BY <2>1, <2>3
<1> QED BY <1>1, RecoveryAlways, PTL

=============================================================================
