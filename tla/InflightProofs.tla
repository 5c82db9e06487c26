--------------------------- MODULE InflightProofs ---------------------------
(***************************************************************************)
(* Proofs about LossRecovery for behaviours in which goroutines do not     *)
(* overlap: the bytes in flight are counted exactly, so some timer runs    *)
(* while data is out.                                                      *)
(***************************************************************************)
EXTENDS LossRecoveryProofs, SetLemmas

Tracked == Load(pkts, sentPackets)

\* The count, between a change to what is tracked and the booking of it.
CountedAt(p) ==
    /\ pc[p] = "book" => inflight + Load(pkts, hand[p]) = Tracked
    /\ pc[p] \in {"acked", "lost"} => inflight = Tracked + Load(pkts, hand[p])
    /\ pc[p] \notin {"book", "acked", "lost"} => inflight = Tracked

Untracked(q) == Distinct(q) /\ \A i : Among(i, q) => ~IsTracked(i)

\* A lost packet waits in one place, untracked; a probe is still tracked.
PartedAt(p) ==
    /\ Untracked(lostQueue)
    /\ pc[p] \in {"lost", "queue"} => Untracked(hand[p]) /\ Separate(hand[p], lostQueue)
    /\ pc[p] = "probe" => \A i : Among(i, hand[p]) => IsTracked(i)

\* A goroutine that goes on to flush the queue.
Flushing(p) ==
    \/ pc[p] \in {"acked", "lost", "queue", "enter", "flush"}
    \/ pc[p] = "detect" /\ p = Inbound
    \/ pc[p] \in {"book", "transmit"} /\ p \notin Writers

\* The PTO runs, or is being handled, while bytes are in flight; a queue that
\* nobody is flushing is waiting for the pacer or for an ACK.
TimersAt(p) ==
    /\ inflight \in Nat /\ strayTimers \in Nat
    /\ inflight > 0 /\ pc[p] \notin {"expired", "pick", "probe"} =>
        ptoTimer = "armed" \/ strayTimers > 0
    /\ pc[p] \in {"pick", "probe"} => ptoTimer = "nil"
    /\ lostQueue # <<>> /\ ~Flushing(p) => lostTimer \/ inflight > 0
    /\ p \in Writers => pc[p] \in {"idle", "register", "book", "transmit", "expired", "pick", "probe"}

\* No goroutine but p is at work.
Alone(p) == \A q \in Procs \ {p} : pc[q] = "idle"

Focus(p) == Alone(p) /\ CountedAt(p) /\ PartedAt(p) /\ TimersAt(p)

SequentialInv == ~overlaps /\ ~unbooked => \E p \in Procs : Focus(p)

\* Bytes and InflightExact in terms of Load.
LEMMA BytesIsLoad == \A ids : Bytes(ids) = Load(pkts, ids)
  BY DEF Bytes, Load

\* The load of what is tracked and of what a goroutine holds.
LEMMA LoadFacts ==
    ASSUME Types
    PROVE  /\ IsFiniteSet(DOMAIN sentPackets) /\ Tracked \in Nat
           /\ DOMAIN sentPackets # {} => Tracked > 0
           /\ \A s \in DOMAIN sentPackets : pkts[sentPackets[s]].size \in Nat
           /\ \A q \in Seq(Ids) : IsFiniteSet(DOMAIN q) /\ Load(pkts, q) \in Nat
           /\ Load(pkts, <<>>) = 0
<1>1. \A i \in Ids : pkts[i].size \in Nat \ {0}
  BY TypeFacts
<1>2. \A s \in DOMAIN sentPackets : pkts[sentPackets[s]].size \in Nat \ {0}
  BY <1>1, TypeFacts
<1>3. IsFiniteSet(DOMAIN sentPackets)
  <2>1. PICK m \in Int : DOMAIN sentPackets \subseteq 0..m
    BY DEF Types
  <2>2. IsFiniteSet(0..m)
    BY FS_Interval
  <2> QED BY <2>1, <2>2, FS_Subset, Zenon
<1>4. Tracked \in Nat /\ (DOMAIN sentPackets # {} => Tracked > 0)
  BY <1>2, <1>3, LoadType DEF Tracked
<1>5. ASSUME NEW q \in Seq(Ids) PROVE IsFiniteSet(DOMAIN q) /\ Load(pkts, q) \in Nat
  <2>1. PICK n \in Nat : DOMAIN q = 1..n
    OBVIOUS
  <2>2. IsFiniteSet(DOMAIN q)
    BY <2>1, FS_Interval
  <2>3. \A k \in DOMAIN q : pkts[q[k]].size \in Nat \ {0}
    BY <1>1
  <2> QED BY <2>2, <2>3, LoadType
<1>6. Load(pkts, <<>>) = 0
  <2>1. PICK q : q = <<>>
    BY Zenon
  <2>2. DOMAIN q = {}
    BY <2>1
  <2>3. IsFiniteSet(DOMAIN q)
    BY <2>2, FS_EmptySet
  <2> QED BY <2>1, <2>2, <2>3, LoadType
<1> QED BY <1>2, <1>3, <1>4, <1>5, <1>6

\* The goroutine about to act is the one at work, or anyone may be.
LEMMA Refocus ==
    ASSUME NEW r \in Procs, Focus(r), NEW p \in Procs, pc[p] # "idle" \/ Idle
    PROVE  Focus(p)
<1>1. CASE r = p
  BY <1>1
<1>2. CASE r # p
  <2>1. pc[p] = "idle" /\ pc[r] = "idle"
    BY <1>2 DEF Focus, Alone, Idle
  <2>2. Alone(p)
    BY <2>1, <1>2, Zenon DEF Focus, Alone
  <2>3. CountedAt(p)
    BY <2>1, Zenon DEF Focus, CountedAt
  <2>4. PartedAt(p)
    BY <2>1 DEF Focus, PartedAt
  <2>5. TimersAt(p)
    BY <2>1 DEF Focus, TimersAt, Flushing
  <2> QED BY <2>2, <2>3, <2>4, <2>5, Zenon DEF Focus
<1> QED BY <1>1, <1>2

-----------------------------------------------------------------------------
\* Through a step that tracks no queued packet the queue stays untracked.
LEMMA StillParted ==
    ASSUME NEW p, PartedAt(p), lostQueue' = lostQueue,
           \A j : Among(j, lostQueue) /\ IsTracked(j)' => IsTracked(j),
           pc'[p] \notin {"lost", "queue", "probe"}
    PROVE  PartedAt(p)'
  BY Zenon DEF PartedAt, Untracked

\* Steps that leave the packets alone, and book no bytes.
LEMMA QuietFocus ==
    ASSUME RecoveryInv, NEW p \in Procs, Focus(p), NEW l \in Labels,
           UNCHANGED <<pkts, sentPackets, lostQueue, inflight, hand>>,
           pc' = [pc EXCEPT ![p] = l], {pc[p], l} \cap {"book", "acked", "lost"} = {},
           l # "probe", l = "queue" => pc[p] = "queue", TimersAt(p)'
    PROVE  Focus(p)'
<1>1. pc'[p] = l /\ \A q \in Procs : q # p => pc'[q] = pc[q]
  BY DEF RecoveryInv, Types
<1>2. Alone(p)'
  BY <1>1, Zenon DEF Focus, Alone
<1>3. CountedAt(p)'
  BY <1>1, Zenon DEF Focus, CountedAt, Tracked
<1>4. PartedAt(p)'
  BY <1>1, Zenon DEF Focus, PartedAt, Untracked, IsTracked
<1> QED BY <1>2, <1>3, <1>4, Zenon DEF Focus

\* Timers fire, flushes begin and end.
LEMMA TimerFocus ==
    ASSUME RecoveryInv, NEW p \in Procs, Focus(p),
           \/ (LossTimerFires /\ p = Loss) \/ (PacerFires /\ p = Pacer)
           \/ EnterFlush(p) \/ FlushStop(p)
           \/ PtoFires(p) \/ PtoExpired(p) \/ RearmPto(p)
    PROVE  Focus(p)'
<1>0. Types /\ TimersAt(p) /\ pc \in [Procs -> Labels]
  BY DEF Focus, RecoveryInv, Types
<1> USE DEF Goto, pmVars, ccVars, lostVars
<1>1. CASE LossTimerFires /\ p = Loss
  <2>1. /\ pc[p] = "idle" /\ pc' = [pc EXCEPT ![p] = "detect"]
        /\ UNCHANGED <<pkts, sentPackets, lostQueue, inflight, hand, ptoTimer, strayTimers, lostTimer>>
    BY <1>1 DEF LossTimerFires, MayStart
  <2>2. pc'[p] = "detect" /\ p \notin Writers
    BY <2>1, <1>0, <1>1, RolesAssumption
  <2>3. TimersAt(p)'
    BY <2>1, <2>2, <1>0 DEF TimersAt, Flushing
  <2> QED BY <2>1, <2>3, QuietFocus, Zenon DEF Labels
<1>2. CASE PacerFires /\ p = Pacer
  <2>1. /\ pc[p] = "idle" /\ pc' = [pc EXCEPT ![p] = "enter"]
        /\ UNCHANGED <<pkts, sentPackets, lostQueue, inflight, hand, ptoTimer, strayTimers>>
    BY <1>2 DEF PacerFires, MayStart
  <2>2. pc'[p] = "enter" /\ p \notin Writers
    BY <2>1, <1>0, <1>2, RolesAssumption
  <2>3. TimersAt(p)'
    BY <2>1, <2>2, <1>0 DEF TimersAt, Flushing
  <2> QED BY <2>1, <2>3, QuietFocus, Zenon DEF Labels
<1>3. CASE EnterFlush(p)
  <2>1. /\ pc[p] = "enter" /\ pc' = [pc EXCEPT ![p] = "flush"]
        /\ UNCHANGED <<pkts, sentPackets, lostQueue, inflight, hand, ptoTimer, strayTimers>>
    BY <1>3 DEF EnterFlush
  <2>2. pc'[p] = "flush" /\ p \notin Writers
    BY <2>1, <1>0 DEF TimersAt
  <2>3. TimersAt(p)'
    BY <2>1, <2>2, <1>0 DEF TimersAt, Flushing
  <2> QED BY <2>1, <2>3, QuietFocus, Zenon DEF Labels
<1>4. CASE FlushStop(p)
  <2>1. /\ pc[p] = "flush" /\ pc' = [pc EXCEPT ![p] = "idle"]
        /\ UNCHANGED <<pkts, sentPackets, lostQueue, inflight, hand, ptoTimer, strayTimers>>
        /\ lostQueue = <<>> \/ inflight > 0 \/ lostTimer'
    BY <1>4 DEF FlushStop
  <2>2. pc'[p] = "idle"
    BY <2>1, <1>0
  <2>3. TimersAt(p)'
    BY <2>1, <2>2, <1>0 DEF TimersAt
  <2> QED BY <2>1, <2>3, QuietFocus, Zenon DEF Labels
<1>5. CASE PtoFires(p)
  <2>1. /\ pc[p] = "idle" /\ pc' = [pc EXCEPT ![p] = "expired"]
        /\ UNCHANGED <<pkts, sentPackets, lostQueue, inflight, hand, lostTimer>>
        /\ strayTimers' = strayTimers \/ (strayTimers > 0 /\ strayTimers' = strayTimers - 1)
    BY <1>5 DEF PtoFires, MayStart
  <2>2. pc'[p] = "expired" /\ strayTimers' \in Nat
    BY <2>1, <1>0 DEF TimersAt
  <2>3. TimersAt(p)'
    BY <2>1, <2>2, <1>0 DEF TimersAt, Flushing
  <2> QED BY <2>1, <2>3, QuietFocus, Zenon DEF Labels
<1>6. CASE PtoExpired(p)
  <2>1. /\ pc[p] = "expired" /\ pc' = [pc EXCEPT ![p] = "pick"] /\ ptoTimer' = "nil"
        /\ UNCHANGED <<pkts, sentPackets, lostQueue, inflight, hand, lostTimer>>
        /\ strayTimers' = strayTimers + (IF ptoTimer = "armed" THEN 1 ELSE 0)
    BY <1>6 DEF PtoExpired
  <2>2. pc'[p] = "pick" /\ strayTimers' \in Nat
    BY <2>1, <1>0 DEF TimersAt
  <2>3. TimersAt(p)'
    BY <2>1, <2>2, <1>0 DEF TimersAt, Flushing
  <2> QED BY <2>1, <2>3, QuietFocus, Zenon DEF Labels
<1>7. CASE RearmPto(p)
  <2>1. /\ pc[p] = "probe" /\ pc' = [pc EXCEPT ![p] = "idle"]
        /\ UNCHANGED <<pkts, sentPackets, lostQueue, inflight, hand, lostTimer, strayTimers>>
        /\ ptoTimer' = IF inflight > 0 /\ ptoTimer = "nil" THEN "armed" ELSE ptoTimer
    BY <1>7, Zenon DEF RearmPto
  <2>2. pc'[p] = "idle" /\ ptoTimer = "nil"
    BY <2>1, <1>0 DEF TimersAt
  <2>3. TimersAt(p)'
    BY <2>1, <2>2, <1>0 DEF TimersAt, Flushing
  <2> QED BY <2>1, <2>3, QuietFocus, Zenon DEF Labels
<1> QED BY <1>1, <1>2, <1>3, <1>4, <1>5, <1>6, <1>7

\* Bytes are booked when a packet is sent, acknowledged or lost.
LEMMA BookFocus ==
    ASSUME RecoveryInv, NEW p \in Procs, Focus(p),
           OnPacketSent(p) \/ (OnPacketAcked /\ p = Inbound) \/ OnPacketLost(p)
    PROVE  Focus(p)'
<1>0. Types /\ TimersAt(p) /\ pc \in [Procs -> Labels] /\ hand[p] \in Seq(Ids)
  BY DEF Focus, RecoveryInv, Types
<1>1. PICK b \in Nat : b = Load(pkts, hand[p])
  BY <1>0, LoadFacts
<1>2. Tracked \in Nat /\ inflight \in Nat
  BY <1>0, LoadFacts DEF TimersAt
<1>3. UNCHANGED <<pkts, sentPackets, lostQueue, lostTimer>>
  BY DEF OnPacketSent, OnPacketAcked, OnPacketLost, pmVars, lostVars
<1>4. Tracked' = Tracked /\ \A j : IsTracked(j)' <=> IsTracked(j)
  BY <1>3, Zenon DEF Tracked, IsTracked
<1> USE DEF Goto, ccVars
<1>5. CASE OnPacketSent(p)
  <2>1. /\ pc[p] = "book" /\ pc' = [pc EXCEPT ![p] = "transmit"] /\ ptoTimer' = "armed"
        /\ inflight' = inflight + b /\ UNCHANGED <<hand, strayTimers>>
    BY <1>1, <1>5, BytesIsLoad DEF OnPacketSent
  <2>2. pc'[p] = "transmit" /\ \A q \in Procs : q # p => pc'[q] = pc[q]
    BY <2>1, <1>0
  <2>3. CountedAt(p)'
    <3>1. inflight + b = Tracked
      BY <2>1, <1>1, Zenon DEF Focus, CountedAt
    <3> QED BY <3>1, <2>1, <2>2, <1>4, Zenon DEF CountedAt
  <2>4. TimersAt(p)'
    BY <2>1, <2>2, <1>0, <1>2, <1>3 DEF TimersAt, Flushing
  <2>5. Alone(p)'
    BY <2>2, Zenon DEF Focus, Alone
  <2>6. PartedAt(p)'
    BY <2>2, <1>3, <1>4, StillParted DEF Focus
  <2> QED BY <2>3, <2>4, <2>5, <2>6, Zenon DEF Focus
<1>6. CASE OnPacketAcked /\ p = Inbound
  <2>1. /\ pc[p] = "acked" /\ pc' = [pc EXCEPT ![p] = "detect"]
        /\ ptoTimer' = IF inflight' > 0 THEN "armed" ELSE "nil"
        /\ inflight' = NonNegative(inflight - b) /\ UNCHANGED strayTimers
    BY <1>1, <1>6, BytesIsLoad DEF OnPacketAcked
  <2>2. pc'[p] = "detect" /\ \A q \in Procs : q # p => pc'[q] = pc[q]
    BY <2>1, <1>0
  <2>3. inflight = Tracked + b
    BY <2>1, <1>1, Zenon DEF Focus, CountedAt
  <2>4. inflight' = Tracked
    BY <2>1, <2>3, <1>1, <1>2 DEF NonNegative
  <2>5. CountedAt(p)'
    BY <2>2, <2>4, <1>4, Zenon DEF CountedAt
  <2>6. TimersAt(p)'
    BY <2>1, <2>2, <2>4, <1>0, <1>2, <1>6 DEF TimersAt, Flushing
  <2>7. Alone(p)'
    BY <2>2, Zenon DEF Focus, Alone
  <2>8. PartedAt(p)'
    BY <2>2, <1>3, <1>4, StillParted DEF Focus
  <2> QED BY <2>5, <2>6, <2>7, <2>8, Zenon DEF Focus
<1>7. CASE OnPacketLost(p)
  <2>1. /\ pc[p] = "lost" /\ pc' = [pc EXCEPT ![p] = "queue"]
        /\ inflight' = NonNegative(inflight - b) /\ UNCHANGED <<hand, ptoTimer, strayTimers>>
    BY <1>1, <1>7, BytesIsLoad DEF OnPacketLost
  <2>2. pc'[p] = "queue" /\ \A q \in Procs : q # p => pc'[q] = pc[q]
    BY <2>1, <1>0
  <2>3. inflight = Tracked + b
    BY <2>1, <1>1, Zenon DEF Focus, CountedAt
  <2>4. inflight' = Tracked
    BY <2>1, <2>3, <1>1, <1>2 DEF NonNegative
  <2>5. CountedAt(p)'
    BY <2>2, <2>4, <1>4, Zenon DEF CountedAt
  <2>6. TimersAt(p)'
    BY <2>1, <2>2, <2>3, <2>4, <1>0, <1>2 DEF TimersAt, Flushing
  <2>7. Alone(p)'
    BY <2>2, Zenon DEF Focus, Alone
  <2>8. PartedAt(p)'
    BY <2>1, <2>2, <1>3, <1>4, Zenon DEF Focus, PartedAt, Untracked
  <2> QED BY <2>5, <2>6, <2>7, <2>8, Zenon DEF Focus
<1> QED BY <1>5, <1>6, <1>7

\* The probes chosen are tracked.
LEMMA PickFocus ==
    ASSUME RecoveryInv, NEW p \in Procs, Focus(p), PickProbes(p)
    PROVE  Focus(p)'
<1>0. Types /\ TimersAt(p) /\ pc \in [Procs -> Labels] /\ hand \in [Procs -> Seq(Ids)]
  BY DEF Focus, RecoveryInv, Types
<1>1. PICK oldest \in SUBSET DOMAIN sentPackets :
        \E w \in Sorted(oldest) : hand' = [hand EXCEPT ![p] = InOrder(w)]
  BY Zenon DEF PickProbes
<1> PICK w \in Sorted(oldest) : hand' = [hand EXCEPT ![p] = InOrder(w)]
  BY <1>1, Zenon
<1> PICK h : h = InOrder(w)
  BY Zenon
<1>2. /\ UNCHANGED <<pkts, sentPackets, lostQueue, inflight, ptoTimer, strayTimers, lostTimer>>
      /\ pc[p] = "pick" /\ pc' = [pc EXCEPT ![p] = "probe"]
  BY DEF PickProbes, Goto, pmVars, ccVars, lostVars
<1>3. /\ \A q \in Procs : q # p => pc'[q] = pc[q]
      /\ pc'[p] = "probe" /\ hand'[p] = h
  BY <1>0, <1>1, <1>2
<1>4. /\ \A i : Among(i, h) => IsTracked(i)
      /\ \A i : IsTracked(i)' <=> IsTracked(i)
  <2>1. \A i : Among(i, InOrder(w)) <=> \E s \in oldest : sentPackets[s] = i
    BY <1>0, ProbesTracked, Zenon
  <2>2. \A i : Among(i, InOrder(w)) => IsTracked(i)
    BY <2>1, Zenon DEF IsTracked
  <2>3. \A i : IsTracked(i)' <=> IsTracked(i)
    BY <1>2, Zenon DEF IsTracked
  <2> QED BY <2>2, <2>3
<1>5. Alone(p)'
  BY <1>3, Zenon DEF Focus, Alone
<1>6. CountedAt(p)'
  BY <1>2, <1>3, Zenon DEF Focus, CountedAt, Tracked
<1>7. PartedAt(p)'
  BY <1>2, <1>3, <1>4, Zenon DEF Focus, PartedAt, Untracked
<1>8. TimersAt(p)'
  BY <1>0, <1>2, <1>3 DEF TimersAt, Flushing
<1> QED BY <1>5, <1>6, <1>7, <1>8, Zenon DEF Focus

\* A packet made but not yet tracked counts for nothing.
LEMMA PrepareFocus ==
    ASSUME RecoveryInv, NEW p \in Procs, Focus(p), PrepareDataPacket(p)
    PROVE  Focus(p)'
<1>0. Types /\ TimersAt(p) /\ pc \in [Procs -> Labels]
  BY DEF Focus, RecoveryInv, Types
<1>1. PICK x : pkts' = Append(pkts, x)
  BY DEF PrepareDataPacket
<1>2. /\ pc[p] = "idle" /\ pc' = [pc EXCEPT ![p] = "register"]
      /\ UNCHANGED <<sentPackets, lostQueue, inflight, ptoTimer, strayTimers, lostTimer>>
  BY DEF PrepareDataPacket, MayStart, Goto, ccVars, lostVars
<1>3. pc'[p] = "register" /\ \A q \in Procs : q # p => pc'[q] = pc[q]
  BY <1>0, <1>2
<1>4. Tracked' = Tracked
  <2>1. \A i \in Ids : pkts'[i] = pkts[i]
    BY <1>0, <1>1 DEF Types, Ids
  <2>2. \A s \in DOMAIN sentPackets : pkts[sentPackets[s]].size = pkts'[sentPackets[s]].size
    BY <2>1, <1>0, TypeFacts, SMTT(20)
  <2>3. IsFiniteSet(DOMAIN sentPackets)
    BY <1>0, LoadFacts
  <2>4. Load(pkts, sentPackets) = Load(pkts', sentPackets)
    BY <2>2, <2>3, LoadSame DEF SameSizes
  <2> QED BY <2>4, <1>2 DEF Tracked
<1>5. Alone(p)'
  BY <1>3, Zenon DEF Focus, Alone
<1>6. CountedAt(p)'
  BY <1>2, <1>3, <1>4, Zenon DEF Focus, CountedAt
<1>7. PartedAt(p)'
  <2>1. \A j : IsTracked(j)' <=> IsTracked(j)
    BY <1>2, Zenon DEF IsTracked
  <2> QED BY <2>1, <1>2, <1>3, StillParted DEF Focus
<1>8. TimersAt(p)'
  BY <1>0, <1>2, <1>3 DEF TimersAt, Flushing
<1> QED BY <1>5, <1>6, <1>7, <1>8, Zenon DEF Focus

\* A packet tracked is to be booked.
LEMMA RegisterFocus ==
    ASSUME RecoveryInv, NEW p \in Procs, Focus(p), SendPacket(p)
    PROVE  Focus(p)'
<1>0. Types /\ TimersAt(p) /\ pc \in [Procs -> Labels]
  BY DEF Focus, RecoveryInv, Types
<1>1. PICK i, n : i = hand[p][1] /\ n = num[p]
  BY SMTT(20)
<1>2. /\ sentPackets' = With(sentPackets, n, i) /\ pc[p] = "register"
      /\ pc' = [pc EXCEPT ![p] = "book"]
      /\ UNCHANGED <<pkts, lostQueue, hand, inflight, ptoTimer, strayTimers, lostTimer>>
  BY <1>1, Zenon DEF SendPacket, Goto, lostVars, ccVars
<1>3. /\ Len(hand[p]) = 1 /\ i \in Ids /\ n \notin DOMAIN sentPackets /\ Unshared(i, p)
      /\ hand[p] = <<i>>
  <2>1. OwnNumber(p)
    BY <1>2, Zenon DEF RecoveryInv, Numbered, Carrying
  <2>2. PICK j \in Ids : Registers(p, j)
    BY <1>2, Zenon DEF RecoveryInv, Registering
  <2>3. i \in Ids /\ n \notin DOMAIN sentPackets /\ Unshared(i, p)
    BY <2>2, <1>1, Zenon DEF Registers
  <2>4. Len(hand[p]) = 1 /\ hand[p] \in Seq(Ids)
    BY <2>1, <1>0, TypeFacts, Zenon DEF OwnNumber
  <2>5. hand[p] = <<i>>
    BY <2>4, <1>1
  <2> QED BY <2>3, <2>4, <2>5, Zenon
<1>4. /\ DOMAIN sentPackets' = DOMAIN sentPackets \cup {n} /\ sentPackets'[n] = i
      /\ \A s \in DOMAIN sentPackets : sentPackets'[s] = sentPackets[s]
  BY <1>2, <1>3 DEF With
<1>5. Tracked' = pkts[i].size + Tracked /\ Tracked \in Nat /\ pkts[i].size \in Nat
  <2>1. pkts[i].size \in Nat /\ \A s \in DOMAIN sentPackets : pkts[sentPackets[s]].size \in Nat
    BY <1>0, <1>3, LoadFacts, TypeFacts
  <2>2. IsFiniteSet(DOMAIN sentPackets) /\ Tracked \in Nat
    BY <1>0, LoadFacts
  <2>3. PICK r : r = sentPackets'
    BY Zenon
  <2>4. /\ DOMAIN r = DOMAIN sentPackets \cup {n} /\ r[n] = i
        /\ \A s \in DOMAIN sentPackets : r[s] = sentPackets[s]
    BY <2>3, <1>4
  <2>5. Load(pkts, r) = pkts[r[n]].size + Load(pkts, sentPackets)
    <3>1. OneMore(pkts, sentPackets, pkts, r, n)
      BY <2>1, <2>2, <2>4, <1>3 DEF OneMore
    <3> QED BY <3>1, LoadAdd
  <2> QED BY <2>1, <2>2, <2>3, <2>4, <2>5, <1>2, Zenon DEF Tracked
<1>6. Load(pkts', hand'[p]) = pkts[i].size
  BY <1>2, <1>3, <1>5, LoadOne
<1>7. pc'[p] = "book" /\ \A q \in Procs : q # p => pc'[q] = pc[q]
  BY <1>0, <1>2
<1>8. Alone(p)'
  BY <1>7, Zenon DEF Focus, Alone
<1>9. CountedAt(p)'
  <2>1. inflight = Tracked
    BY <1>2, Zenon DEF Focus, CountedAt
  <2>2. inflight' + Load(pkts', hand'[p]) = Tracked'
    BY <2>1, <1>2, <1>5, <1>6
  <2> QED BY <2>2, <1>7, Zenon DEF CountedAt
<1>10. PartedAt(p)'
  <2>1. \A j : IsTracked(j)' => IsTracked(j) \/ j = i
    BY <1>4 DEF IsTracked
  <2>2. ~Among(i, lostQueue)
    BY <1>3, Zenon DEF Unshared
  <2> QED BY <2>1, <2>2, <1>2, <1>7, StillParted DEF Focus
<1>11. TimersAt(p)'
  BY <1>0, <1>2, <1>7 DEF TimersAt, Flushing
<1> QED BY <1>8, <1>9, <1>10, <1>11, Zenon DEF Focus

\* Transmission changes no count.
LEMMA TransmitFocus ==
    ASSUME RecoveryInv, NEW p \in Procs, Focus(p), Transmit(p)
    PROVE  Focus(p)'
<1>0. Types /\ TimersAt(p) /\ pc \in [Procs -> Labels]
  BY DEF Focus, RecoveryInv, Types
<1>1. /\ pc[p] = "transmit" /\ pc' = [pc EXCEPT ![p] = IF p \in Writers THEN "idle" ELSE "flush"]
      /\ UNCHANGED <<pkts, sentPackets, lostQueue, inflight, ptoTimer, strayTimers, lostTimer>>
  BY DEF Transmit, Goto, pmVars, ccVars, lostVars
<1>2. /\ \A q \in Procs : q # p => pc'[q] = pc[q]
      /\ pc'[p] = IF p \in Writers THEN "idle" ELSE "flush"
  BY <1>0, <1>1
<1>3. Alone(p)'
  BY <1>2, Zenon DEF Focus, Alone
<1>4. CountedAt(p)'
  <2>1. pc'[p] \notin {"book", "acked", "lost"} /\ inflight' = inflight /\ Tracked' = Tracked
    BY <1>1, <1>2 DEF Tracked
  <2>2. inflight = Tracked
    BY <1>1, Zenon DEF Focus, CountedAt
  <2> QED BY <2>1, <2>2, Zenon DEF CountedAt
<1>5. PartedAt(p)'
  <2>1. \A j : IsTracked(j)' <=> IsTracked(j)
    BY <1>1, Zenon DEF IsTracked
  <2> QED BY <2>1, <1>1, <1>2, StillParted DEF Focus
<1>6. TimersAt(p)'
  BY <1>0, <1>1, <1>2 DEF TimersAt, Flushing
<1> QED BY <1>3, <1>4, <1>5, <1>6, Zenon DEF Focus

\* What leaves the tracker for a goroutine's hands.
LEMMA TakenLoad ==
    ASSUME Types, NEW gone \in SUBSET DOMAIN sentPackets, NEW w \in Sorted(gone), NEW Q, NEW r,
           DOMAIN r = DOMAIN sentPackets \ gone, \A s \in DOMAIN r : r[s] = sentPackets[s],
           \A i \in Ids : Q[i].size = pkts[i].size
    PROVE  Tracked = Load(Q, r) + Load(Q, InOrder(w))
<1>1. PICK n, h : n = Len(w) /\ h = InOrder(w)
  BY Zenon
<1>2. /\ n \in Nat /\ h \in Seq(Ids) /\ Len(h) = n
      /\ \A k \in 1..n : w[k] \in gone /\ h[k] = sentPackets[w[k]]
      /\ \A j, k \in 1..n : w[j] = w[k] => j = k
      /\ \A s \in gone : \E k \in 1..n : w[k] = s
  <2>1. /\ Len(w) \in Nat /\ DOMAIN w = 1..Len(w)
        /\ InOrder(w) \in Seq(Ids) /\ Len(InOrder(w)) = Len(w)
        /\ \A k \in 1..Len(w) : w[k] \in gone /\ InOrder(w)[k] = sentPackets[w[k]]
        /\ \A j, k \in 1..Len(w) : w[j] = w[k] => j = k
        /\ \A s \in gone : \E k \in 1..Len(w) : w[k] = s
        /\ \A i : Among(i, InOrder(w)) <=> \E s \in gone : sentPackets[s] = i
    BY ProbesTracked, Zenon
  <2> QED BY <1>1, <2>1
<1>3. DOMAIN h = 1..n
  BY <1>2
<1>4. \A s \in DOMAIN sentPackets :
        /\ pkts[sentPackets[s]].size \in Nat
        /\ pkts[sentPackets[s]].size = Q[sentPackets[s]].size
  BY LoadFacts, TypeFacts
<1>5. IsFiniteSet(DOMAIN sentPackets)
  BY LoadFacts
<1>6. Load(pkts, sentPackets) = Load(Q, r) + Load(Q, h)
  <2>1. TakenOut(pkts, sentPackets, Q, r, h, w, n, gone)
    BY <1>2, <1>3, <1>4, <1>5 DEF TakenOut
  <2> QED BY <2>1, LoadSplit
<1> QED BY <1>1, <1>6 DEF Tracked

\* The bytes acknowledged are in hand until they are taken off the count.
LEMMA AckFocus ==
    ASSUME RecoveryInv, Focus(Inbound), HandleAckFrame
    PROVE  Focus(Inbound)'
<1>0. /\ Types /\ TimersAt(Inbound) /\ pc \in [Procs -> Labels] /\ hand \in [Procs -> Seq(Ids)]
      /\ Inbound \in Procs /\ Inbound \notin Writers
  BY RolesAssumption DEF Focus, RecoveryInv, Types, Procs
<1>1. PICK got \in SUBSET DOMAIN sentPackets :
        \E w \in Sorted(got) :
        /\ pkts' = [i \in DOMAIN pkts |->
                      [pkts[i] EXCEPT !.isAcked = @ \/ \E s \in got : sentPackets[s] = i]]
        /\ sentPackets' = Without(sentPackets, got)
        /\ hand' = [hand EXCEPT ![Inbound] = InOrder(w)]
  BY Zenon DEF HandleAckFrame
<1> PICK w \in Sorted(got) : hand' = [hand EXCEPT ![Inbound] = InOrder(w)]
  BY <1>1, Zenon
<1>2. /\ pc[Inbound] = "idle" /\ pc' = [pc EXCEPT ![Inbound] = "acked"]
      /\ UNCHANGED <<lostQueue, inflight, ptoTimer, strayTimers, lostTimer>>
  BY DEF HandleAckFrame, MayStart, Goto, ccVars, lostVars
<1>3. \A i \in Ids : pkts'[i].size = pkts[i].size
  <2> SUFFICES ASSUME NEW i \in Ids PROVE pkts'[i].size = pkts[i].size
    OBVIOUS
  <2>1. i \in DOMAIN pkts /\ pkts[i] \in Packets
    BY <1>0, TypeFacts DEF Types, Ids
  <2>2. PICK b : b = (pkts[i].isAcked \/ \E s \in got : sentPackets[s] = i)
    BY Zenon
  <2>3. pkts'[i] = [pkts[i] EXCEPT !.isAcked = b]
    BY <2>1, <2>2, <1>1
  <2> QED BY <2>1, <2>3 DEF Packets
<1>4. PICK r, Q : r = sentPackets' /\ Q = pkts'
  BY Zenon
<1>5. DOMAIN r = DOMAIN sentPackets \ got /\ \A s \in DOMAIN r : r[s] = sentPackets[s]
  BY <1>1, <1>4 DEF Without
<1>6. /\ \A q \in Procs : q # Inbound => pc'[q] = pc[q]
      /\ pc'[Inbound] = "acked" /\ hand'[Inbound] = InOrder(w)
  BY <1>0, <1>1, <1>2, SMTT(20)
<1>7. Tracked = Load(Q, r) + Load(Q, InOrder(w))
  BY <1>0, <1>3, <1>4, <1>5, TakenLoad, Zenon
<1>8. Alone(Inbound)'
  BY <1>6, Zenon DEF Focus, Alone
<1>9. CountedAt(Inbound)'
  <2>1. inflight = Tracked
    BY <1>2, Zenon DEF Focus, CountedAt
  <2>2. Tracked' = Load(Q, r)
    BY <1>4, Zenon DEF Tracked
  <2>3. inflight' = Tracked' + Load(pkts', hand'[Inbound])
    BY <2>1, <2>2, <1>2, <1>4, <1>6, <1>7
  <2> QED BY <2>3, <1>6, Zenon DEF CountedAt
<1>10. PartedAt(Inbound)'
  <2>1. \A j : IsTracked(j)' => IsTracked(j)
    BY <1>4, <1>5 DEF IsTracked
  <2> QED BY <2>1, <1>2, <1>6, StillParted DEF Focus
<1>11. TimersAt(Inbound)'
  BY <1>0, <1>2, <1>6 DEF TimersAt, Flushing
<1> QED BY <1>8, <1>9, <1>10, <1>11, Zenon DEF Focus

\* The bytes lost are in hand until they are taken off the count; the packets
\* are in the tracker no longer and were never in the queue.
LEMMA DetectFocus ==
    ASSUME RecoveryInv, NEW p \in Procs, Focus(p), DetectLostPackets(p)
    PROVE  Focus(p)'
<1>0. /\ Types /\ TrackedOnce /\ TimersAt(p) /\ pc \in [Procs -> Labels]
      /\ hand \in [Procs -> Seq(Ids)]
  BY DEF Focus, RecoveryInv, Types
<1>1. PICK gone \in SUBSET DOMAIN sentPackets :
        \E w \in Sorted(gone) :
        /\ hand' = [hand EXCEPT ![p] = InOrder(w)]
        /\ sentPackets' = Without(sentPackets, gone)
        /\ pc' = [pc EXCEPT ![p] = IF gone # {} THEN "lost"
                                   ELSE IF p = Inbound THEN "enter" ELSE "idle"]
  <2> DEFINE behind == {s \in DOMAIN sentPackets : s <= largestAcked}
             far == {s \in behind : largestAcked - s >= LossReorderThreshold}
  <2>1. PICK old \in SUBSET (behind \ far) : \E w \in Sorted(far \cup old) :
            /\ hand' = [hand EXCEPT ![p] = InOrder(w)]
            /\ sentPackets' = Without(sentPackets, far \cup old)
            /\ Goto(p, IF far \cup old # {} THEN "lost"
                       ELSE IF p = Inbound THEN "enter" ELSE "idle")
    BY Zenon DEF DetectLostPackets
  <2>2. far \cup old \in SUBSET DOMAIN sentPackets
    OBVIOUS
  <2> HIDE DEF behind, far
  <2> QED BY <2>1, <2>2, Zenon DEF Goto
<1> PICK w \in Sorted(gone) : hand' = [hand EXCEPT ![p] = InOrder(w)]
  BY <1>1, Zenon
<1>2. /\ pc[p] = "detect"
      /\ UNCHANGED <<pkts, lostQueue, inflight, ptoTimer, strayTimers, lostTimer>>
  BY DEF DetectLostPackets, ccVars, lostVars
<1>3. PICK r, h, n : r = sentPackets' /\ h = InOrder(w) /\ n = Len(w)
  BY Zenon
<1>4. DOMAIN r = DOMAIN sentPackets \ gone /\ \A s \in DOMAIN r : r[s] = sentPackets[s]
  BY <1>1, <1>3 DEF Without
<1>5. /\ \A q \in Procs : q # p => pc'[q] = pc[q]
      /\ pc'[p] = IF gone # {} THEN "lost" ELSE IF p = Inbound THEN "enter" ELSE "idle"
      /\ hand'[p] = h
  BY <1>0, <1>1, <1>3
<1>6. Tracked = Load(pkts, r) + Load(pkts, h)
  BY <1>0, <1>3, <1>4, TakenLoad, Zenon
<1>7. inflight = Tracked /\ pkts' = pkts /\ inflight' = inflight
  BY <1>2, Zenon DEF Focus, CountedAt
<1>8. Alone(p)'
  BY <1>5, Zenon DEF Focus, Alone
<1>9. CountedAt(p)'
  <2>1. CASE gone # {}
    <3>1. Tracked' = Load(pkts, r)
      BY <1>3, <1>7, Zenon DEF Tracked
    <3>2. inflight' = Tracked' + Load(pkts', hand'[p])
      BY <3>1, <1>5, <1>6, <1>7
    <3>3. pc'[p] = "lost"
      BY <2>1, <1>5
    <3> QED BY <3>2, <3>3, Zenon DEF CountedAt
  <2>2. CASE gone = {}
    <3>1. DOMAIN r = DOMAIN sentPackets
      BY <2>2, <1>4
    <3>2. Load(pkts, sentPackets) = Load(pkts, r)
      <4>1. SameSizes(pkts, sentPackets, pkts, r)
        BY <3>1, <1>0, <1>4, LoadFacts DEF SameSizes
      <4> QED BY <4>1, LoadSame
    <3>3. Tracked' = Tracked
      BY <3>2, <1>3, <1>7, Zenon DEF Tracked
    <3>4. pc'[p] \notin {"book", "acked", "lost"}
      BY <2>2, <1>5
    <3> QED BY <3>3, <3>4, <1>7, Zenon DEF CountedAt
  <2> QED BY <2>1, <2>2, Zenon
<1>10. PartedAt(p)'
  <2>1. /\ Len(h) = n
        /\ \A k \in 1..n : w[k] \in gone /\ h[k] = sentPackets[w[k]]
        /\ \A j, k \in 1..n : w[j] = w[k] => j = k
        /\ \A i : Among(i, h) <=> \E s \in gone : sentPackets[s] = i
    <3>1. /\ Len(w) \in Nat /\ DOMAIN w = 1..Len(w)
          /\ InOrder(w) \in Seq(Ids) /\ Len(InOrder(w)) = Len(w)
          /\ \A k \in 1..Len(w) : w[k] \in gone /\ InOrder(w)[k] = sentPackets[w[k]]
          /\ \A j, k \in 1..Len(w) : w[j] = w[k] => j = k
          /\ \A s \in gone : \E k \in 1..Len(w) : w[k] = s
          /\ \A i : Among(i, InOrder(w)) <=> \E s \in gone : sentPackets[s] = i
      BY <1>0, ProbesTracked, Zenon
    <3> QED BY <3>1, <1>3
  <2>2. \A s, u \in DOMAIN sentPackets : sentPackets[s] = sentPackets[u] => s = u
    BY <1>0 DEF TrackedOnce
  <2>3. Distinct(h)
    BY <2>1, <2>2 DEF Distinct
  <2>4. \A i : IsTracked(i)' => IsTracked(i)
    BY <1>3, <1>4 DEF IsTracked
  <2>5. \A i : Among(i, h) => IsTracked(i) /\ ~IsTracked(i)'
    <3>1. \A i : Among(i, h) => \A s \in DOMAIN r : r[s] # i
      BY <2>1, <2>2, <1>4
    <3>2. \A i : Among(i, h) => \E s \in DOMAIN sentPackets : sentPackets[s] = i
      BY <2>1
    <3> QED BY <3>1, <3>2, <1>3, Zenon DEF IsTracked
  <2>6. pc'[p] # "probe"
    BY <1>5
  <2> QED BY <2>3, <2>4, <2>5, <2>6, <1>2, <1>5, Zenon DEF Focus, PartedAt, Untracked, Separate
<1>11. TimersAt(p)'
  <2>1. p \notin Writers
    BY <1>0, <1>2 DEF TimersAt
  <2> QED BY <2>1, <1>0, <1>2, <1>5 DEF TimersAt, Flushing
<1> QED BY <1>8, <1>9, <1>10, <1>11, Zenon DEF Focus


\* Lost packets pass from the detector's hands into the queue, each once.
LEMMA QueueFocus ==
    ASSUME RecoveryInv, NEW p \in Procs, Focus(p), QueueLost(p)
    PROVE  Focus(p)'
<1>0. /\ Types /\ TimersAt(p) /\ PartedAt(p) /\ pc \in [Procs -> Labels]
      /\ lostQueue \in Seq(Ids) /\ hand[p] \in Seq(Ids)
  BY DEF Focus, RecoveryInv, Types
<1>1. /\ pc[p] = "queue" /\ pc' = [pc EXCEPT ![p] = "enter"]
      /\ lostQueue' = lostQueue \o hand[p]
      /\ UNCHANGED <<pkts, sentPackets, inflight, ptoTimer, strayTimers, lostTimer>>
  BY DEF QueueLost, Goto, pmVars, ccVars
<1>2. pc'[p] = "enter" /\ \A q \in Procs : q # p => pc'[q] = pc[q]
  BY <1>0, <1>1
<1>3. PICK h, q : h = hand[p] /\ q = lostQueue \o h
  BY Zenon
<1>4. Joins(q, lostQueue, h, Ids) /\ \A i : Among(i, q) <=> Among(i, lostQueue) \/ Among(i, h)
  BY <1>0, <1>3, ConcatJoins, AmongConcat, Zenon
<1>5. Untracked(q)
  <2>1. Untracked(lostQueue) /\ Untracked(h) /\ Separate(lostQueue, h)
    BY <1>0, <1>1, <1>3, Zenon DEF PartedAt, Separate
  <2>2. Distinct(q)
    BY <2>1, <1>4, JoinDistinct, Zenon DEF Untracked
  <2> QED BY <2>1, <2>2, <1>4, Zenon DEF Untracked
<1>6. Alone(p)'
  BY <1>2, Zenon DEF Focus, Alone
<1>7. CountedAt(p)'
  BY <1>1, <1>2, Zenon DEF Focus, CountedAt, Tracked
<1>8. PartedAt(p)'
  <2>1. lostQueue' = q /\ \A j : IsTracked(j)' <=> IsTracked(j)
    BY <1>1, <1>3, Zenon DEF IsTracked
  <2> QED BY <2>1, <1>2, <1>5, Zenon DEF PartedAt, Untracked
<1>9. TimersAt(p)'
  BY <1>0, <1>1, <1>2 DEF TimersAt, Flushing
<1> QED BY <1>6, <1>7, <1>8, <1>9, Zenon DEF Focus

\* What is left of the queue is still untracked.
LEMMA SkipFocus ==
    ASSUME RecoveryInv, NEW p \in Procs, Focus(p), FlushSkip(p)
    PROVE  Focus(p)'
<1>0. /\ Types /\ TimersAt(p) /\ PartedAt(p) /\ lostQueue \in Seq(Ids)
  BY DEF Focus, RecoveryInv, Types
<1>1. /\ pc[p] = "flush" /\ lostQueue # <<>> /\ lostQueue' = Tail(lostQueue)
      /\ UNCHANGED <<pkts, sentPackets, inflight, ptoTimer, strayTimers, lostTimer, pc, hand>>
  BY DEF FlushSkip, pmVars, ccVars
<1>2. PICK t : t = Tail(lostQueue)
  BY Zenon
<1>3. Distinct(t) /\ \A j : Among(j, t) => Among(j, lostQueue)
  <2>1. Distinct(lostQueue)
    BY <1>0, Zenon DEF PartedAt, Untracked
  <2> QED BY <2>1, <1>0, <1>1, <1>2, TailDistinct, AmongTail, Zenon
<1>4. Untracked(t)
  BY <1>0, <1>3, Zenon DEF PartedAt, Untracked
<1>5. Alone(p)' /\ CountedAt(p)'
  BY <1>1, Zenon DEF Focus, Alone, CountedAt, Tracked
<1>6. PartedAt(p)'
  <2>1. lostQueue' = t /\ pc'[p] = "flush" /\ \A j : IsTracked(j)' <=> IsTracked(j)
    BY <1>1, <1>2, Zenon DEF IsTracked
  <2> QED BY <2>1, <1>4, Zenon DEF PartedAt, Untracked
<1>7. TimersAt(p)'
  BY <1>0, <1>1 DEF TimersAt, Flushing
<1> QED BY <1>5, <1>6, <1>7, Zenon DEF Focus


\* The pieces of a lost packet are new, and no more tracked than it was.
LEMMA FlushSplitFocus ==
    ASSUME RecoveryInv, NEW p \in Procs, Focus(p), FlushSplit(p)
    PROVE  Focus(p)'
<1>0. /\ Types /\ TrackedOnce /\ AckFreesWhatItNames /\ TimersAt(p) /\ PartedAt(p)
      /\ lostQueue \in Seq(Ids)
  BY DEF Focus, RecoveryInv, Types
<1>1. PICK i, t : i = Head(lostQueue) /\ t = Tail(lostQueue)
  BY Zenon
<1> PICK w \in Sorted(pkts[i].carries) : FitToPath(i, w) /\ lostQueue' = Pieces(w) \o t
  BY <1>1, Zenon DEF FlushSplit
<1> PICK h, q : h = Pieces(w) /\ q = h \o t
  BY Zenon
<1>2. /\ pc[p] = "flush" /\ lostQueue # <<>> /\ FitToPath(i, w) /\ lostQueue' = q
      /\ UNCHANGED <<inflight, ptoTimer, strayTimers, lostTimer, pc, hand, nextSeq, wire, chunks, num>>
  <2>1. pc[p] = "flush" /\ lostQueue # <<>>
    BY Zenon DEF FlushSplit
  <2>2. UNCHANGED <<inflight, ptoTimer, strayTimers>> /\ UNCHANGED <<wire, chunks>>
    BY DEF FlushSplit, ccVars, netVars
  <2>3. UNCHANGED <<lostTimer, pc, hand, nextSeq, num>>
    BY DEF FlushSplit
  <2> QED BY <2>1, <2>2, <2>3
<1>3. /\ t \in Seq(Ids) /\ i \in Ids /\ Distinct(t)
      /\ \A j : Among(j, lostQueue) <=> j = i \/ Among(j, t)
  <2>1. Distinct(lostQueue)
    BY <1>0, Zenon DEF PartedAt, Untracked
  <2> QED BY <2>1, <1>0, <1>1, <1>2, TailDistinct, AmongTail, Zenon
<1>4. PICK n : Fitted(i, w, n)
  BY <1>0, <1>2, <1>3, FitFacts, Zenon
<1>5. /\ \A x \in Seq(Ids) : x \in Seq(Ids')
      /\ \A j \in Ids : j \in Ids' /\ pkts'[j] = pkts[j]
      /\ \A j : IsTracked(j)' <=> IsTracked(j) /\ j # i
      /\ h \in Seq(Ids') /\ \A j \in Ids : ~Among(j, h)
  BY <1>0, <1>2, <1>3, <1>4, FitTracks, Zenon
<1>6. ~IsTracked(i) /\ \A j : Among(j, t) => ~IsTracked(j)
  BY <1>0, <1>3, Zenon DEF PartedAt, Untracked
<1>7. \A s \in DOMAIN sentPackets : sentPackets[s] # i /\ sentPackets[s] \in Ids
  BY <1>0, <1>6, TypeFacts, Zenon DEF IsTracked
<1>8. PICK r, Q : r = sentPackets' /\ Q = pkts'
  BY Zenon
<1>9. DOMAIN r = DOMAIN sentPackets /\ \A s \in DOMAIN r : r[s] = sentPackets[s]
  BY <1>4, <1>7, <1>8, Zenon DEF Fitted
<1>10. Tracked' = Tracked
  <2>1. \A j \in Ids : Q[j] = pkts[j]
    BY <1>5, <1>8
  <2>2. IsFiniteSet(DOMAIN sentPackets)
    BY <1>0, LoadFacts, Zenon
  <2>3. SameSizes(pkts, sentPackets, Q, r)
    BY <2>1, <2>2, <1>7, <1>9 DEF SameSizes
  <2>4. Load(pkts, sentPackets) = Load(Q, r)
    BY <2>3, LoadSame
  <2> QED BY <2>4, <1>8, Zenon DEF Tracked
<1>11. Distinct(h)
  <2>1. PICK m \in Nat : m = Len(pkts)
    BY <1>0, TypeFacts
  <2>2. Len(h) = n /\ n \in Nat /\ \A k \in 1..n : h[k] = m + k
    BY <2>1, <1>4, Zenon DEF Fitted
  <2> QED BY <2>1, <2>2 DEF Distinct
<1>12. /\ Distinct(q)
       /\ \A j : Among(j, q) <=> Among(j, h) \/ Among(j, t)
  <2>1. PICK X : X = Ids' /\ h \in Seq(X) /\ t \in Seq(X)
    BY <1>3, <1>5, Zenon
  <2>2. Joins(q, h, t, X) /\ \A j : Among(j, q) <=> Among(j, h) \/ Among(j, t)
    BY <2>1, ConcatJoins, AmongConcat, Zenon
  <2>3. Separate(h, t)
    BY <1>3, <1>5, AmongSeq, Zenon DEF Separate
  <2> QED BY <2>2, <2>3, <1>3, <1>11, JoinDistinct, Zenon
<1>13. \A j : Among(j, q) => ~IsTracked(j)'
  <2>1. \A j : Among(j, h) => ~IsTracked(j)
    BY <1>5, <1>7, Zenon DEF IsTracked
  <2> QED BY <2>1, <1>5, <1>6, <1>12, Zenon
<1>14. Alone(p)'
  BY <1>2, Zenon DEF Focus, Alone
<1>15. CountedAt(p)'
  <2>1. pc'[p] = "flush" /\ inflight' = inflight /\ pc[p] = "flush"
    BY <1>2
  <2> QED BY <2>1, <1>10, Zenon DEF Focus, CountedAt
<1>16. PartedAt(p)'
  BY <1>2, <1>12, <1>13, Zenon DEF PartedAt, Untracked
<1>17. TimersAt(p)'
  BY <1>0, <1>2 DEF TimersAt, Flushing
<1> QED BY <1>14, <1>15, <1>16, <1>17, Zenon DEF Focus

\* A lost packet tracked again is to be booked.
LEMMA ResendFocus ==
    ASSUME RecoveryInv, NEW p \in Procs, Focus(p), FlushResend(p)
    PROVE  Focus(p)'
<1>0. /\ Types /\ TrackedOnce /\ TimersAt(p) /\ PartedAt(p) /\ lostQueue \in Seq(Ids)
      /\ pc \in [Procs -> Labels] /\ hand \in [Procs -> Seq(Ids)] /\ nextSeq \in Nat
  BY DEF Focus, RecoveryInv, Types
<1>1. PICK i, t, n : i = Head(lostQueue) /\ t = Tail(lostQueue) /\ n = nextSeq
  BY Zenon
<1>2. /\ pc[p] = "flush" /\ lostQueue # <<>> /\ Rekey(i) /\ lostQueue' = t
      /\ pc' = [pc EXCEPT ![p] = "book"] /\ hand' = [hand EXCEPT ![p] = <<i>>]
      /\ UNCHANGED <<inflight, ptoTimer, strayTimers, lostTimer>> /\ ~pkts[i].isAcked
  BY <1>1 DEF FlushResend, Goto, ccVars
<1>3. /\ i \in Ids /\ Distinct(t) /\ ~Among(i, t)
      /\ \A j : Among(j, lostQueue) <=> j = i \/ Among(j, t)
  <2>1. Distinct(lostQueue)
    BY <1>0, Zenon DEF PartedAt, Untracked
  <2> QED BY <2>1, <1>0, <1>1, <1>2, TailDistinct, AmongTail, Zenon
<1>4. Rekeyed(i)
  BY <1>0, <1>2, <1>3, RekeyFacts, Zenon
<1>5. n \notin DOMAIN sentPackets /\ \A j : IsTracked(j)' <=> IsTracked(j) \/ j = i
  BY <1>0, <1>1, <1>2, <1>3, <1>4, RekeyTracks, Zenon
<1>6. \A s \in DOMAIN sentPackets : sentPackets[s] # i /\ sentPackets[s] \in Ids
  <2>1. ~IsTracked(i)
    BY <1>0, <1>3, Zenon DEF PartedAt, Untracked
  <2> QED BY <2>1, <1>0, TypeFacts, Zenon DEF IsTracked
<1>7. PICK r, Q : r = sentPackets' /\ Q = pkts'
  BY Zenon
<1>8. /\ DOMAIN r = DOMAIN sentPackets \cup {n} /\ r[n] = i
      /\ \A s \in DOMAIN sentPackets : r[s] = sentPackets[s]
  BY <1>1, <1>4, <1>6, <1>7 DEF Rekeyed
<1>9. PICK z \in Nat : z = Q[i].size /\ z = pkts[i].size
  BY <1>0, <1>3, <1>4, <1>7, TypeFacts DEF Rekeyed
<1>10. Tracked' = z + Tracked /\ Tracked \in Nat
  <2>1. \A s \in DOMAIN sentPackets :
          /\ pkts[sentPackets[s]].size \in Nat
          /\ pkts[sentPackets[s]].size = Q[r[s]].size
    <3>1. \A j \in Ids : Q[j].size = pkts[j].size
      BY <1>4, <1>7 DEF Rekeyed
    <3>2. \A s \in DOMAIN sentPackets : pkts[sentPackets[s]].size \in Nat
      BY <1>0, LoadFacts, Zenon
    <3> QED BY <3>1, <3>2, <1>6, <1>8
  <2>2. IsFiniteSet(DOMAIN sentPackets) /\ Tracked \in Nat
    BY <1>0, LoadFacts
  <2>3. OneMore(pkts, sentPackets, Q, r, n)
    BY <2>1, <2>2, <1>5, <1>8, <1>9 DEF OneMore
  <2>4. Load(Q, r) = Q[r[n]].size + Load(pkts, sentPackets)
    BY <2>3, LoadAdd
  <2> QED BY <2>2, <2>4, <1>7, <1>8, <1>9 DEF Tracked
<1>11. /\ \A q \in Procs : q # p => pc'[q] = pc[q]
       /\ pc'[p] = "book" /\ hand'[p] = <<i>>
  BY <1>0, <1>2
<1>12. Load(pkts', hand'[p]) = z
  BY <1>7, <1>9, <1>11, LoadOne, Zenon
<1>13. Alone(p)'
  BY <1>11, Zenon DEF Focus, Alone
<1>14. CountedAt(p)'
  <2>1. inflight = Tracked
    BY <1>2, Zenon DEF Focus, CountedAt
  <2>2. inflight' + Load(pkts', hand'[p]) = Tracked'
    BY <2>1, <1>2, <1>9, <1>10, <1>12
  <2> QED BY <2>2, <1>11, Zenon DEF CountedAt
<1>15. PartedAt(p)'
  <2>1. \A j : Among(j, t) => ~IsTracked(j)'
    BY <1>0, <1>3, <1>5, Zenon DEF PartedAt, Untracked
  <2>2. lostQueue' = t /\ pc'[p] = "book"
    BY <1>2, <1>11
  <2> QED BY <2>1, <2>2, <1>3, Zenon DEF PartedAt, Untracked
<1>16. TimersAt(p)'
  BY <1>0, <1>2, <1>11 DEF TimersAt, Flushing
<1> QED BY <1>13, <1>14, <1>15, <1>16, Zenon DEF Focus


\* A probe sent again is tracked under another sequence, and counted as before.
LEMMA ProbeResendFocus ==
    ASSUME RecoveryInv, NEW p \in Procs, Focus(p), ProbeResend(p)
    PROVE  Focus(p)'
<1>0. /\ Types /\ TrackedOnce /\ TimersAt(p) /\ PartedAt(p)
      /\ hand \in [Procs -> Seq(Ids)] /\ hand[p] \in Seq(Ids) /\ nextSeq \in Nat
  BY DEF Focus, RecoveryInv, Types
<1>1. PICK i, t, n : i = Head(hand[p]) /\ t = Tail(hand[p]) /\ n = nextSeq
  BY Zenon
<1>2. /\ pc[p] = "probe" /\ hand[p] # <<>> /\ hand' = [hand EXCEPT ![p] = t]
      /\ UNCHANGED <<pkts, sentPackets>> \/ (Rekey(i) /\ ~pkts[i].isAcked)
      /\ UNCHANGED <<inflight, ptoTimer, strayTimers, lostTimer, lostQueue, pc>>
  BY <1>1 DEF ProbeResend, ccVars, lostVars
<1>3. /\ i \in Ids /\ \A j : Among(j, hand[p]) <=> j = i \/ Among(j, t)
  BY <1>0, <1>1, <1>2, AmongTail, Zenon
<1>4. IsTracked(i) /\ \A j : Among(j, t) => IsTracked(j)
  BY <1>0, <1>2, <1>3, Zenon DEF PartedAt
<1>5. hand'[p] = t
  BY <1>0, <1>2
<1>6. Tracked' = Tracked /\ \A j : IsTracked(j)' <=> IsTracked(j)
  <2>1. CASE UNCHANGED <<pkts, sentPackets>>
    BY <2>1, Zenon DEF Tracked, IsTracked
  <2>2. CASE Rekey(i) /\ ~pkts[i].isAcked
    <3>1. Rekeyed(i)
      BY <2>2, <1>0, <1>3, RekeyFacts, Zenon
    <3>0. n \notin DOMAIN sentPackets /\ \A j : IsTracked(j)' <=> IsTracked(j) \/ j = i
      BY <3>1, <2>2, <1>0, <1>1, <1>3, RekeyTracks, Zenon
    <3>2. PICK s0 \in DOMAIN sentPackets : sentPackets[s0] = i
      BY <1>4 DEF IsTracked
    <3>3. \A s \in DOMAIN sentPackets : sentPackets[s] = i => s = s0
      BY <3>2, <1>0 DEF TrackedOnce
    <3>4. PICK r, Q : r = sentPackets' /\ Q = pkts'
      BY Zenon
    <3>5. PICK D, q : D = DOMAIN sentPackets \ {s0} /\ q = [s \in D |-> sentPackets[s]]
      BY Zenon
    <3>6. /\ DOMAIN q = D /\ DOMAIN sentPackets = D \cup {s0} /\ DOMAIN r = D \cup {n}
          /\ s0 \notin D /\ n \notin D /\ r[n] = i
          /\ \A s \in D : q[s] = sentPackets[s] /\ r[s] = sentPackets[s]
      <4>2. D = {s \in DOMAIN sentPackets : sentPackets[s] # i}
        BY <3>2, <3>3, <3>5
      <4>3. DOMAIN q = D /\ DOMAIN sentPackets = D \cup {s0} /\ \A s \in D : q[s] = sentPackets[s]
        BY <3>2, <3>5
      <4>4. DOMAIN r = D \cup {n} /\ r[n] = i /\ \A s \in D : r[s] = sentPackets[s]
        BY <4>2, <3>1, <3>4, <1>1 DEF Rekeyed
      <4> QED BY <4>3, <4>4, <3>0, <3>5
    <3>7. /\ \A s \in D : pkts[q[s]].size \in Nat /\ pkts[q[s]].size = Q[q[s]].size
          /\ pkts[i].size \in Nat /\ pkts[i].size = Q[i].size
      <4>1. \A j \in Ids : Q[j].size = pkts[j].size /\ pkts[j].size \in Nat
        BY <3>1, <3>4, <1>0, TypeFacts DEF Rekeyed
      <4>2. \A s \in D : q[s] \in Ids
        BY <3>5, <3>6, <1>0, TypeFacts, Zenon
      <4> QED BY <4>1, <4>2, <1>3
    <3>8. IsFiniteSet(D)
      BY <3>5, <1>0, LoadFacts, FS_Subset
    <3>9. Load(pkts, sentPackets) = pkts[i].size + Load(pkts, q)
      <4>1. OneMore(pkts, q, pkts, sentPackets, s0)
        <5>1. pkts[sentPackets[s0]].size \in Nat
          BY <3>2, <3>7
        <5> QED BY <5>1, <3>6, <3>7, <3>8 DEF OneMore
      <4>2. Load(pkts, sentPackets) = pkts[sentPackets[s0]].size + Load(pkts, q)
        BY <4>1, LoadAdd
      <4> QED BY <4>2, <3>2, Zenon
    <3>10. Load(Q, r) = Q[i].size + Load(pkts, q)
      <4>1. OneMore(pkts, q, Q, r, n)
        BY <3>6, <3>7, <3>8 DEF OneMore
      <4>2. Load(Q, r) = Q[r[n]].size + Load(pkts, q)
        BY <4>1, LoadAdd
      <4> QED BY <4>2, <3>6
    <3>11. Tracked' = Tracked
      BY <3>4, <3>7, <3>9, <3>10 DEF Tracked
    <3>12. \A j : IsTracked(j)' <=> IsTracked(j)
      BY <3>0, <1>4, Zenon
    <3> QED BY <3>11, <3>12
  <2> QED BY <2>1, <2>2, <1>2
<1>7. Alone(p)'
  BY <1>2, Zenon DEF Focus, Alone
<1>8. CountedAt(p)'
  BY <1>2, <1>6, Zenon DEF Focus, CountedAt
<1>9. PartedAt(p)'
  <2>1. hand'[p] = t /\ lostQueue' = lostQueue /\ pc'[p] = "probe"
    BY <1>2, <1>5
  <2> QED BY <2>1, <1>0, <1>4, <1>6, Zenon DEF PartedAt, Untracked
<1>10. TimersAt(p)'
  BY <1>0, <1>2 DEF TimersAt, Flushing
<1> QED BY <1>7, <1>8, <1>9, <1>10, Zenon DEF Focus

\* Nothing is out at the start.
LEMMA SequentialInit == Init => SequentialInv
<1> SUFFICES ASSUME Init PROVE Focus(Inbound)
  BY DEF SequentialInv, Procs
<1>1. /\ \A p \in Procs : pc[p] = "idle"
      /\ inflight = 0 /\ strayTimers = 0 /\ lostQueue = <<>> /\ sentPackets = <<>>
      /\ Inbound \in Procs
  BY DEF Init, Procs
<1>2. Len(lostQueue) = 0 /\ DOMAIN sentPackets = {}
  BY <1>1
<1>3. Tracked = 0
  BY <1>2, LoadType, FS_EmptySet DEF Tracked
<1>4. Alone(Inbound) /\ CountedAt(Inbound)
  BY <1>1, <1>3, Zenon DEF Alone, CountedAt
<1>5. PartedAt(Inbound)
  BY <1>1, <1>2 DEF PartedAt, Untracked, Distinct, Among
<1>6. TimersAt(Inbound)
  BY <1>1 DEF TimersAt
<1> QED BY <1>4, <1>5, <1>6, Zenon DEF Focus

\* Every action is taken by the goroutine at work, or starts one when there is
\* none.
LEMMA SequentialStep == RecoveryInv /\ SequentialInv /\ [Next]_vars => SequentialInv'
<1> SUFFICES ASSUME RecoveryInv, SequentialInv, [Next]_vars, ~overlaps', ~unbooked'
             PROVE  \E p \in Procs : Focus(p)'
  BY DEF SequentialInv
<1>1. Inbound \in Procs /\ Loss \in Procs /\ Pacer \in Procs
  BY DEF Procs
<1>2. CASE UNCHANGED vars
  <2>1. PICK r \in Procs : Focus(r)
    BY <1>2, SMTT(20) DEF SequentialInv, vars, scenario
  <2>2. Focus(r)'
    BY <2>1, <1>2, ZenonT(30)
    DEF vars, pmVars, ccVars, lostVars, Focus, Alone, CountedAt, Tracked, PartedAt, Untracked,
        IsTracked, TimersAt, Flushing
  <2> QED BY <2>2
<1>3. ASSUME NEW p \in Procs, pc[p] # "idle" \/ Idle, UNCHANGED scenario PROVE Focus(p)
  <2>1. PICK r \in Procs : Focus(r)
    BY <1>3 DEF SequentialInv, scenario
  <2> QED BY <2>1, <1>3, Refocus
<1>4. CASE HandleAckFrame
  BY <1>4, <1>1, <1>3, AckFocus, Zenon DEF HandleAckFrame, MayStart, scenario
<1>5. CASE OnPacketAcked
  BY <1>5, <1>1, <1>3, BookFocus DEF OnPacketAcked
<1>6. CASE LossTimerFires
  BY <1>6, <1>1, <1>3, TimerFocus, Zenon DEF LossTimerFires, MayStart, scenario
<1>7. CASE PacerFires
  BY <1>7, <1>1, <1>3, TimerFocus, Zenon DEF PacerFires, MayStart, scenario
<1>8. ASSUME NEW p \in Procs, PrepareDataPacket(p) PROVE Focus(p)'
  BY <1>8, <1>3, PrepareFocus, Zenon DEF PrepareDataPacket, MayStart, scenario
<1>9. ASSUME NEW p \in Procs, SendPacket(p) PROVE Focus(p)'
  BY <1>9, <1>3, RegisterFocus, Zenon DEF SendPacket
<1>10. ASSUME NEW p \in Procs, OnPacketSent(p) \/ OnPacketLost(p) PROVE Focus(p)'
  BY <1>10, <1>3, BookFocus, Zenon DEF OnPacketSent, OnPacketLost
<1>11. ASSUME NEW p \in Procs, Transmit(p) PROVE Focus(p)'
  BY <1>11, <1>3, TransmitFocus, Zenon DEF Transmit
<1>12. ASSUME NEW p \in Procs, DetectLostPackets(p) PROVE Focus(p)'
  BY <1>12, <1>3, DetectFocus, Zenon DEF DetectLostPackets
<1>13. ASSUME NEW p \in Procs, QueueLost(p) PROVE Focus(p)'
  BY <1>13, <1>3, QueueFocus, Zenon DEF QueueLost
<1>14. ASSUME NEW p \in Procs,
              EnterFlush(p) \/ FlushStop(p) \/ PtoExpired(p) \/ RearmPto(p)
       PROVE  Focus(p)'
  BY <1>14, <1>3, TimerFocus, Zenon DEF EnterFlush, FlushStop, PtoExpired, RearmPto
<1>15. ASSUME NEW p \in Procs, PtoFires(p) PROVE Focus(p)'
  BY <1>15, <1>3, TimerFocus DEF PtoFires, MayStart, scenario
<1>16. ASSUME NEW p \in Procs, FlushSkip(p) PROVE Focus(p)'
  BY <1>16, <1>3, SkipFocus DEF FlushSkip
<1>17. ASSUME NEW p \in Procs, FlushSplit(p) PROVE Focus(p)'
  BY <1>17, <1>3, FlushSplitFocus, Zenon DEF FlushSplit
<1>18. ASSUME NEW p \in Procs, FlushResend(p) PROVE Focus(p)'
  BY <1>18, <1>3, ResendFocus, Zenon DEF FlushResend
<1>19. ASSUME NEW p \in Procs, PickProbes(p) PROVE Focus(p)'
  BY <1>19, <1>3, PickFocus, Zenon DEF PickProbes
<1>20. ASSUME NEW p \in Procs, ProbeResend(p) PROVE Focus(p)'
  BY <1>20, <1>3, ProbeResendFocus, Zenon DEF ProbeResend
<1>21. ASSUME NEW p \in Procs, ProbeSplit(p) PROVE FALSE
  BY <1>21, Zenon DEF ProbeSplit
<1> QED BY <1>1, <1>2, <1>4, <1>5, <1>6, <1>7, <1>8, <1>9, <1>10, <1>11, <1>12, <1>13,
           <1>14, <1>15, <1>16, <1>17, <1>18, <1>19, <1>20, <1>21 DEF Next

\* With one call at a time the focused invariant holds throughout.
LEMMA SequentialAlways == Spec => [](RecoveryInv /\ SequentialInv)
<1>1. Init => RecoveryInv /\ SequentialInv
  BY RecoveryInit, SequentialInit
<1>2. (RecoveryInv /\ SequentialInv) /\ [Next]_vars => (RecoveryInv /\ SequentialInv)'
  BY RecoveryStep, SequentialStep
<1> QED BY <1>1, <1>2, PTL DEF Spec

\* InflightExact: with no goroutine at work, none overtaken and no probe split,
\* OnPacketSent, OnPacketAcked and OnPacketLost have counted exactly the bytes
\* that sentPackets tracks, for any number of writers and any sizes.
THEOREM InflightIsExact == Spec => []InflightExact
<1>1. RecoveryInv /\ SequentialInv => InflightExact
  <2> SUFFICES ASSUME RecoveryInv, SequentialInv, Idle, ~overlaps, ~unbooked
               PROVE  inflight = Tracked
    BY DEF InflightExact, Tracked, Load
  <2>1. PICK p \in Procs : Focus(p)
    BY DEF SequentialInv
  <2>2. pc[p] = "idle" /\ inflight \in Nat /\ Tracked \in Nat
    BY <2>1, LoadFacts DEF Idle, Focus, TimersAt, RecoveryInv
  <2> QED BY <2>1, <2>2, Zenon DEF Focus, CountedAt
<1> QED BY <1>1, SequentialAlways, PTL

\* ProbingFollowsCount: in the same behaviours, while a packet is tracked or
\* waits in lostQueue some timer is running, so a path that never answers is
\* probed until the connection gives up.
THEOREM ProbingFollows == Spec => []ProbingFollowsCount
<1>1. RecoveryInv /\ SequentialInv => ProbingFollowsCount
  <2> SUFFICES ASSUME RecoveryInv, SequentialInv, Idle, ~overlaps, ~unbooked,
                      sentPackets # <<>> \/ lostQueue # <<>>
               PROVE  ptoTimer = "armed" \/ strayTimers > 0 \/ lossTimer \/ lostTimer
    BY DEF ProbingFollowsCount, ProbingGoesOn
  <2>1. PICK p \in Procs : Focus(p)
    BY DEF SequentialInv
  <2>2. pc[p] = "idle" /\ inflight \in Nat /\ Tracked \in Nat
    BY <2>1, LoadFacts DEF Idle, Focus, TimersAt, RecoveryInv
  <2>3. inflight = Tracked
    BY <2>1, <2>2, Zenon DEF Focus, CountedAt
  <2>4. inflight > 0 => ptoTimer = "armed" \/ strayTimers > 0
    BY <2>1, <2>2 DEF Focus, TimersAt
  <2>5. lostQueue # <<>> => lostTimer \/ inflight > 0
    BY <2>1, <2>2 DEF Focus, TimersAt, Flushing
  <2>6. sentPackets # <<>> => inflight > 0
    <3>1. sentPackets # <<>> => DOMAIN sentPackets # {}
      <4>1. sentPackets \in [DOMAIN sentPackets -> Ids] /\ <<>> \in [{} -> Ids]
        BY DEF RecoveryInv, Types
      <4>2. \A f, g \in [{} -> Ids] : f = g
        OBVIOUS
      <4> QED BY <4>1, <4>2
    <3> QED BY <3>1, <2>3, LoadFacts DEF RecoveryInv
  <2> QED BY <2>4, <2>5, <2>6
<1> QED BY <1>1, SequentialAlways, PTL

=============================================================================
