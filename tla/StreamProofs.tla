---------------------------- MODULE StreamProofs ----------------------------
(***************************************************************************)
(* The sending side of a connection.  The congestion window keeps its least *)
(* value, is contracted once a round trip and is overshot by no more than a *)
(* batch for every writer; the wait that the pacer tells is enough, and the *)
(* debt that senders leave it is bounded: for any number of writers, packets*)
(* and probes, and any sizes and rates.  The round-trip estimates stay     *)
(* within the samples, whatever the samples, the delays the peer reports   *)
(* and the constants.                                                      *)
(***************************************************************************)
EXTENDS Congestion, Pacing, RttEstimator, SetLemmas

\* cubicUpdate's increments are not negative.
LEMMA DivNat ==
    ASSUME NEW a \in Nat, NEW b \in Nat \ {0}
    PROVE  a \div b \in Nat
  BY SMT

\* A product of sizes is a size.
LEMMA ProductNat ==
    ASSUME NEW a \in Nat, NEW b \in Nat
    PROVE  a * b \in Nat
  BY SMT

\* A product with a size keeps an order, ...
LEMMA TimesMono ==
    ASSUME NEW a \in Nat, NEW b \in Int, NEW c \in Int, b <= c
    PROVE  a * b \in Int /\ a * c \in Int /\ a * b <= a * c
  BY SMT

\* ... and distributes over a sum.
LEMMA TimesSum ==
    ASSUME NEW a \in Int, NEW b \in Int, NEW c \in Int
    PROVE  a * b \in Int /\ a * c \in Int /\ a * (b + c) = a * b + a * c
  BY SMT

\* The larger and the smaller of two numbers.
LEMMA OfTwo ==
    ASSUME NEW a \in Int, NEW b \in Int
    PROVE  /\ Max({a, b}) = IF a >= b THEN a ELSE b
           /\ Min({a, b}) = IF a <= b THEN a ELSE b
<1>1. \E x \in {a, b} : \A y \in {a, b} : x >= y
  OBVIOUS
<1>2. \E x \in {a, b} : \A y \in {a, b} : x <= y
  OBVIOUS
<1>3. Max({a, b}) \in {a, b} /\ \A y \in {a, b} : Max({a, b}) >= y
  BY <1>1 DEF Max
<1>4. Min({a, b}) \in {a, b} /\ \A y \in {a, b} : Min({a, b}) <= y
  BY <1>2 DEF Min
<1> QED BY <1>3, <1>4

\* A number of ticks, rounded up, is enough.
LEMMA RoundedUp ==
    ASSUME NEW short \in Nat \ {0}, NEW r \in Nat \ {0}
    PROVE  /\ (short + r - 1) \div r \in Nat
           /\ r * ((short + r - 1) \div r) >= short
  BY SMT

\* Less in flight against a larger peak.
LEMMA SumShrinks ==
    ASSUME NEW i \in Int, NEW j \in Int, NEW s \in Int, NEW p \in Int, NEW q \in Int, NEW b \in Int,
           i <= j, p <= q, j + s <= p + b
    PROVE  i + s <= q + b
  BY SMT

\* What f and g say of S is the same.
Agree(f, g, S) == \A x \in S : f[x] = g[x]

\* Functions that agree on a set have the same sum over it.
LEMMA SumOfAlike ==
    ASSUME NEW f, NEW g, NEW S, IsFiniteSet(S), Agree(f, g, S)
    PROVE  SumFunctionOnSet(f, S) = SumFunctionOnSet(g, S)
<1>1. \A x \in S : f[x] = g[x]
  BY Zenon DEF Agree
<1> QED BY <1>1, SumAgree, Zenon

\* One sender's share changes, and the sum with it.
LEMMA SumUpdate ==
    ASSUME NEW S, IsFiniteSet(S), NEW f \in [S -> Int], NEW w \in S, NEW v \in Int
    PROVE  /\ SumFunction(f) \in Int
           /\ SumFunction([f EXCEPT ![w] = v]) = SumFunction(f) + (v - f[w])
<1> PICK g : g = [f EXCEPT ![w] = v]
  BY Zenon
<1>1. g \in [S -> Int] /\ g[w] = v /\ \A x \in S \ {w} : f[x] = g[x]
  OBVIOUS
<1>2. SumFunction(f) = SumFunctionOnSet(f, S) /\ SumFunction(g) = SumFunctionOnSet(g, S)
  <2>1. DOMAIN f = S /\ DOMAIN g = S
    BY <1>1
  <2> QED BY <2>1, Zenon DEF SumFunction
<1>3. PICK R : R = S \ {w} /\ IsFiniteSet(R)
  BY FS_Subset, Zenon
<1>4. (\A x \in S : f[x] \in Int /\ g[x] \in Int) /\ f[w] \in Int
  BY <1>1
<1>5. SumFunctionOnSet(f, S) = f[w] + SumFunctionOnSet(f, R)
  BY <1>3, <1>4, SumRemove
<1>6. SumFunctionOnSet(g, S) = g[w] + SumFunctionOnSet(g, R)
  BY <1>3, <1>4, SumRemove, Zenon
<1>7. SumFunctionOnSet(f, R) = SumFunctionOnSet(g, R)
  <2>1. Agree(f, g, R)
    BY <1>1, <1>3, Zenon DEF Agree
  <2>2. IsFiniteSet(R)
    BY <1>3, Zenon
  <2> QED BY <2>1, <2>2, SumOfAlike, Zenon
<1>8. SumFunctionOnSet(f, R) \in Int
  BY <1>3, <1>4, SumType
<1>9. PICK x \in Int, y \in Int, z \in Int :
        /\ x = SumFunction(f) /\ y = f[w] /\ z = SumFunctionOnSet(f, R) /\ x = y + z
  BY <1>2, <1>4, <1>5, <1>8
<1>10. SumFunction(g) = v + z
  BY <1>1, <1>2, <1>6, <1>7, <1>9
<1> QED BY <1>1, <1>9, <1>10

\* A sum of shares that are each at most b.
LEMMA SumAtMost ==
    ASSUME NEW S, IsFiniteSet(S), NEW f \in [S -> Int], NEW b \in Int, \A x \in S : f[x] <= b
    PROVE  Cardinality(S) \in Nat /\ SumFunction(f) <= Cardinality(S) * b
<1> DEFINE T == {s \in SUBSET S : ~(SumFunctionOnSet(f, s) <= Cardinality(s) * b)}
<1>1. SUFFICES ASSUME T # {} PROVE FALSE
  <2>1. SumFunction(f) = SumFunctionOnSet(f, S)
    BY Zenon DEF SumFunction
  <2> QED BY <2>1, FS_CardinalityType
<1>2. PICK s : MinimalIn(s, T)
  <2>1. T \in SUBSET SUBSET S
    OBVIOUS
  <2> HIDE DEF T
  <2> QED BY <1>1, <2>1, FiniteMinimal
<1>3. s \in SUBSET S /\ IsFiniteSet(s) /\ ~(SumFunctionOnSet(f, s) <= Cardinality(s) * b)
  BY <1>2, FS_Subset DEF MinimalIn
<1>4. PICK x \in s : TRUE
  <2>1. s = {} => SumFunctionOnSet(f, s) = 0 /\ Cardinality(s) = 0
    BY <1>3, SumUnfold, FS_EmptySet, Zenon
  <2> QED BY <2>1, <1>3
<1>5. PICK r : r = s \ {x}
  BY Zenon
<1>6. PICK c \in Nat, d \in Nat : c = Cardinality(s) /\ d = Cardinality(r) /\ c = d + 1 /\ IsFiniteSet(r)
  <2>1. IsFiniteSet(r) /\ Cardinality(r) = Cardinality(s) - 1
    BY <1>3, <1>4, <1>5, FS_RemoveElement
  <2> QED BY <2>1, <1>3, FS_CardinalityType
<1>7. PICK y \in Int : y = SumFunctionOnSet(f, r) /\ y <= d * b
  <2>1. SumFunctionOnSet(f, r) <= Cardinality(r) * b
    BY <1>2, <1>3, <1>4, <1>5 DEF MinimalIn
  <2>2. SumFunctionOnSet(f, r) \in Int
    BY <1>3, <1>5, <1>6, SumType
  <2> QED BY <2>1, <2>2, <1>6
<1>8. SumFunctionOnSet(f, s) = f[x] + y /\ f[x] \in Int /\ f[x] <= b
  <2>1. SumFunctionOnSet(f, s) = f[x] + SumFunctionOnSet(f, s \ {x})
    BY <1>3, <1>4, SumRemove
  <2> QED BY <2>1, <1>3, <1>4, <1>5, <1>7
<1>9. c * b = d * b + b
  BY <1>6, SMT
<1>10. d * b \in Int
  BY SMT
<1> QED BY <1>3, <1>6, <1>7, <1>8, <1>9, <1>10

\* All but one sender hold no more than b.
LEMMA SumAllBut ==
    ASSUME NEW S, IsFiniteSet(S), NEW f \in [S -> Int], NEW b \in Int, NEW u \in S,
           \A x \in S \ {u} : f[x] <= b
    PROVE  /\ Cardinality(S) \in Nat /\ SumFunction(f) \in Int
           /\ SumFunction(f) <= (Cardinality(S) - 1) * b + f[u]
<1> PICK g : g = [f EXCEPT ![u] = b]
  BY Zenon
<1>1. g \in [S -> Int] /\ \A x \in S : g[x] <= b
  OBVIOUS
<1>2. Cardinality(S) \in Nat /\ SumFunction(g) <= Cardinality(S) * b
  BY <1>1, SumAtMost, Zenon
<1>3. SumFunction(f) \in Int /\ SumFunction([f EXCEPT ![u] = b]) = SumFunction(f) + (b - f[u])
  BY SumUpdate, Zenon
<1>4. PICK n \in Nat, s \in Int, y \in Int : n = Cardinality(S) /\ s = SumFunction(f) /\ y = f[u]
  BY <1>2, <1>3
<1>5. s + (b - y) <= n * b
  BY <1>2, <1>3, <1>4
<1>6. n * b = (n - 1) * b + b /\ n * b \in Int /\ (n - 1) * b \in Int
  BY SMT
<1>7. s <= (n - 1) * b + y
  BY <1>5, <1>6
<1> QED BY <1>2, <1>3, <1>4, <1>7

-----------------------------------------------------------------------------
(***************************************************************************)
(* The congestion window.                                                  *)
(***************************************************************************)

\* What the controller and the sequence counters are.  Recovery lasts from the
\* last packet sent at the contraction; it is over only when a packet numbered
\* since was acknowledged.
WindowInv ==
    /\ cwnd \in Nat /\ ssthresh \in Nat /\ WindowFloor
    /\ inRecovery \in BOOLEAN /\ answered \in BOOLEAN /\ misread \in BOOLEAN
    /\ nextSeq \in Nat /\ cut \in Nat /\ lastSentSeq \in Int /\ recoveryEndSeq \in Int
    /\ sent \subseteq Int /\ IsFiniteSet(sent) /\ seq \in [Senders -> Int]
    /\ lost = [d \in Detectors |-> lost[d]]
    /\ inRecovery /\ ~misread => recoveryEndSeq = cut - 1
    /\ inRecovery \/ answered \/ misread

\* What an acknowledgement takes off the bytes in flight is a number of bytes.
LEMMA AckedBytes ==
    ASSUME NEW T, IsFiniteSet(T), NEW S \in SUBSET T
    PROVE  MSS * Cardinality(S) \in Nat
<1>1. IsFiniteSet(S)
  BY FS_Subset, Zenon
<1>2. Cardinality(S) \in Nat
  BY <1>1, FS_CardinalityType, Zenon
<1>3. MSS \in Nat
  BY WindowAssumption
<1> QED BY <1>2, <1>3, ProductNat, Zenon

\* NewCongestionController's state has it.
LEMMA WindowInitially == Init => WindowInv
<1> SUFFICES ASSUME Init
             PROVE  WindowInv
  OBVIOUS
<1>1. cwnd \in Nat /\ ssthresh \in Nat /\ WindowFloor
  BY WindowAssumption DEF Init, WindowFloor
<1>2. sent \subseteq Int /\ IsFiniteSet(sent)
  BY FS_EmptySet DEF Init
<1>3. seq \in [Senders -> Int] /\ lost = [d \in Detectors |-> lost[d]]
  BY DEF Init, NoSeq
<1>4. nextSeq \in Nat /\ cut \in Nat /\ lastSentSeq \in Int /\ recoveryEndSeq \in Int
  BY DEF Init
<1>5. inRecovery = FALSE /\ answered = TRUE /\ misread = FALSE
  BY DEF Init
<1> QED BY <1>1, <1>2, <1>3, <1>4, <1>5, Zenon DEF WindowInv

\* An acknowledgement never shrinks the window (OnPacketAcked, cubicUpdate).
LEMMA GrownGrows ==
    ASSUME WindowInv, NEW bytes \in Nat, NEW largest, NEW target \in Int
    PROVE  Grown(bytes, largest, target) \in Nat /\ Grown(bytes, largest, target) >= cwnd
<1>1. cwnd \in Nat \ {0} /\ MSS \in Nat /\ ssthresh \in Nat
  BY WindowAssumption DEF WindowInv, WindowFloor
<1>2. PICK tcp \in Nat : tcp = (MSS * bytes) \div cwnd
  BY <1>1, DivNat, ProductNat
<1>3. cwnd < target => ((target - cwnd) * MSS) \div cwnd \in Nat
  <2> SUFFICES ASSUME cwnd < target
               PROVE  ((target - cwnd) * MSS) \div cwnd \in Nat
    OBVIOUS
  <2>1. target - cwnd \in Nat
    BY <1>1
  <2> QED BY <1>1, <2>1, DivNat, ProductNat
<1>4. cubicUpdate(bytes, target) \in Nat /\ cubicUpdate(bytes, target) >= cwnd
  <2>1. CASE target < cwnd + tcp
    <3>1. cubicUpdate(bytes, target) = cwnd + tcp
      BY <1>2, <2>1 DEF cubicUpdate
    <3> QED BY <1>1, <1>2, <3>1
  <2>2. CASE ~(target < cwnd + tcp) /\ cwnd < target
    <3>1. PICK c \in Nat : c = ((target - cwnd) * MSS) \div cwnd
      BY <1>3, <2>2
    <3>2. cubicUpdate(bytes, target) = cwnd + c
      BY <1>2, <2>2, <3>1 DEF cubicUpdate
    <3> QED BY <1>1, <3>1, <3>2
  <2>3. CASE ~(target < cwnd + tcp) /\ ~(cwnd < target)
    <3>1. cubicUpdate(bytes, target) = cwnd + tcp
      BY <1>2, <2>3 DEF cubicUpdate
    <3> QED BY <1>1, <1>2, <3>1
  <2> QED BY <2>1, <2>2, <2>3
<1> QED BY <1>1, <1>4 DEF Grown

\* Contraction keeps the least window (OnCongestionEvent).
LEMMA ContractedFloor ==
    ASSUME NEW b \in Nat, NEW w \in Contracted(b)
    PROVE  w \in Nat /\ w >= MinCwnd
<1>1. MinCwnd \in Nat
  BY WindowAssumption
<1>2. \A c \in BetaCubic(b) : c \in Int
  BY DEF BetaCubic
<1> QED BY <1>1, <1>2 DEF Contracted

\* Every step keeps it.
LEMMA WindowStep == WindowInv /\ [Next]_vars => WindowInv'
<1> SUFFICES ASSUME WindowInv, [Next]_vars
             PROVE  WindowInv'
  OBVIOUS
<1> USE DEF WindowInv, WindowFloor
<1>1. CASE UNCHANGED vars
  BY <1>1 DEF vars, ccVars, cutVars
<1>2. ASSUME NEW w \in Writers, awaitSendCredit(w)
      PROVE  WindowInv'
  BY <1>2 DEF awaitSendCredit, ccVars, cutVars
<1>3. ASSUME NEW w \in Writers, NEW chunks \in 2..SendBatchMax, awaitSendCreditUpTo(w, chunks)
      PROVE  WindowInv'
  BY <1>3 DEF awaitSendCreditUpTo, ccVars, cutVars
<1>4. ASSUME NEW w \in Writers, NextSequence(w)
      PROVE  WindowInv'
  <2>1. nextSeq' \in Nat /\ seq' \in [Senders -> Int]
    <3>1. seq' = [seq EXCEPT ![w] = nextSeq] /\ nextSeq' = nextSeq + 1
      BY <1>4 DEF NextSequence
    <3>2. nextSeq \in Int /\ nextSeq + 1 \in Nat
      OBVIOUS
    <3> QED BY <3>1, <3>2, Zenon
  <2> QED BY <1>4, <2>1 DEF NextSequence, ccVars, cutVars
<1>5. ASSUME NEW w \in Writers, prepareDataPacket(w)
      PROVE  WindowInv'
  <2>1. seq[w] \in Int
    BY DEF Senders
  <2>2. sent' \subseteq Int /\ IsFiniteSet(sent')
    <3>1. sent' = sent \cup {seq[w]}
      BY <1>5, Zenon DEF prepareDataPacket
    <3>2. IsFiniteSet(sent \cup {seq[w]})
      BY FS_AddElement, Zenon
    <3> QED BY <3>1, <3>2, <2>1
  <2>3. seq' \in [Senders -> Int] /\ lastSentSeq' \in Int
    <3>1. NoSeq \in Int
      BY DEF NoSeq
    <3> QED BY <1>5, <2>1, <3>1, Zenon DEF prepareDataPacket
  <2> QED BY <1>5, <2>2, <2>3 DEF prepareDataPacket, ccVars, cutVars
<1>6. CASE flushLost
  BY <1>6 DEF flushLost, ccVars, cutVars
<1>7. CASE Resend
  <2>1. sent' \subseteq Int /\ IsFiniteSet(sent')
    <3>1. sent' = sent \cup {nextSeq} /\ nextSeq \in Int
      BY <1>7 DEF Resend
    <3>2. IsFiniteSet(sent \cup {nextSeq})
      BY FS_AddElement, Zenon
    <3> QED BY <3>1, <3>2
  <2> QED BY <1>7, <2>1 DEF Resend, ccVars, cutVars
<1>8. CASE onPTO
  <2>1. IsFiniteSet(sent \ {Min(sent)})
    BY FS_Subset
  <2>2. sent' \subseteq Int /\ IsFiniteSet(sent')
    BY <1>8, <2>1, FS_AddElement DEF onPTO
  <2> QED BY <1>8, <2>2 DEF onPTO, ccVars, cutVars
<1>9. ASSUME NEW S \in SUBSET sent, NEW largest \in sent \cup {largestAcked},
             NEW target \in CubicTargets, OnPacketAcked(S, largest, target)
      PROVE  WindowInv'
  <2> DEFINE bytes == MSS * Cardinality(S)
  <2>1. bytes \in Nat
    BY AckedBytes, Zenon
  <2>2. cwnd' \in Nat /\ cwnd' >= cwnd
    <3>1. target \in Int
      BY WindowAssumption
    <3>2. cwnd' = IF largest \in S THEN Grown(bytes, largest, target) ELSE cwnd
      BY <1>9 DEF OnPacketAcked
    <3> HIDE DEF WindowInv, bytes
    <3>3. Grown(bytes, largest, target) \in Nat /\ Grown(bytes, largest, target) >= cwnd
      BY <2>1, <3>1, GrownGrows
    <3>4. cwnd \in Nat
      BY DEF WindowInv
    <3> QED BY <3>2, <3>3, <3>4
  <2>3. sent' \subseteq Int /\ IsFiniteSet(sent')
    BY <1>9, FS_Subset DEF OnPacketAcked
  <2>4. /\ inRecovery' = (inRecovery /\ ~(largest \in S /\ recovered(largest)))
        /\ answered' = (answered \/ \E s \in S : s >= cut)
    BY <1>9 DEF OnPacketAcked
  <2>5. /\ UNCHANGED <<ssthresh, recoveryEndSeq, nextSeq, lastSentSeq, seq, lost, cut, misread>>
    BY <1>9 DEF OnPacketAcked
  <2>6. inRecovery' \/ answered' \/ misread'
    <3>1. CASE inRecovery /\ ~misread /\ largest \in S /\ recovered(largest)
      <4>1. largest >= cut
        BY <3>1 DEF recovered
      <4> QED BY <2>4, <3>1, <4>1, Zenon
    <3>2. CASE ~(inRecovery /\ ~misread /\ largest \in S /\ recovered(largest))
      BY <2>4, <2>5, <3>2
    <3> QED BY <3>1, <3>2
  <2>7. inRecovery' /\ ~misread' => recoveryEndSeq' = cut' - 1
    BY <2>4, <2>5
  <2>8. WindowFloor' /\ ssthresh' \in Nat
    BY <2>2, <2>5, WindowAssumption
  <2>9. inRecovery' \in BOOLEAN /\ answered' \in BOOLEAN /\ misread' \in BOOLEAN
    BY <2>4, <2>5
  <2>10. /\ nextSeq' \in Nat /\ cut' \in Nat /\ lastSentSeq' \in Int /\ recoveryEndSeq' \in Int
         /\ seq' \in [Senders -> Int] /\ lost' = [d \in Detectors |-> lost'[d]]
    BY <2>5
  <2> QED BY <2>2, <2>3, <2>6, <2>7, <2>8, <2>9, <2>10
<1>10. ASSUME NEW d \in Detectors, NEW L \in SUBSET sent, DetectLostPackets(d, L)
       PROVE  WindowInv'
  <2>1. sent' \subseteq Int /\ IsFiniteSet(sent')
    BY <1>10, FS_Subset DEF DetectLostPackets
  <2>2. lost' = [e \in Detectors |-> lost'[e]]
    BY <1>10 DEF DetectLostPackets
  <2> QED BY <1>10, <2>1, <2>2 DEF DetectLostPackets, ccVars, cutVars
<1>11. ASSUME NEW d \in Detectors, NEW persistent \in BOOLEAN, OnPacketsLost(d, persistent)
       PROVE  WindowInv'
  <2>1. PICK w \in Contracted(cwnd) :
            /\ ssthresh' = IF inRecovery THEN ssthresh ELSE w
            /\ cwnd' = IF persistent THEN MinCwnd ELSE IF inRecovery THEN cwnd ELSE w
    BY <1>11 DEF OnPacketsLost
  <2>2. w \in Nat /\ w >= MinCwnd /\ MinCwnd \in Nat
    BY ContractedFloor, WindowAssumption
  <2>3. cwnd' \in Nat /\ ssthresh' \in Nat /\ WindowFloor'
    BY <2>1, <2>2
  <2>4. lost' = [e \in Detectors |-> lost'[e]]
    BY <1>11, Zenon DEF OnPacketsLost
  <2>5. UNCHANGED <<nextSeq, lastSentSeq, sent, seq>>
    BY <1>11 DEF OnPacketsLost
  <2>6. /\ inRecovery' = ~persistent
        /\ recoveryEndSeq' = IF persistent THEN -1
                             ELSE IF inRecovery THEN recoveryEndSeq ELSE lastSentSeq
        /\ IF persistent \/ ~inRecovery
           THEN cut' = nextSeq /\ answered' = persistent /\ misread' = (lastSentSeq # nextSeq - 1)
           ELSE cut' = cut /\ answered' = answered /\ misread' = misread
    BY <1>11 DEF OnPacketsLost
  <2>7. /\ inRecovery' \in BOOLEAN /\ answered' \in BOOLEAN /\ misread' \in BOOLEAN
        /\ inRecovery' \/ answered' \/ misread'
    BY <2>6, Zenon
  <2>8. cut' \in Nat /\ recoveryEndSeq' \in Int
    BY <2>6
  <2>9. inRecovery' /\ ~misread' => recoveryEndSeq' = cut' - 1
    BY <2>6
  <2> QED BY <2>3, <2>4, <2>5, <2>7, <2>8, <2>9
<1> QED
  BY <1>1, <1>2, <1>3, <1>4, <1>5, <1>6, <1>7, <1>8, <1>9, <1>10, <1>11, Zenon DEF Next

\* Whatever is lost, the window keeps its least value, and a full datagram is
\* admitted when nothing is in flight (OnCongestionEvent,
\* OnPersistentCongestion).
THEOREM WindowKeepsFloor == Spec => []WindowFloor
<1>1. WindowInv => WindowFloor
  BY DEF WindowInv
<1> QED BY <1>1, WindowInitially, WindowStep, PTL DEF Spec

\* The window is contracted once a round trip, and never by an ACK
\* (OnCongestionEvent, OnPacketAcked).
THEOREM ContractsOnce == Spec => OncePerRoundTrip
<1> DEFINE Once == cwnd' < cwnd => /\ \E d \in Detectors : lost[d] # lost'[d]
                                   /\ answered \/ misread \/ recoveryEndSeq' = -1
<1>1. ASSUME WindowInv, [Next]_vars
      PROVE  [Once]_vars
  <2> SUFFICES ASSUME Next
               PROVE  Once
    BY <1>1
  <2>1. cwnd \in Nat
    BY <1>1 DEF WindowInv
  <2>2. CASE UNCHANGED cwnd
    BY <2>1, <2>2
  <2>3. ASSUME NEW S \in SUBSET sent, NEW largest \in sent \cup {largestAcked},
               NEW target \in CubicTargets, OnPacketAcked(S, largest, target)
        PROVE  Once
    <3>1. MSS * Cardinality(S) \in Nat
      <4>1. IsFiniteSet(sent)
        BY <1>1, Zenon DEF WindowInv
      <4> QED BY <4>1, AckedBytes, Zenon
    <3>2. target \in Int
      BY WindowAssumption
    <3>3. cwnd' = IF largest \in S THEN Grown(MSS * Cardinality(S), largest, target) ELSE cwnd
      BY <2>3 DEF OnPacketAcked
    <3>4. cwnd' \in Nat /\ cwnd' >= cwnd
      BY <1>1, <2>1, <3>1, <3>2, <3>3, GrownGrows
    <3> QED BY <2>1, <3>4
  <2>4. ASSUME NEW d \in Detectors, NEW persistent \in BOOLEAN, OnPacketsLost(d, persistent)
        PROVE  Once
    <3>1. lost[d] # lost'[d]
      BY <1>1, <2>4 DEF WindowInv, OnPacketsLost
    <3>2. CASE persistent
      BY <2>4, <3>1, <3>2 DEF OnPacketsLost
    <3>3. CASE ~persistent /\ inRecovery
      BY <2>1, <2>4, <3>3 DEF OnPacketsLost
    <3>4. CASE ~inRecovery
      BY <1>1, <3>1, <3>4 DEF WindowInv
    <3> QED BY <3>2, <3>3, <3>4
  <2>5. ASSUME NEW w \in Writers, awaitSendCredit(w) \/ NextSequence(w) \/ prepareDataPacket(w)
        PROVE  UNCHANGED cwnd
    BY <2>5 DEF awaitSendCredit, NextSequence, prepareDataPacket, ccVars
  <2>6. ASSUME NEW w \in Writers, NEW chunks \in 2..SendBatchMax, awaitSendCreditUpTo(w, chunks)
        PROVE  UNCHANGED cwnd
    BY <2>6, Zenon DEF awaitSendCreditUpTo, ccVars
  <2>7. flushLost \/ Resend \/ onPTO => UNCHANGED cwnd
    BY DEF flushLost, Resend, onPTO, ccVars
  <2>8. ASSUME NEW d \in Detectors, NEW L \in SUBSET sent, DetectLostPackets(d, L)
        PROVE  UNCHANGED cwnd
    BY <2>8 DEF DetectLostPackets, ccVars
  <2> HIDE DEF Once
  <2> QED BY <2>2, <2>3, <2>4, <2>5, <2>6, <2>7, <2>8 DEF Next
<1> QED BY <1>1, WindowInitially, WindowStep, PTL DEF Spec, OncePerRoundTrip

\* The most one sender is admitted for.
Batch == SendBatchMax * MSS

\* What a sender has been admitted for is at most a batch, and a packet for the
\* resender; the window has never been larger than its peak.
AdmitInv ==
    /\ inflight \in Nat /\ peak \in Nat /\ cwnd <= peak
    /\ left \in [Senders -> Int] /\ (\A w \in Senders : left[w] <= Batch)
    /\ left[Resender] \in {0, MSS}
    /\ \A d \in Detectors : IsFiniteSet(lost[d])
    /\ OvershootBounded

\* The senders, and the bytes of a batch.
LEMMA SenderFacts ==
    /\ IsFiniteSet(Senders) /\ Resender \in Senders /\ Writers \subseteq Senders
    /\ Cardinality(Writers) \in Nat /\ Cardinality(Senders) = Cardinality(Writers) + 1
    /\ Batch \in Nat /\ MSS \in Nat \ {0} /\ MSS <= Batch
<1>1. IsFiniteSet(Writers) /\ Cardinality(Writers) \in Nat
  BY WindowAssumption, FS_CardinalityType
<1>2. IsFiniteSet(Senders) /\ Cardinality(Senders) = Cardinality(Writers) + 1
  BY <1>1, WindowAssumption, FS_AddElement DEF Senders
<1>3. Batch \in Nat /\ MSS <= Batch
  <2>1. MSS * 1 <= MSS * SendBatchMax /\ MSS * SendBatchMax \in Int
    BY WindowAssumption, TimesMono
  <2>2. MSS * SendBatchMax = Batch /\ MSS * 1 = MSS
    BY WindowAssumption DEF Batch
  <2> QED BY <2>1, <2>2, WindowAssumption
<1> QED BY <1>1, <1>2, <1>3, WindowAssumption DEF Senders

\* A sender is admitted for what the window has room for now: whatever the
\* others hold, the overshoot stays within the bound.
LEMMA Admitted ==
    ASSUME WindowInv, AdmitInv, NEW u \in Senders, NEW n \in Int, n <= Batch, inflight + n <= cwnd
    PROVE  inflight + SumFunction([left EXCEPT ![u] = n]) <= peak + Cardinality(Writers) * SendBatchMax * MSS
<1> PICK f : f = [left EXCEPT ![u] = n]
  BY Zenon
<1>0. f[u] = n
  BY DEF AdmitInv
<1>1. f \in [Senders -> Int] /\ \A x \in Senders \ {u} : f[x] <= Batch
  BY DEF AdmitInv
<1>2. SumFunction(f) \in Int /\ SumFunction(f) <= (Cardinality(Senders) - 1) * Batch + f[u]
  <2>1. Batch \in Int /\ IsFiniteSet(Senders)
    BY SenderFacts
  <2> QED BY <2>1, <1>1, SumAllBut, Zenon
<1>3. PICK c \in Nat, s \in Int, m \in Nat, k \in Nat :
        /\ c = Cardinality(Writers) /\ s = SumFunction(f) /\ m = MSS /\ k = SendBatchMax
        /\ Batch = k * m
  BY <1>2, SenderFacts, WindowAssumption DEF Batch
<1>4. s <= c * (k * m) + n
  <2>1. Cardinality(Senders) - 1 = c
    BY <1>3, SenderFacts
  <2> QED BY <2>1, <1>0, <1>2, <1>3
<1>5. c * (k * m) = c * k * m /\ c * (k * m) \in Int
  BY SMT
<1>6. inflight \in Nat /\ peak \in Nat /\ cwnd <= peak /\ cwnd \in Nat
  BY DEF AdmitInv, WindowInv
<1>7. inflight + s <= peak + c * k * m
  BY <1>4, <1>5, <1>6
<1> QED BY <1>3, <1>7

\* Contraction does not widen the window.
LEMMA ContractedNarrows ==
    ASSUME NEW b \in Nat, b >= MinCwnd, NEW w \in Contracted(b)
    PROVE  w <= b
<1>1. MinCwnd \in Nat
  BY WindowAssumption
<1>2. \A c \in BetaCubic(b) : c \in Int /\ c <= b
  BY DEF BetaCubic
<1> QED BY <1>1, <1>2 DEF Contracted

\* The controller starts with nothing in flight and no one admitted.
LEMMA AdmitInitially == Init => AdmitInv
<1> SUFFICES ASSUME Init
             PROVE  AdmitInv
  OBVIOUS
<1>1. /\ inflight = 0 /\ peak = InitialCwnd /\ cwnd = InitialCwnd
      /\ left = [w \in Senders |-> 0] /\ \A d \in Detectors : lost[d] = {}
  BY DEF Init
<1>2. left \in [Senders -> Int] /\ left[Resender] = 0 /\ \A w \in Senders : left[w] <= Batch
  BY <1>1, SenderFacts
<1>3. SumFunction(left) <= Cardinality(Senders) * 0
  <2>1. \A x \in Senders : left[x] <= 0
    BY <1>1
  <2> QED BY <1>2, <2>1, SenderFacts, SumAtMost
<1>4. SumFunction(left) \in Int
  BY <1>2, SenderFacts, SumUpdate
<1>5. InitialCwnd \in Nat
  BY WindowAssumption
<1>6. Cardinality(Writers) * SendBatchMax * MSS \in Nat
  BY SenderFacts, WindowAssumption, ProductNat
<1>7. OvershootBounded
  <2>1. PICK b \in Nat, s \in Int : b = Cardinality(Writers) * SendBatchMax * MSS /\ s = SumFunction(left)
    BY <1>4, <1>6
  <2>2. s <= 0
    BY <1>3, <2>1, SenderFacts
  <2>3. inflight + s <= peak + b
    BY <1>1, <1>5, <2>2
  <2> QED BY <2>1, <2>3 DEF OvershootBounded
<1>8. \A d \in Detectors : IsFiniteSet(lost[d])
  BY <1>1, FS_EmptySet
<1> QED BY <1>1, <1>2, <1>5, <1>7, <1>8 DEF AdmitInv

\* Admitting a sender, for a packet or for a batch.
LEMMA AdmitOne ==
    ASSUME WindowInv, AdmitInv, NEW u \in Senders, NEW n \in Int, n <= Batch, inflight + n <= cwnd,
           u = Resender => n = MSS,
           left' = [left EXCEPT ![u] = n], UNCHANGED <<cwnd, inflight, lost, peak>>
    PROVE  AdmitInv'
<1> PICK f : f = left'
  BY Zenon
<1>1. f = [left EXCEPT ![u] = n] /\ left \in [Senders -> Int]
  BY DEF AdmitInv
<1>2. f \in [Senders -> Int] /\ \A w \in Senders : f[w] <= Batch
  BY <1>1 DEF AdmitInv
<1>3. f[Resender] \in {0, MSS}
  BY <1>1, SenderFacts DEF AdmitInv
<1>4. inflight + SumFunction([left EXCEPT ![u] = n]) <= peak + Cardinality(Writers) * SendBatchMax * MSS
  BY Admitted, Zenon
<1>5. OvershootBounded'
  BY <1>1, <1>4 DEF OvershootBounded
<1> QED BY <1>2, <1>3, <1>5 DEF AdmitInv

\* What a step on one sender does to what they are admitted for together.
LEMMA LeftUpdate ==
    ASSUME left \in [Senders -> Int], NEW u \in Senders, NEW n \in Int
    PROVE  /\ SumFunction(left) \in Int
           /\ SumFunction([left EXCEPT ![u] = n]) = SumFunction(left) + (n - left[u])
  BY SenderFacts, SumUpdate, Zenon

\* Booking a packet takes from what its sender was admitted for.
LEMMA BookOne ==
    ASSUME WindowInv, AdmitInv, NEW u \in Senders, NEW n \in Int, n = left[u] - MSS,
           u = Resender => n = 0,
           left' = [left EXCEPT ![u] = n], inflight' = inflight + MSS,
           UNCHANGED <<cwnd, lost, peak>>
    PROVE  AdmitInv'
<1> PICK f : f = left'
  BY Zenon
<1>1. f = [left EXCEPT ![u] = n] /\ left \in [Senders -> Int]
  BY DEF AdmitInv
<1>2. f \in [Senders -> Int] /\ \A w \in Senders : f[w] <= Batch
  BY <1>1, SenderFacts DEF AdmitInv
<1>3. f[Resender] \in {0, MSS}
  BY <1>1, SenderFacts DEF AdmitInv
<1>4. /\ SumFunction(left) \in Int
      /\ SumFunction([left EXCEPT ![u] = n]) = SumFunction(left) + (n - left[u])
  BY <1>1, LeftUpdate, Zenon
<1>5. inflight \in Nat /\ peak \in Nat /\ Cardinality(Writers) * SendBatchMax * MSS \in Nat
  BY SenderFacts, WindowAssumption, ProductNat DEF AdmitInv
<1>6. OvershootBounded'
  <2>1. PICK s \in Int, b \in Nat, y \in Int :
          s = SumFunction(left) /\ b = Cardinality(Writers) * SendBatchMax * MSS /\ y = left[u]
    BY <1>1, <1>4, <1>5
  <2>2. inflight + s <= peak + b
    BY <2>1 DEF AdmitInv, OvershootBounded
  <2>3. n - y = 0 - MSS /\ MSS \in Nat
    BY <2>1, SenderFacts
  <2>4. inflight + MSS + (s + (n - y)) <= peak + b
    BY <2>2, <2>3, <1>5
  <2>5. SumFunction(f) = s + (n - y)
    BY <1>1, <1>4, <2>1
  <2>6. inflight' + SumFunction(f) <= peak + b
    BY <2>4, <2>5
  <2> QED BY <2>1, <2>6 DEF OvershootBounded
<1>7. inflight' \in Nat
  BY <1>5, SenderFacts
<1> QED BY <1>2, <1>3, <1>6, <1>7 DEF AdmitInv

\* Acknowledgements and losses only take from what is in flight, and the
\* window stays within its peak.
LEMMA FreeSome ==
    ASSUME WindowInv, AdmitInv, inflight' \in Nat, inflight' <= inflight, UNCHANGED left,
           peak' \in Nat, peak <= peak', cwnd' <= peak', \A d \in Detectors : IsFiniteSet(lost[d])'
    PROVE  AdmitInv'
<1>1. /\ inflight \in Nat /\ peak \in Nat /\ Cardinality(Writers) * SendBatchMax * MSS \in Nat
      /\ left \in [Senders -> Int]
  BY SenderFacts, WindowAssumption, ProductNat DEF AdmitInv
<1>2. SumFunction(left) \in Int
  BY <1>1, SenderFacts, SumUpdate
<1>3. OvershootBounded'
  <2>1. PICK s \in Int, b \in Nat :
          s = SumFunction(left) /\ b = Cardinality(Writers) * SendBatchMax * MSS
    BY <1>1, <1>2
  <2>2. inflight + s <= peak + b
    BY <2>1 DEF AdmitInv, OvershootBounded
  <2>3. PICK i \in Nat, q \in Nat : i = inflight' /\ q = peak' /\ i <= inflight /\ peak <= q
    OBVIOUS
  <2>4. PICK j \in Nat, p \in Nat : j = inflight /\ p = peak
    BY <1>1
  <2>5. i <= j /\ p <= q /\ j + s <= p + b
    BY <2>2, <2>3, <2>4
  <2>6. i + s <= q + b
    BY <2>5, SumShrinks
  <2> QED BY <2>1, <2>3, <2>6 DEF OvershootBounded
<1> QED BY <1>3 DEF AdmitInv

\* Every step keeps it.
LEMMA AdmitStep == WindowInv /\ AdmitInv /\ [Next]_vars => AdmitInv'
<1> SUFFICES ASSUME WindowInv, AdmitInv, [Next]_vars
             PROVE  AdmitInv'
  OBVIOUS
<1>0. /\ inflight \in Nat /\ peak \in Nat /\ cwnd \in Nat /\ cwnd <= peak /\ MSS \in Nat \ {0}
      /\ MinCwnd \in Nat /\ cwnd >= MinCwnd
  BY WindowAssumption DEF AdmitInv, WindowInv, WindowFloor
<1>k. \A d \in Detectors : IsFiniteSet(lost[d])
  BY DEF AdmitInv
<1>u. UNCHANGED <<cwnd, inflight, left, peak, lost>> => AdmitInv'
  BY DEF AdmitInv, OvershootBounded
<1>1. CASE UNCHANGED vars
  BY <1>1, <1>u DEF vars, ccVars, cutVars
<1>2. ASSUME NEW w \in Writers, awaitSendCredit(w)
      PROVE  AdmitInv'
  <2>1. /\ inflight + MSS <= cwnd /\ left' = [left EXCEPT ![w] = MSS]
        /\ UNCHANGED <<cwnd, inflight, lost, peak>>
    BY <1>2 DEF awaitSendCredit, CanSend, ccVars, cutVars
  <2>2. w \in Senders /\ MSS \in Int /\ MSS <= Batch
    BY SenderFacts
  <2> QED BY <2>1, <2>2, AdmitOne, Zenon
<1>3. ASSUME NEW w \in Writers, NEW chunks \in 2..SendBatchMax, awaitSendCreditUpTo(w, chunks)
      PROVE  AdmitInv'
  <2>1. PICK n \in Nat : n = chunks * MSS
    BY <1>0, ProductNat
  <2>2. /\ n <= Available /\ left' = [left EXCEPT ![w] = n]
        /\ UNCHANGED <<cwnd, inflight, lost, peak>>
    BY <1>3, <2>1 DEF awaitSendCreditUpTo, ccVars, cutVars
  <2>3. n > 0 /\ n <= Batch
    <3>1. MSS * 1 <= MSS * chunks /\ MSS * chunks <= MSS * SendBatchMax
      BY <1>0, WindowAssumption, TimesMono
    <3>2. MSS * chunks = n /\ MSS * SendBatchMax = Batch /\ MSS * 1 = MSS
      BY <1>0, <2>1, WindowAssumption DEF Batch
    <3> QED BY <1>0, <2>1, <3>1, <3>2, SenderFacts
  <2>4. inflight + n <= cwnd
    BY <1>0, <2>2, <2>3 DEF Available, NonNegative
  <2>5. w \in Senders /\ w # Resender /\ n \in Int
    BY SenderFacts, WindowAssumption
  <2> QED BY <2>2, <2>3, <2>4, <2>5, AdmitOne, Zenon
<1>4. ASSUME NEW w \in Writers, NextSequence(w)
      PROVE  AdmitInv'
  BY <1>4, <1>u DEF NextSequence, ccVars, cutVars
<1>5. ASSUME NEW w \in Writers, prepareDataPacket(w)
      PROVE  AdmitInv'
  <2>1. w \in Senders /\ w # Resender
    BY SenderFacts, WindowAssumption
  <2>2. PICK n \in Int : n = left[w] - MSS
    BY <1>0, <2>1 DEF AdmitInv
  <2>3. /\ inflight' = inflight + MSS /\ left' = [left EXCEPT ![w] = n]
        /\ UNCHANGED <<cwnd, lost, peak>>
    BY <1>5, <2>2 DEF prepareDataPacket, ccVars, cutVars
  <2> QED BY <2>1, <2>2, <2>3, BookOne, Zenon
<1>6. CASE flushLost
  <2>1. /\ inflight + MSS <= cwnd /\ left' = [left EXCEPT ![Resender] = MSS]
        /\ UNCHANGED <<cwnd, inflight, lost, peak>>
    BY <1>6 DEF flushLost, CanSend, ccVars, cutVars
  <2>2. Resender \in Senders /\ MSS \in Int /\ MSS <= Batch
    BY SenderFacts
  <2> QED BY <2>1, <2>2, AdmitOne, Zenon
<1>7. CASE Resend
  <2>1. Resender \in Senders
    BY SenderFacts
  <2>2. left[Resender] > 0 /\ left[Resender] \in {0, MSS}
    BY <1>7 DEF Resend, AdmitInv
  <2>3. 0 = left[Resender] - MSS /\ 0 \in Int
    BY <1>0, <2>2
  <2>4. /\ inflight' = inflight + MSS /\ left' = [left EXCEPT ![Resender] = 0]
        /\ UNCHANGED <<cwnd, lost, peak>>
    BY <1>7 DEF Resend, ccVars, cutVars
  <2> QED BY <2>1, <2>3, <2>4, BookOne, Zenon
<1>8. CASE onPTO
  BY <1>8, <1>u DEF onPTO, ccVars, cutVars
<1>9. ASSUME NEW S \in SUBSET sent, NEW largest \in sent \cup {largestAcked},
             NEW target \in CubicTargets, OnPacketAcked(S, largest, target)
      PROVE  AdmitInv'
  <2>1. PICK bytes \in Nat : bytes = MSS * Cardinality(S)
    BY <1>0, FS_Subset, FS_CardinalityType, ProductNat DEF WindowInv
  <2>2. /\ inflight' = NonNegative(inflight - bytes) /\ peak' = Max({peak, cwnd'})
        /\ UNCHANGED <<left, lost>>
    BY <1>9, <2>1 DEF OnPacketAcked
  <2>3. inflight' \in Nat /\ inflight' <= inflight
    BY <1>0, <2>2 DEF NonNegative
  <2>4. PICK c \in Nat : c = cwnd'
    BY WindowStep DEF WindowInv
  <2>5. Max({peak, c}) = IF peak >= c THEN peak ELSE c
    BY <1>0, OfTwo
  <2>6. peak' \in Nat /\ peak <= peak' /\ cwnd' <= peak'
    BY <1>0, <2>2, <2>4, <2>5
  <2>7. \A d \in Detectors : IsFiniteSet(lost[d])'
    BY <1>k, <2>2
  <2> QED BY <2>2, <2>3, <2>6, <2>7, FreeSome
<1>10. ASSUME NEW d \in Detectors, NEW L \in SUBSET sent, DetectLostPackets(d, L)
       PROVE  AdmitInv'
  <2>1. lost' = [lost EXCEPT ![d] = L] /\ UNCHANGED <<cwnd, inflight, left, peak>>
    BY <1>10 DEF DetectLostPackets, ccVars, cutVars
  <2>2. IsFiniteSet(L)
    BY FS_Subset DEF WindowInv
  <2>3. \A e \in Detectors : IsFiniteSet(lost'[e])
    BY <1>k, <2>1, <2>2 DEF WindowInv
  <2> QED BY <2>1, <2>3 DEF AdmitInv, OvershootBounded
<1>11. ASSUME NEW d \in Detectors, NEW persistent \in BOOLEAN, OnPacketsLost(d, persistent)
       PROVE  AdmitInv'
  <2>1. PICK bytes \in Nat : bytes = MSS * Cardinality(lost[d])
    BY <1>0, <1>k, FS_CardinalityType, ProductNat
  <2>2. /\ inflight' = NonNegative(inflight - bytes) /\ lost' = [lost EXCEPT ![d] = {}]
        /\ UNCHANGED <<left, peak>>
    BY <1>11, <2>1 DEF OnPacketsLost
  <2>3. inflight' \in Nat /\ inflight' <= inflight
    BY <1>0, <2>2 DEF NonNegative
  <2>4. PICK w \in Contracted(cwnd) :
            cwnd' = IF persistent THEN MinCwnd ELSE IF inRecovery THEN cwnd ELSE w
    BY <1>11 DEF OnPacketsLost
  <2>5. w <= cwnd /\ w \in Nat
    BY <1>0, ContractedNarrows, ContractedFloor
  <2>6. peak' \in Nat /\ peak <= peak' /\ cwnd' <= peak'
    BY <1>0, <2>2, <2>4, <2>5
  <2>7. \A e \in Detectors : IsFiniteSet(lost[e])'
    BY <1>k, <2>2, FS_EmptySet DEF WindowInv
  <2> QED BY <2>2, <2>3, <2>6, <2>7, FreeSome
<1> QED
  BY <1>1, <1>2, <1>3, <1>4, <1>5, <1>6, <1>7, <1>8, <1>9, <1>10, <1>11 DEF Next

\* However many writers and the resender look at the window before the others
\* have booked what it admitted to them, they overshoot it together by no more
\* than a batch for every writer (awaitSendCreditUpTo, flushLost,
\* prepareDataPacket).
THEOREM OvershootIsBounded == Spec => []OvershootBounded
<1>1. AdmitInv => OvershootBounded
  BY DEF AdmitInv
<1> QED BY <1>1, WindowInitially, WindowStep, AdmitInitially, AdmitStep, PTL DEF Spec

-----------------------------------------------------------------------------
(***************************************************************************)
(* The round-trip estimates.                                               *)
(***************************************************************************)

\* A weighted mean, rounded down as Go's integer division does, lies within the
\* bounds of its two arguments (updateRtt's two moving averages).
LEMMA MeanBetween ==
    ASSUME NEW a \in Nat, NEW b \in Nat, NEW lo \in Nat, NEW hi \in Nat,
           lo <= a, lo <= b, a <= hi, b <= hi
    PROVE  /\ (7 * a + b) \div 8 \in Nat
           /\ lo <= (7 * a + b) \div 8
           /\ (7 * a + b) \div 8 <= hi
           /\ (3 * a + b) \div 4 \in Nat
           /\ (3 * a + b) \div 4 <= hi
  BY SMT

\* Two samples are no further apart than the larger of them (rttVar's new term).
LEMMA DistanceBounded ==
    ASSUME NEW a \in Nat, NEW b \in Nat, NEW hi \in Nat, a <= hi, b <= hi
    PROVE  Abs(a - b) \in Nat /\ Abs(a - b) <= hi
  BY DEF Abs

\* The estimates are numbers, and after the first sample within the samples.
RttInv ==
    /\ RttTypeOK
    /\ RttWithinSamples
    /\ ~firstRttSample => minRtt <= slowest

\* NewCongestionController's estimates have it.
LEMMA RttInitially == RttInit => RttInv
  BY RttAssumption DEF RttInit, RttInv, RttTypeOK, RttWithinSamples

\* updateRtt keeps it.
LEMMA RttStep == RttInv /\ [RttNext]_rttVars => RttInv'
<1> SUFFICES ASSUME RttInv, [RttNext]_rttVars
             PROVE  RttInv'
  OBVIOUS
<1>1. CASE UNCHANGED rttVars
  BY <1>1 DEF RttInv, RttTypeOK, RttWithinSamples, rttVars
<1>2. ASSUME NEW latest \in Samples, NEW ackDelay \in AckDelays, updateRtt(latest, ackDelay)
      PROVE  RttInv'
  <2>1. latest \in Nat /\ ackDelay \in Nat /\ MaxAckDelay \in Nat
    BY RttAssumption
  <2>2. CASE firstRttSample
    <3>1. /\ minRtt' = latest /\ latestRtt' = latest /\ smoothedRtt' = latest
          /\ rttVar' = latest \div 2
          /\ firstRttSample' = FALSE
      BY <1>2, <2>2 DEF updateRtt
    <3>2. slowest' \in Nat /\ latest <= slowest'
      BY <1>2, <2>1 DEF updateRtt, RttInv, RttTypeOK, Most
    <3>3. latest \div 2 \in Nat /\ latest \div 2 <= latest
      BY <2>1, SMT
    <3>4. rttVar' \in Nat /\ rttVar' <= slowest'
      <4>1. \A h \in Nat : h <= latest => h <= slowest'
        BY <2>1, <3>2
      <4> QED BY <3>1, <3>3, <4>1
    <3>5. firstRttSample' = FALSE
      BY <3>1
    <3>6. /\ minRtt' \in Nat /\ latestRtt' \in Nat /\ smoothedRtt' \in Nat
          /\ minRtt' <= latestRtt' /\ latestRtt' <= slowest' /\ minRtt' <= slowest'
          /\ minRtt' <= smoothedRtt' /\ smoothedRtt' <= slowest'
      BY <2>1, <3>1, <3>2
    <3> QED BY <3>2, <3>4, <3>5, <3>6, Zenon DEF RttInv, RttTypeOK, RttWithinSamples
  <2>3. CASE ~firstRttSample
    <3>1. /\ minRtt' \in Nat /\ minRtt' <= minRtt /\ minRtt' <= latest
          /\ slowest' \in Nat /\ slowest <= slowest' /\ latest <= slowest'
          /\ firstRttSample' = FALSE
      BY <1>2, <2>1, <2>3 DEF updateRtt, RttInv, RttTypeOK, Most, Least
    <3>2. latestRtt' \in Nat /\ minRtt' <= latestRtt' /\ latestRtt' <= slowest'
      <4>1. latestRtt' = Adjusted(latest, minRtt', Least(ackDelay, MaxAckDelay))
        BY <1>2, <2>3 DEF updateRtt
      <4>2. Least(ackDelay, MaxAckDelay) \in Nat
        BY <2>1 DEF Least
      <4> QED BY <2>1, <3>1, <4>1, <4>2 DEF Adjusted
    <3>3. /\ smoothedRtt \in Nat /\ rttVar \in Nat
          /\ minRtt' <= smoothedRtt /\ smoothedRtt <= slowest'
          /\ rttVar <= slowest'
      BY <2>3, <3>1 DEF RttInv, RttTypeOK, RttWithinSamples
    <3>4. smoothedRtt' \in Nat /\ minRtt' <= smoothedRtt' /\ smoothedRtt' <= slowest'
      <4>1. smoothedRtt' = (7 * smoothedRtt + latestRtt') \div 8
        BY <1>2, <2>3 DEF updateRtt
      <4> QED BY <3>1, <3>2, <3>3, <4>1, MeanBetween, Zenon
    <3>5. Abs(smoothedRtt - latestRtt') \in Nat /\ Abs(smoothedRtt - latestRtt') <= slowest'
      BY <3>1, <3>2, <3>3, DistanceBounded, Zenon
    <3>6. rttVar' \in Nat /\ rttVar' <= slowest'
      <4>1. rttVar' = (3 * rttVar + Abs(smoothedRtt - latestRtt')) \div 4
        BY <1>2, <2>3 DEF updateRtt
      <4> QED BY <3>1, <3>3, <3>5, <4>1, MeanBetween
    <3>7. minRtt' <= slowest'
      BY <2>1, <3>1
    <3>8. firstRttSample' = FALSE
      BY <3>1
    <3>9. minRtt' \in Nat /\ slowest' \in Nat
      BY <3>1
    <3> QED BY <3>2, <3>4, <3>6, <3>7, <3>8, <3>9, Zenon DEF RttInv, RttTypeOK, RttWithinSamples
  <2> QED BY <2>2, <2>3
<1> QED BY <1>1, <1>2 DEF RttNext

\* The estimates stay within the samples (updateRtt), and the probe timeout
\* leaves time for the fastest answer seen, delayed as long as it may be (pto).
THEOREM EstimatesSound == RttSpec => [](RttWithinSamples /\ PtoCoversAck)
<1>1. RttInv => RttWithinSamples /\ PtoCoversAck
  BY RttAssumption DEF RttInv, RttTypeOK, RttWithinSamples, PtoCoversAck, pto, Most
<1> QED BY <1>1, RttInitially, RttStep, PTL DEF RttSpec

-----------------------------------------------------------------------------
(***************************************************************************)
(* The pacer.                                                              *)
(***************************************************************************)

\* maxBurst at a rate.
Burst(r) == Max({BurstPackets * DatagramSize, r * MinPacingDelay})

\* The budget as a function of what the last send left, the rate and the time.
BudgetOf(b, r, i) == IF i = Never THEN Burst(r) ELSE Min({b + r * i, Burst(r)})

\* They are what the pacer computes in a state.
LEMMA BudgetIs == budget = BudgetOf(budgetAtLastSend, rate, idle) /\ maxBurst = Burst(rate)
  BY DEF budget, BudgetOf, maxBurst, Burst

\* A burst holds a datagram, and a budget no more than a burst.
LEMMA BudgetBounds ==
    ASSUME NEW b \in Int, NEW r \in Nat, NEW i \in Nat \cup {Never}
    PROVE  /\ Burst(r) \in Int /\ Burst(r) >= DatagramSize
           /\ BudgetOf(b, r, i) \in Int /\ BudgetOf(b, r, i) <= Burst(r)
           /\ i = Never => BudgetOf(b, r, i) = Burst(r)
           /\ i # Never => /\ b + r * i \in Int
                           /\ BudgetOf(b, r, i) = IF b + r * i <= Burst(r) THEN b + r * i ELSE Burst(r)
<1>1. PICK full \in Nat : full = BurstPackets * DatagramSize /\ full >= DatagramSize
  <2>1. DatagramSize * 1 <= DatagramSize * BurstPackets /\ DatagramSize * BurstPackets \in Int
    BY PacingAssumption, TimesMono
  <2>2. DatagramSize * BurstPackets = BurstPackets * DatagramSize /\ DatagramSize * 1 = DatagramSize
    BY PacingAssumption
  <2> QED BY <2>1, <2>2, PacingAssumption
<1>2. PICK least \in Int : least = r * MinPacingDelay
  BY PacingAssumption
<1>3. Burst(r) = IF full >= least THEN full ELSE least
  BY <1>1, <1>2, OfTwo DEF Burst
<1>4. Burst(r) \in Int /\ Burst(r) >= DatagramSize
  BY <1>1, <1>2, <1>3, PacingAssumption
<1>5. CASE i = Never
  BY <1>4, <1>5 DEF BudgetOf
<1>6. CASE i # Never
  <2>1. PICK x \in Int : x = b + r * i
    BY <1>6
  <2>2. BudgetOf(b, r, i) = Min({x, Burst(r)})
    BY <2>1, <1>6 DEF BudgetOf
  <2>3. Min({x, Burst(r)}) = IF x <= Burst(r) THEN x ELSE Burst(r)
    BY <1>4, OfTwo, Zenon
  <2> QED BY <2>1, <2>2, <2>3, <1>4, <1>6
<1> QED BY <1>5, <1>6

\* Neither time nor a higher rate takes anything from the budget.
LEMMA BudgetGrows ==
    ASSUME NEW b \in Int, NEW r \in Nat, NEW s \in Nat, r <= s,
           NEW i \in Nat \cup {Never}, NEW j \in Nat \cup {Never},
           i = Never <=> j = Never, i <= j
    PROVE  /\ BudgetOf(b, r, i) <= BudgetOf(b, s, j)
           /\ i # Never => b + r * i <= b + s * j
<1>1. Burst(r) <= Burst(s) /\ Burst(r) \in Int /\ Burst(s) \in Int
  <2>1. PICK x \in Int, y \in Int, z \in Int :
            x = BurstPackets * DatagramSize /\ y = r * MinPacingDelay /\ z = s * MinPacingDelay
    BY PacingAssumption
  <2>2. y <= z
    <3>1. MinPacingDelay * r <= MinPacingDelay * s
      BY PacingAssumption, TimesMono
    <3>2. MinPacingDelay * r = y /\ MinPacingDelay * s = z
      BY <2>1, PacingAssumption
    <3> QED BY <3>1, <3>2
  <2>3. Burst(r) = IF x >= y THEN x ELSE y
    BY <2>1, OfTwo DEF Burst
  <2>4. Burst(s) = IF x >= z THEN x ELSE z
    BY <2>1, OfTwo DEF Burst
  <2> QED BY <2>2, <2>3, <2>4
<1>2. CASE i = Never
  BY <1>1, <1>2 DEF BudgetOf
<1>3. CASE i # Never
  <2>1. i \in Nat /\ j \in Nat
    BY <1>3
  <2>2. PICK x \in Int, y \in Int : x = b + r * i /\ y = b + s * j
    BY <2>1
  <2>3. x <= y
    <3>1. r * i <= r * j /\ r * i \in Int /\ r * j \in Int
      BY <2>1, TimesMono
    <3>2. j * r <= j * s /\ j * r = r * j /\ j * s = s * j /\ s * j \in Int
      BY <2>1, TimesMono
    <3>3. r * i <= s * j
      BY <3>1, <3>2
    <3> QED BY <2>2, <3>1, <3>2, <3>3
  <2>4. BudgetOf(b, r, i) = (IF x <= Burst(r) THEN x ELSE Burst(r))
        /\ BudgetOf(b, s, j) = (IF y <= Burst(s) THEN y ELSE Burst(s))
    BY <1>3, <2>2, BudgetBounds, Zenon
  <2> QED BY <1>1, <2>2, <2>3, <2>4
<1> QED BY <1>2, <1>3

\* Bytes are drawn only at a rate, and a timer that nothing has hindered runs
\* until there is budget for a datagram.
Covered ==
    idle = Never \/ budgetAtLastSend + rate * (idle + lostTimer) >= DatagramSize

\* With it, what the pacer's state is.
WaitInv ==
    /\ PacingTypeOK
    /\ rate = Unpaced => idle = Never
    /\ lostTimer \in Nat \cup {NoTimer}
    /\ unhindered => lostTimer \in Nat /\ rate # Unpaced /\ Covered

\* What the pacer's operators are in a state.
LEMMA PacerFacts ==
    ASSUME WaitInv
    PROVE  /\ rate \in Nat /\ budgetAtLastSend \in Int /\ idle \in Nat \cup {Never}
           /\ budget \in Int /\ maxBurst \in Int
           /\ DatagramSize <= maxBurst /\ budget <= maxBurst
           /\ idle = Never => budget = maxBurst
           /\ idle # Never => /\ budgetAtLastSend + rate * idle \in Int
                              /\ budget = IF budgetAtLastSend + rate * idle <= maxBurst
                                          THEN budgetAtLastSend + rate * idle ELSE maxBurst
           /\ TimeUntilSend = 0 <=> rate = Unpaced \/ budget >= DatagramSize
           /\ TimeUntilSend # 0 =>
                /\ TimeUntilSend \in Nat /\ rate # Unpaced /\ idle # Never
                /\ budgetAtLastSend + rate * (idle + TimeUntilSend) >= DatagramSize
<1>1. /\ rate \in Nat /\ (rate # Unpaced => rate \in Nat \ {0})
      /\ budgetAtLastSend \in Int /\ idle \in Nat \cup {Never}
  BY PacingAssumption DEF WaitInv, PacingTypeOK, Unpaced
<1>2. /\ budget \in Int /\ maxBurst \in Int
      /\ DatagramSize <= maxBurst /\ budget <= maxBurst
      /\ idle = Never => budget = maxBurst
      /\ idle # Never => /\ budgetAtLastSend + rate * idle \in Int
                         /\ budget = IF budgetAtLastSend + rate * idle <= maxBurst
                                     THEN budgetAtLastSend + rate * idle ELSE maxBurst
  BY <1>1, BudgetIs, BudgetBounds, PacingAssumption, Zenon
<1>3. CASE rate = Unpaced \/ budget >= DatagramSize
  <2>1. TimeUntilSend = 0
    BY <1>2, <1>3, PacingAssumption DEF TimeUntilSend
  <2> QED BY <2>1, <1>1, <1>2, <1>3, Zenon
<1>4. CASE ~(rate = Unpaced \/ budget >= DatagramSize)
  <2>1. PICK short \in Nat \ {0} : short = DatagramSize - budget
    BY <1>2, <1>4, PacingAssumption
  <2>2. PICK up \in Nat : up = (short + rate - 1) \div rate /\ rate * up >= short
    BY <1>1, <1>4, RoundedUp
  <2>3. TimeUntilSend = Max({up, MinPacingDelay})
    BY <2>1, <2>2, <1>4, PacingAssumption DEF TimeUntilSend
  <2>4. TimeUntilSend \in Nat \ {0} /\ up <= TimeUntilSend
    BY <2>2, <2>3, OfTwo, PacingAssumption
  <2>5. idle # Never /\ budget = budgetAtLastSend + rate * idle
    BY <1>2, <1>4, PacingAssumption
  <2>6. budgetAtLastSend + rate * (idle + TimeUntilSend) >= DatagramSize
    <3>1. idle \in Nat
      BY <2>5, <1>1
    <3>2. PICK t \in Int, u \in Int, x \in Int :
            /\ t = rate * TimeUntilSend /\ u = rate * up /\ x = rate * idle
            /\ u <= t /\ rate * (idle + TimeUntilSend) = x + t
      BY <3>1, <2>2, <2>4, <1>1, TimesMono, TimesSum
    <3> QED BY <3>2, <2>1, <2>2, <2>5, <1>1, <1>2, PacingAssumption
  <2> QED BY <2>4, <2>5, <2>6, <1>1, <1>2, <1>4
<1> QED BY <1>3, <1>4

\* A pacer that has sent nothing has it.
LEMMA WaitInitially == PacingInit => WaitInv
<1> SUFFICES ASSUME PacingInit PROVE WaitInv
  OBVIOUS
<1>1. /\ rate = Unpaced /\ budgetAtLastSend = 0 /\ idle = Never /\ lostTimer = NoTimer
      /\ unhindered = FALSE /\ repriced = FALSE /\ probed = 0
  BY DEF PacingInit
<1>2. cleared \in [PacedWriters -> 0..BatchMax] /\ probed \in 0..MaxPTOs /\ NoTimer \in Int
  BY PacingAssumption DEF PacingInit, NoTimer
<1>3. unhindered \in BOOLEAN /\ repriced \in BOOLEAN
  BY <1>1, Zenon
<1>4. rate \in Rates \cup {Unpaced} /\ budgetAtLastSend \in Int /\ idle \in Nat \cup {Never}
      /\ lostTimer \in Int
  BY <1>1, <1>2
<1>5. PacingTypeOK
  BY <1>2, <1>3, <1>4, Zenon DEF PacingTypeOK
<1> QED BY <1>1, <1>5, Zenon DEF WaitInv

\* What a draw leaves.
LEMMA DrawFacts ==
    ASSUME WaitInv, Draw, UNCHANGED rate
    PROVE  /\ budgetAtLastSend' \in Int /\ idle' \in Nat \cup {Never}
           /\ rate' = Unpaced => idle' = Never
           /\ rate # Unpaced => budget' = budget - DatagramSize /\ idle' = 0 /\ idle' # Never
                                /\ budgetAtLastSend' = budget - DatagramSize
<1>1. CASE rate = Unpaced
  BY <1>1 DEF Draw, WaitInv, PacingTypeOK
<1>2. CASE rate # Unpaced
  <2>1. budgetAtLastSend' = budget - DatagramSize /\ idle' = 0
    BY <1>2 DEF Draw
  <2>2. PICK b \in Int : b = budget - DatagramSize /\ b <= maxBurst
    BY PacerFacts, PacingAssumption
  <2>3. 0 # Never
    BY DEF Never
  <2>4. BudgetOf(b, rate, 0) = IF b + rate * 0 <= Burst(rate) THEN b + rate * 0 ELSE Burst(rate)
    BY <2>2, <2>3, PacerFacts, BudgetBounds, Zenon
  <2>5. b + rate * 0 = b
    BY <2>2, PacerFacts
  <2>6. BudgetOf(b, rate, 0) = b
    BY <2>2, <2>4, <2>5, BudgetIs
  <2>7. budget' = BudgetOf(b, rate, 0)
    BY <2>1, <2>2 DEF budget, BudgetOf, maxBurst, Burst
  <2> QED BY <2>1, <2>2, <2>3, <2>6, <2>7, <1>2
<1> QED BY <1>1, <1>2

\* Every step keeps it.
LEMMA WaitStep == WaitInv /\ [PacingNext]_pacingVars => WaitInv'
<1> SUFFICES ASSUME WaitInv, [PacingNext]_pacingVars
             PROVE  WaitInv'
  OBVIOUS
<1>0. /\ PacingTypeOK /\ rate \in Nat /\ budgetAtLastSend \in Int /\ idle \in Nat \cup {Never}
      /\ rate = Unpaced => idle = Never
      /\ lostTimer \in Nat \cup {NoTimer}
      /\ unhindered => lostTimer \in Nat /\ rate # Unpaced /\ Covered
  BY PacerFacts DEF WaitInv
<1>1. CASE UNCHANGED pacingVars
  BY <1>1 DEF pacingVars, WaitInv, PacingTypeOK, Covered
<1>2. ASSUME NEW r \in Rates, UpdateRate(r)
      PROVE  WaitInv'
  <2>1. /\ rate' = r /\ unhindered' = (unhindered /\ r >= rate)
        /\ UNCHANGED <<budgetAtLastSend, idle, cleared, lostTimer, probed>>
        /\ repriced' \in BOOLEAN
    BY <1>2 DEF UpdateRate
  <2>2. r \in Nat \ {0} /\ r # Unpaced
    BY PacingAssumption DEF Unpaced
  <2>3. PacingTypeOK'
    BY <2>1, <1>0 DEF PacingTypeOK
  <2>4. unhindered' => Covered'
    <3> SUFFICES ASSUME unhindered, r >= rate, idle # Never
                 PROVE  budgetAtLastSend + r * (idle + lostTimer) >= DatagramSize
      BY <2>1, Zenon DEF Covered
    <3>1. PICK n \in Nat : n = idle + lostTimer
      BY <1>0
    <3>2. PICK x \in Int, y \in Int : x = rate * n /\ y = r * n /\ x <= y
      <4>1. n * rate <= n * r
        BY <3>1, <2>2, <1>0, TimesMono
      <4> QED BY <4>1, <3>1, <2>2, <1>0
    <3>3. budgetAtLastSend + x >= DatagramSize
      BY <3>1, <3>2, <1>0 DEF Covered
    <3> QED BY <3>1, <3>2, <3>3, <1>0, PacingAssumption
  <2> QED BY <2>1, <2>2, <2>3, <2>4, <1>0, Zenon DEF WaitInv
<1>3. ASSUME NEW w \in PacedWriters, NEW n \in 1..BatchMax, WriterCleared(w, n)
      PROVE  WaitInv'
  <2>1. /\ cleared' = [cleared EXCEPT ![w] = n]
        /\ UNCHANGED <<rate, budgetAtLastSend, idle, lostTimer, unhindered, repriced, probed>>
    BY <1>3 DEF WriterCleared
  <2>2. n \in 0..BatchMax
    BY PacingAssumption
  <2>3. PacingTypeOK'
    BY <2>1, <2>2, <1>0 DEF PacingTypeOK
  <2> QED BY <2>1, <2>3, <1>0 DEF WaitInv, Covered
<1>4. ASSUME NEW w \in PacedWriters, WriterDraws(w)
      PROVE  WaitInv'
  <2>1. /\ cleared[w] > 0 /\ cleared' = [cleared EXCEPT ![w] = @ - 1]
        /\ Draw /\ unhindered' = FALSE /\ UNCHANGED <<rate, lostTimer, repriced, probed>>
    BY <1>4 DEF WriterDraws
  <2>2. cleared[w] - 1 \in 0..BatchMax
    BY <2>1, <1>0, PacingAssumption DEF PacingTypeOK
  <2>3. budgetAtLastSend' \in Int /\ idle' \in Nat \cup {Never} /\ (rate' = Unpaced => idle' = Never)
    BY <2>1, DrawFacts
  <2>4. PacingTypeOK'
    BY <2>1, <2>2, <2>3, <1>0, Zenon DEF PacingTypeOK
  <2> QED BY <2>1, <2>3, <2>4, <1>0 DEF WaitInv
<1>5. CASE pacedFlushLost
  <2>1. CASE TimeUntilSend = 0
    <3>1. /\ Draw /\ lostTimer' = NoTimer /\ unhindered' = FALSE
          /\ UNCHANGED <<rate, cleared, repriced, probed>>
      BY <1>5, <2>1 DEF pacedFlushLost
    <3>2. budgetAtLastSend' \in Int /\ idle' \in Nat \cup {Never} /\ (rate' = Unpaced => idle' = Never)
      BY <3>1, DrawFacts
    <3>3. PacingTypeOK'
      <4>1. NoTimer \in Int
        BY DEF NoTimer
      <4> QED BY <4>1, <3>1, <3>2, <1>0, Zenon DEF PacingTypeOK
    <3> QED BY <3>1, <3>2, <3>3, <1>0 DEF WaitInv
  <2>2. CASE TimeUntilSend # 0
    <3>1. /\ lostTimer' = TimeUntilSend /\ unhindered' = TRUE
          /\ UNCHANGED <<rate, cleared, repriced, probed, budgetAtLastSend, idle>>
      BY <1>5, <2>2 DEF pacedFlushLost
    <3>2. /\ TimeUntilSend \in Nat /\ rate # Unpaced
          /\ budgetAtLastSend + rate * (idle + TimeUntilSend) >= DatagramSize
      BY <2>2, PacerFacts
    <3>3. PacingTypeOK'
      BY <3>1, <3>2, <1>0 DEF PacingTypeOK
    <3>4. Covered'
      BY <3>1, <3>2 DEF Covered
    <3> QED BY <3>1, <3>2, <3>3, <3>4, <1>0 DEF WaitInv
  <2> QED BY <2>1, <2>2
<1>6. CASE PtoDraws
  <2>1. /\ probed < MaxPTOs /\ probed' = probed + 1 /\ Draw /\ unhindered' = FALSE
        /\ UNCHANGED <<rate, cleared, lostTimer, repriced>>
    BY <1>6 DEF PtoDraws
  <2>2. budgetAtLastSend' \in Int /\ idle' \in Nat \cup {Never} /\ (rate' = Unpaced => idle' = Never)
    BY <2>1, DrawFacts
  <2>3. probed + 1 \in 0..MaxPTOs
    BY <2>1, <1>0, PacingAssumption DEF PacingTypeOK
  <2>4. PacingTypeOK'
    BY <2>1, <2>2, <2>3, <1>0, Zenon DEF PacingTypeOK
  <2> QED BY <2>1, <2>2, <2>4, <1>0 DEF WaitInv
<1>7. CASE Tick
  <2>1. /\ lostTimer # 0 /\ idle' = IF Rested THEN idle ELSE idle + 1
        /\ lostTimer' = IF lostTimer = NoTimer THEN NoTimer ELSE lostTimer - 1
        /\ UNCHANGED <<rate, budgetAtLastSend, cleared, unhindered, repriced, probed>>
    BY <1>7 DEF Tick
  <2>2. idle = Never => Rested
    BY DEF Rested
  <2>3. idle' \in Nat \cup {Never} /\ (idle' = Never <=> idle = Never)
    BY <2>1, <2>2, <1>0 DEF Never
  <2>4. lostTimer' \in Nat \cup {NoTimer} /\ (lostTimer \in Nat => lostTimer' = lostTimer - 1 /\ lostTimer' \in Nat)
    BY <2>1, <1>0 DEF NoTimer
  <2>5. PacingTypeOK'
    BY <2>1, <2>3, <2>4, <1>0 DEF PacingTypeOK, NoTimer
  <2>6. unhindered' => Covered'
    <3> SUFFICES ASSUME unhindered, idle # Never
                 PROVE  budgetAtLastSend + rate * (idle' + lostTimer') >= DatagramSize
      BY <2>1, <2>3 DEF Covered
    <3>1. /\ lostTimer \in Nat /\ rate # Unpaced /\ idle \in Nat
          /\ budgetAtLastSend + rate * (idle + lostTimer) >= DatagramSize
      BY <1>0 DEF Covered
    <3>2. CASE ~Rested
      <4>1. idle' + lostTimer' = idle + lostTimer
        BY <2>1, <2>4, <3>1, <3>2
      <4> QED BY <4>1, <3>1
    <3>3. CASE Rested
      <4>1. rate \in Rates /\ budgetAtLastSend + rate * idle >= Burst(rate)
        BY <3>1, <3>3, <1>0 DEF Rested, Burst, PacingTypeOK
      <4>2. Burst(rate) \in Int /\ Burst(rate) >= DatagramSize
        BY <1>0, BudgetBounds
      <4>3. PICK t \in Nat : t = lostTimer' /\ idle' = idle
        BY <2>1, <2>4, <3>1, <3>3
      <4>4. PICK n \in Nat : n = idle + t /\ idle <= n
        <5>1. idle \in Nat
          BY <3>1, Zenon
        <5> QED BY <5>1
      <4>5. rate * idle \in Int /\ rate * n \in Int /\ rate * idle <= rate * n
        BY <4>4, <3>1, <1>0, TimesMono
      <4>6. PICK x \in Int, y \in Int : x = rate * idle /\ y = rate * n /\ x <= y
        BY <4>5
      <4>7. budgetAtLastSend + y >= DatagramSize
        BY <4>1, <4>2, <4>6, <1>0, PacingAssumption
      <4> QED BY <4>3, <4>4, <4>6, <4>7
    <3> QED BY <3>2, <3>3
  <2> QED BY <2>1, <2>3, <2>4, <2>5, <2>6, <1>0 DEF WaitInv
<1> QED BY <1>1, <1>2, <1>3, <1>4, <1>5, <1>6, <1>7 DEF PacingNext

\* The wait that flushLost is told is enough (TimeUntilSend), for every rate,
\* burst and datagram size.
THEOREM WaitIsEnough == PacingSpec => []WaitSuffices
<1>1. WaitInv => WaitSuffices
  <2> SUFFICES ASSUME WaitInv, lostTimer = 0, unhindered
               PROVE  TimeUntilSend = 0
    BY DEF WaitSuffices
  <2>1. CASE idle = Never
    BY <2>1, PacerFacts, PacingAssumption
  <2>2. CASE idle # Never
    <3>1. idle \in Nat /\ budgetAtLastSend + rate * (idle + 0) >= DatagramSize
      BY <2>2, PacerFacts DEF WaitInv, Covered
    <3>2. idle + 0 = idle
      BY <3>1
    <3> QED BY <3>1, <3>2, <2>2, PacerFacts, PacingAssumption
  <2> QED BY <2>1, <2>2
<1> QED BY <1>1, WaitInitially, WaitStep, PTL DEF PacingSpec

\* What the writers that were cleared may still draw.
Owed(f) == DatagramSize * SumFunction(f)

\* The debt that all of them and n probes may leave.
Floor(n) == DatagramSize * (-(Cardinality(PacedWriters) * BatchMax) - n)

\* Writers draw no more than a batch each.
LEMMA OwedBounded ==
    ASSUME NEW f \in [PacedWriters -> 0..BatchMax], NEW n \in Nat
    PROVE  /\ Owed(f) \in Nat /\ Floor(n) \in Int /\ Floor(n) + Owed(f) <= 0
           /\ Floor(n + 1) = Floor(n) - DatagramSize
           /\ (\A w \in PacedWriters : f[w] = 0) => Owed(f) = 0
<1>1. PICK k \in Nat : k = Cardinality(PacedWriters) * BatchMax
  BY PacingAssumption, FS_CardinalityType
<1>2. \A w \in PacedWriters : f[w] \in Nat /\ f[w] \in Int /\ f[w] <= BatchMax
  BY PacingAssumption
<1>3. f \in [PacedWriters -> Int]
  BY <1>2
<1>4. PICK s \in Nat : s = SumFunction(f)
  <2>1. SumFunctionOnSet(f, PacedWriters) \in Nat
    BY <1>2, PacingAssumption, SumNat
  <2>2. SumFunction(f) = SumFunctionOnSet(f, PacedWriters)
    <3>1. DOMAIN f = PacedWriters
      OBVIOUS
    <3> QED BY <3>1, Zenon DEF SumFunction
  <2> QED BY <2>1, <2>2
<1>5. s <= k
  BY <1>1, <1>2, <1>3, <1>4, PacingAssumption, SumAtMost
<1>6. (\A w \in PacedWriters : f[w] = 0) => s = 0
  <2> SUFFICES ASSUME \A w \in PacedWriters : f[w] = 0
               PROVE  s = 0
    OBVIOUS
  <2>1. Cardinality(PacedWriters) \in Nat /\ SumFunction(f) <= Cardinality(PacedWriters) * 0
    BY <1>3, PacingAssumption, SumAtMost
  <2> QED BY <2>1, <1>4
<1>7. PICK d \in Nat \ {0} : d = DatagramSize
  BY PacingAssumption
<1>8. Owed(f) = d * s /\ Floor(n) = d * (-k - n) /\ Floor(n + 1) = d * (-k - (n + 1))
  BY <1>1, <1>4, <1>7 DEF Owed, Floor
<1>9. d * s \in Nat /\ d * (-k - n) \in Int /\ d * (-k - n) <= d * (-s)
  BY <1>5, SMT
<1>10. d * (-s) = -(d * s) /\ d * (-k - (n + 1)) = d * (-k - n) - d /\ d * 0 = 0
  BY SMT
<1> QED BY <1>6, <1>7, <1>8, <1>9, <1>10

\* A writer that draws owes a datagram less.
LEMMA OwedLess ==
    ASSUME NEW f \in [PacedWriters -> 0..BatchMax], NEW w \in PacedWriters, f[w] > 0
    PROVE  /\ Owed([f EXCEPT ![w] = f[w] - 1]) = Owed(f) - DatagramSize
           /\ Owed(f) >= DatagramSize
<1>1. f \in [PacedWriters -> Int] /\ f[w] \in 0..BatchMax /\ f[w] - 1 \in 0..BatchMax
      /\ [f EXCEPT ![w] = f[w] - 1] \in [PacedWriters -> 0..BatchMax]
  BY PacingAssumption
<1> PICK v \in Int : v = f[w] - 1
  BY <1>1
<1> PICK g : g = [f EXCEPT ![w] = v]
  BY Zenon
<1>2. /\ SumFunction(f) \in Int
      /\ SumFunction([f EXCEPT ![w] = v]) = SumFunction(f) + (v - f[w])
  <2>1. IsFiniteSet(PacedWriters) /\ f \in [PacedWriters -> Int]
    BY <1>1, PacingAssumption
  <2> QED BY <2>1, SumUpdate, Zenon
<1>3. PICK s \in Int, d \in Nat : s = SumFunction(f) /\ d = DatagramSize
  BY <1>2, PacingAssumption
<1>4. SumFunction(g) = s - 1
  BY <1>1, <1>2, <1>3
<1>5. Owed(f) = d * s /\ Owed(g) = d * (s - 1)
  BY <1>3, <1>4 DEF Owed
<1>6. d * (s - 1) = d * s - d
  BY SMT
<1>7. Owed(g) \in Nat
  BY <1>1, <1>3, OwedBounded, Zenon
<1> QED BY <1>3, <1>5, <1>6, <1>7, SMT

\* Until the rate is set anew, the debt now and the debt the writers may yet
\* run up are within the bound.
DebtInv ==
    rate # Unpaced /\ ~repriced =>
        /\ budget - Owed(cleared) >= Floor(probed)
        /\ idle # Never => budgetAtLastSend >= Floor(probed)

\* A draw by someone who owes it, or who saw budget for it, or a probe.
LEMMA DrawDebt ==
    ASSUME WaitInv, DebtInv, Draw, UNCHANGED <<rate, repriced>>,
           cleared' \in [PacedWriters -> 0..BatchMax], probed' \in Nat,
           \/ Owed(cleared') = Owed(cleared) - DatagramSize /\ probed' = probed
              /\ Owed(cleared) >= DatagramSize
           \/ cleared' = cleared /\ probed' = probed /\ budget >= DatagramSize
           \/ cleared' = cleared /\ probed' = probed + 1
    PROVE  DebtInv'
<1> SUFFICES ASSUME rate # Unpaced, ~repriced
             PROVE  /\ budget' - Owed(cleared') >= Floor(probed')
                    /\ budgetAtLastSend' >= Floor(probed')
  BY DEF DebtInv
<1>1. /\ budget' = budget - DatagramSize /\ budgetAtLastSend' = budget - DatagramSize
      /\ budget \in Int /\ DatagramSize \in Nat
  BY DrawFacts, PacerFacts, PacingAssumption
<1>2. /\ budget - Owed(cleared) >= Floor(probed) /\ cleared \in [PacedWriters -> 0..BatchMax]
      /\ probed \in Nat
  BY PacingAssumption DEF DebtInv, WaitInv, PacingTypeOK
<1>3. PICK o \in Nat, b \in Int : o = Owed(cleared) /\ b = Floor(probed) /\ b + o <= 0
                                  /\ Floor(probed + 1) = b - DatagramSize
  BY <1>2, OwedBounded
<1>4. CASE /\ Owed(cleared') = Owed(cleared) - DatagramSize /\ probed' = probed
           /\ Owed(cleared) >= DatagramSize
  BY <1>1, <1>2, <1>3, <1>4
<1>5. CASE cleared' = cleared /\ probed' = probed /\ budget >= DatagramSize
  BY <1>1, <1>2, <1>3, <1>5
<1>6. CASE cleared' = cleared /\ probed' = probed + 1
  BY <1>1, <1>2, <1>3, <1>6
<1> QED BY <1>4, <1>5, <1>6

\* No step leaves more debt than that.
LEMMA DebtStep ==
    ASSUME WaitInv, DebtInv, [PacingNext]_pacingVars
    PROVE  DebtInv'
<1>0. /\ cleared \in [PacedWriters -> 0..BatchMax] /\ probed \in Nat
      /\ rate \in Nat /\ budgetAtLastSend \in Int /\ idle \in Nat \cup {Never}
      /\ DatagramSize \in Nat \ {0}
  BY PacerFacts, PacingAssumption DEF WaitInv, PacingTypeOK
<1>00. PICK o \in Nat, b \in Int : o = Owed(cleared) /\ b = Floor(probed) /\ b + o <= 0
                                  /\ ((\A w \in PacedWriters : cleared[w] = 0) => o = 0)
  BY <1>0, OwedBounded
<1>1. CASE UNCHANGED pacingVars
  BY <1>1, Zenon DEF pacingVars, DebtInv, budget, maxBurst
<1>2. ASSUME NEW r \in Rates, UpdateRate(r)
      PROVE  DebtInv'
  <2>1. /\ rate' = r /\ UNCHANGED <<budgetAtLastSend, idle, cleared, probed>>
        /\ ~repriced' => ~repriced /\ (r >= rate \/ \A w \in PacedWriters : cleared[w] = 0)
    <3>1. /\ rate' = r /\ UNCHANGED <<budgetAtLastSend, idle, cleared, probed>>
          /\ repriced' = (repriced \/ (r < rate /\ \E w \in PacedWriters : cleared[w] > 0))
      BY <1>2 DEF UpdateRate
    <3>2. \A w \in PacedWriters : ~(cleared[w] > 0) => cleared[w] = 0
      BY <1>0, PacingAssumption
    <3>3. r \in Nat
      BY PacingAssumption
    <3>4. ~(r < rate) => r >= rate
      BY <3>3, <1>0
    <3> QED BY <3>1, <3>2, <3>4, Zenon
  <2>2. r \in Nat \ {0}
    BY PacingAssumption
  <2>3. PICK x \in Int : x = BudgetOf(budgetAtLastSend, r, idle) /\ budget' = x
    <3>1. BudgetOf(budgetAtLastSend, r, idle) \in Int
      BY <2>2, <1>0, BudgetBounds
    <3>2. budget' = BudgetOf(budgetAtLastSend, r, idle)
      BY <2>1, Zenon DEF budget, BudgetOf, maxBurst, Burst
    <3> QED BY <3>1, <3>2
  <2> SUFFICES ASSUME ~repriced'
               PROVE  /\ x - o >= b
                      /\ idle # Never => budgetAtLastSend >= b
    BY <2>1, <2>3, <1>00 DEF DebtInv
  <2>4. CASE idle = Never
    <3>1. x = Burst(r) /\ Burst(r) \in Int /\ Burst(r) >= DatagramSize
      BY <2>2, <2>3, <2>4, <1>0, BudgetBounds
    <3> QED BY <3>1, <2>4, <1>0, <1>00
  <2>5. CASE idle # Never
    <3>1. rate # Unpaced /\ idle \in Nat
      BY <2>5, <1>0 DEF WaitInv
    <3>2. budget - o >= b /\ budgetAtLastSend >= b /\ budget \in Int
      BY <3>1, <2>1, <2>5, <1>00, PacerFacts DEF DebtInv
    <3>3. CASE r >= rate
      <4>1. BudgetOf(budgetAtLastSend, rate, idle) <= x
        <5>1. rate <= r /\ idle <= idle
          BY <3>1, <3>3, <2>2, <1>0
        <5> QED BY <5>1, <2>2, <2>3, <1>0, BudgetGrows
      <4>2. budget <= x
        BY <4>1, BudgetIs
      <4> QED BY <4>2, <3>2, <1>00
    <3>4. CASE \A w \in PacedWriters : cleared[w] = 0
      <4>1. o = 0
        BY <3>4, <1>00
      <4>2. PICK y \in Nat : y = r * idle
        BY <3>1, <2>2
      <4>3. PICK z \in Int : z = Burst(r) /\ z >= DatagramSize
                             /\ x = IF budgetAtLastSend + y <= z THEN budgetAtLastSend + y ELSE z
        <5>1. budgetAtLastSend \in Int /\ r \in Nat /\ idle \in Nat \cup {Never}
          BY <2>2, <1>0
        <5>2. /\ Burst(r) \in Int /\ Burst(r) >= DatagramSize
              /\ x = IF budgetAtLastSend + r * idle <= Burst(r) THEN budgetAtLastSend + r * idle ELSE Burst(r)
          BY <5>1, <2>3, <2>5, BudgetBounds, Zenon
        <5> QED BY <5>2, <4>2, Zenon
      <4> QED BY <4>1, <4>3, <3>2, <1>0, <1>00
    <3> QED BY <3>3, <3>4, <2>1
  <2> QED BY <2>4, <2>5
<1>3. ASSUME NEW w \in PacedWriters, NEW n \in 1..BatchMax, WriterCleared(w, n)
      PROVE  DebtInv'
  <2>1. /\ TimeUntilSend = 0 /\ cleared' = [cleared EXCEPT ![w] = n]
        /\ UNCHANGED <<rate, budgetAtLastSend, idle, repriced, probed>>
    BY <1>3 DEF WriterCleared
  <2>2. n \in 0..BatchMax
    BY PacingAssumption
  <2>3. cleared' \in [PacedWriters -> 0..BatchMax]
    BY <2>1, <2>2, <1>0
  <2>4. Owed(cleared') \in Nat /\ b + Owed(cleared') <= 0
    <3>1. PICK f \in [PacedWriters -> 0..BatchMax] : f = cleared'
      BY <2>3
    <3> QED BY <3>1, <1>0, <1>00, OwedBounded
  <2>5. budget' = budget /\ probed' = probed
    BY <2>1, Zenon DEF budget, maxBurst
  <2> SUFFICES ASSUME rate # Unpaced, ~repriced
               PROVE  budget - Owed(cleared') >= b
    BY <2>1, <2>5, <1>00 DEF DebtInv
  <2>6. budget \in Int /\ budget >= DatagramSize
    BY <2>1, PacerFacts
  <2> QED BY <2>4, <2>6, <1>0
<1>4. ASSUME NEW w \in PacedWriters, WriterDraws(w)
      PROVE  DebtInv'
  <2>1. /\ cleared[w] > 0 /\ cleared' = [cleared EXCEPT ![w] = cleared[w] - 1]
        /\ Draw /\ UNCHANGED <<rate, repriced, probed>>
    BY <1>4 DEF WriterDraws
  <2>2. cleared[w] - 1 \in 0..BatchMax
    BY <2>1, <1>0, PacingAssumption
  <2>3. cleared' \in [PacedWriters -> 0..BatchMax]
    BY <2>1, <2>2, <1>0
  <2>4. Owed(cleared') = Owed(cleared) - DatagramSize /\ Owed(cleared) >= DatagramSize
    BY <2>1, <1>0, OwedLess, Zenon
  <2> QED BY <2>1, <2>3, <2>4, <1>0, DrawDebt
<1>5. CASE pacedFlushLost
  <2>1. CASE TimeUntilSend = 0
    <3>1. Draw /\ UNCHANGED <<rate, cleared, repriced, probed>>
      BY <1>5, <2>1 DEF pacedFlushLost
    <3>2. CASE rate = Unpaced
      BY <3>1, <3>2 DEF DebtInv
    <3>3. CASE rate # Unpaced
      <4>1. budget >= DatagramSize
        BY <2>1, <3>3, PacerFacts
      <4> QED BY <4>1, <3>1, <1>0, DrawDebt
    <3> QED BY <3>2, <3>3
  <2>2. CASE TimeUntilSend # 0
    <3>1. UNCHANGED <<rate, cleared, repriced, probed, budgetAtLastSend, idle>>
      BY <1>5, <2>2 DEF pacedFlushLost
    <3> QED BY <3>1, Zenon DEF DebtInv, budget, maxBurst
  <2> QED BY <2>1, <2>2
<1>6. CASE PtoDraws
  <2>1. probed' = probed + 1 /\ Draw /\ UNCHANGED <<rate, cleared, repriced>>
    BY <1>6 DEF PtoDraws
  <2>2. probed' \in Nat
    BY <2>1, <1>0
  <2> QED BY <2>1, <2>2, <1>0, DrawDebt
<1>7. CASE Tick
  <2>1. /\ idle' = IF Rested THEN idle ELSE idle + 1
        /\ UNCHANGED <<rate, budgetAtLastSend, cleared, repriced, probed>>
    BY <1>7 DEF Tick
  <2>2. idle = Never => Rested
    BY DEF Rested
  <2>3. PICK j \in Nat \cup {Never} : j = idle' /\ (j = Never <=> idle = Never) /\ idle <= j
    <3>1. CASE Rested
      <4>1. idle <= idle
        BY <1>0 DEF Never
      <4> QED BY <4>1, <3>1, <2>1, <1>0
    <3>2. CASE ~Rested
      BY <3>2, <2>1, <2>2, <1>0 DEF Never
    <3> QED BY <3>1, <3>2
  <2>4. budget <= budget' /\ budget \in Int /\ budget' \in Int
    <3>1. BudgetOf(budgetAtLastSend, rate, idle) <= BudgetOf(budgetAtLastSend, rate, j)
      <4>1. rate <= rate
        BY <1>0
      <4> QED BY <4>1, <2>3, <1>0, BudgetGrows
    <3>2. budget' = BudgetOf(budgetAtLastSend, rate, j)
      BY <2>1, <2>3, Zenon DEF budget, BudgetOf, maxBurst, Burst
    <3>3. BudgetOf(budgetAtLastSend, rate, j) \in Int
      BY <2>3, <1>0, BudgetBounds
    <3> QED BY <3>1, <3>2, <3>3, BudgetIs, PacerFacts
  <2> QED BY <2>1, <2>3, <2>4, <1>00 DEF DebtInv
<1> QED BY <1>1, <1>2, <1>3, <1>4, <1>5, <1>6, <1>7 DEF PacingNext

\* Senders that draw on the same budget leave a bounded debt (awaitSendCredit,
\* OnPacketSent), for any number of writers, batch, rates and probes.
THEOREM DebtIsBounded == PacingSpec => []DebtBounded
<1>1. PacingInit => WaitInv /\ DebtInv
  BY WaitInitially DEF PacingInit, DebtInv
<1>2. (WaitInv /\ DebtInv) /\ [PacingNext]_pacingVars => (WaitInv /\ DebtInv)'
  BY WaitStep, DebtStep
<1>3. DebtInv => DebtBounded
  BY DEF DebtInv, DebtBounded, Owed, Floor
<1> QED BY <1>1, <1>2, <1>3, PTL DEF PacingSpec

=============================================================================
