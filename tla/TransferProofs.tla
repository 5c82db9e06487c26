--------------------------- MODULE TransferProofs ---------------------------
(***************************************************************************)
(* What Transfer guarantees for every window, every set of datagram sizes  *)
(* and any number of packets: the receive buffer holds the bytes written   *)
(* in order (InOrderDelivery), the sender lets go of no byte the receiver  *)
(* does not hold (NoByteAbandoned), and the whole implements the byte      *)
(* stream of module ByteStream.                                            *)
(*                                                                         *)
(* The invariant rests on one fact about re-chunking: frames are divided   *)
(* and never joined, so of two frames that share a byte one holds the      *)
(* other, and what is outstanding is never the larger of them.  Without it *)
(* an early chunk could keep a longer frame at its offset out of recvOOO,  *)
(* or the release loop could run past the start of a chunk it still needs. *)
(***************************************************************************)
EXTENDS Transfer, ListLemmas

End(f) == f.off + Len(f.data)

\* Frames that carry, at their offset, the bytes the application wrote there.
FrameOf(w) ==
    {f \in [off : Nat, data : Seq(Nat), syn : BOOLEAN, fin : BOOLEAN] :
        /\ End(f) <= w
        /\ \A i \in 1..Len(f.data) : f.data[i] = f.off + (i - 1)}

Apart(f, g) == End(f) <= g.off \/ End(g) <= f.off
Within(f, g) == g.off <= f.off /\ End(f) <= End(g)

\* Where a frame is.
LEMMA FrameFacts ==
    ASSUME NEW w \in Nat, NEW f \in FrameOf(w)
    PROVE  /\ f.off \in Nat /\ f.data \in Seq(Nat) /\ Len(f.data) \in Nat
           /\ End(f) \in Nat /\ f.off + Len(f.data) \in Nat /\ f.off + Len(f.data) <= w
           /\ \A i \in 1..Len(f.data) : f.data[i] = f.off + (i - 1)
<1>1. f.off \in Nat /\ f.data \in Seq(Nat) /\ End(f) <= w
  BY DEF FrameOf
<1>2. Len(f.data) \in Nat
  BY <1>1, LenNat, Zenon
<1>3. f.off + Len(f.data) \in Nat
  BY <1>1, <1>2
<1>4. \A i \in 1..Len(f.data) : f.data[i] = f.off + (i - 1)
  BY DEF FrameOf
<1> QED BY <1>1, <1>2, <1>3, <1>4, Zenon DEF End

-----------------------------------------------------------------------------
(***************************************************************************)
(* Division of frames (Pieces, fitToPath).                                 *)
(***************************************************************************)

\* The frames in P, in order, carry what f carries.
Divides(P, f, w) ==
    /\ P \in Seq(FrameOf(w))
    /\ Len(P) >= 1
    /\ f.data = <<>> => P = <<f>>
    /\ \A i \in 1..Len(P) : Within(P[i], f) /\ (P[i].fin => f.fin)
    /\ \A i, j \in 1..Len(P) : i < j => End(P[i]) <= P[j].off
    /\ \A b \in Nat : Carries(f, b) => \E i \in 1..Len(P) : Carries(P[i], b)

\* Division with a remainder.
LEMMA DivFacts ==
    ASSUME NEW a \in Nat, NEW k \in Nat \ {0}
    PROVE  /\ a \div k \in Nat
           /\ k * (a \div k) <= a
           /\ a < k * (a \div k) + k
  OBVIOUS

\* Multiples grow with the multiplier.
LEMMA MulFacts ==
    ASSUME NEW k \in Nat
    PROVE  /\ \A i \in Nat : i * k \in Nat /\ (i + 1) * k = i * k + k
           /\ \A i, j \in Nat : i <= j => i * k <= j * k
  OBVIOUS

\* The number of chunks of k bytes that m bytes need.
LEMMA ChunkCount ==
    ASSUME NEW m \in Nat \ {0}, NEW k \in Nat \ {0}, NEW n, n = (m + (k - 1)) \div k
    PROVE  n \in Nat \ {0} /\ m <= n * k /\ (n - 1) * k < m
<1>1. n \in Nat /\ k * n <= m + (k - 1) /\ m + (k - 1) < k * n + k
  BY DivFacts
<1>2. n # 0
  BY <1>1
<1>3. k * n = n * k /\ (n - 1) * k = n * k - k
  BY <1>1
<1> QED BY <1>1, <1>2, <1>3

\* A SubSeq of a frame's bytes.
LEMMA SubSeqFacts ==
    ASSUME NEW d \in Seq(Nat), NEW a \in Nat, NEW b \in Nat, a < b, b <= Len(d)
    PROVE  /\ SubSeq(d, a + 1, b) \in Seq(Nat)
           /\ Len(SubSeq(d, a + 1, b)) = b - a
           /\ \A i \in 1..(b - a) : SubSeq(d, a + 1, b)[i] = d[a + i]
  OBVIOUS

\* n intervals, none of them empty, that follow one another and leave none of m
\* bytes out.
Chunked(lo, hi, n, m) ==
    /\ n \in Nat \ {0}
    /\ \A i \in 1..n : lo[i] \in Nat /\ hi[i] \in Nat /\ lo[i] < hi[i] /\ hi[i] <= m
    /\ \A i, j \in 1..n : i < j => hi[i] <= lo[j]
    /\ \A a \in 0..(m - 1) : \E i \in 1..n : lo[i] <= a /\ a < hi[i]

\* Where the chunks of k bytes begin and end.
LEMMA ChunkBounds ==
    ASSUME NEW m \in Nat \ {0}, NEW k \in Nat \ {0}, NEW n, n = (m + (k - 1)) \div k,
           NEW lo, lo = [i \in 1..n |-> (i - 1) * k],
           NEW hi, hi = [i \in 1..n |-> Lesser(i * k, m)]
    PROVE  Chunked(lo, hi, n, m) /\ (m > k => n > 1)
<1>1. n \in Nat \ {0} /\ m <= n * k /\ (n - 1) * k < m
  BY ChunkCount, Zenon
<1>2. PICK z : z = (n - 1) * k
  BY Zenon
<1>3. z \in Nat /\ z < m
  BY <1>1, <1>2, MulFacts
<1>4. ASSUME NEW i \in 1..n
      PROVE  lo[i] \in Nat /\ i * k = lo[i] + k /\ lo[i] <= z /\ (i < n => i * k <= z)
  <2>1. i - 1 \in Nat /\ n - 1 \in Nat /\ i - 1 <= n - 1 /\ i \in Nat /\ (i < n => i <= n - 1)
    BY <1>1
  <2>2. (i - 1) * k \in Nat /\ ((i - 1) + 1) * k = (i - 1) * k + k
    BY <2>1, MulFacts
  <2>3. (i - 1) * k <= z /\ (i < n => i * k <= z)
    BY <2>1, <1>2, MulFacts, Zenon
  <2>4. (i - 1) + 1 = i
    BY <2>1
  <2> QED BY <2>2, <2>3, <2>4
<1>5. ASSUME NEW i \in 1..n
      PROVE  hi[i] \in Nat /\ lo[i] < hi[i] /\ hi[i] <= m /\ (i < n => hi[i] = i * k)
  <2>1. PICK y : y = i * k
    BY Zenon
  <2>2. hi[i] = Lesser(y, m)
    BY <2>1
  <2>3. lo[i] \in Nat /\ y = lo[i] + k /\ lo[i] <= z /\ (i < n => y <= z)
    BY <2>1, <1>4, Zenon
  <2>4. hi[i] \in Nat /\ lo[i] < hi[i] /\ hi[i] <= m /\ (i < n => hi[i] = y)
    BY <2>2, <2>3, <1>3 DEF Lesser
  <2> QED BY <2>1, <2>4
<1>6. ASSUME NEW i \in 1..n, NEW j \in 1..n, i < j PROVE hi[i] <= lo[j]
  <2>1. i < n /\ i \in Nat /\ j - 1 \in Nat /\ i <= j - 1
    BY <1>6, <1>1
  <2>2. i * k <= (j - 1) * k
    BY <2>1, MulFacts
  <2> QED BY <2>1, <2>2, <1>5, Zenon
<1>7. ASSUME NEW a \in 0..(m - 1) PROVE \E i \in 1..n : lo[i] <= a /\ a < hi[i]
  <2>1. PICK q : q = a \div k
    BY Zenon
  <2>2. q \in Nat /\ k * q <= a /\ a < k * q + k
    <3>1. a \in Nat
      BY NatsBelow
    <3> QED BY <3>1, <2>1, DivFacts, Zenon
  <2>3. PICK x : x = q * k
    BY Zenon
  <2>4. x \in Nat /\ x <= a /\ a < x + k
    BY <2>2, <2>3, MulFacts
  <2>5. q < n
    <3>1. CASE n <= q
      <4>1. n * k <= x /\ n * k \in Nat
        BY <3>1, <1>1, <2>2, <2>3, MulFacts, Zenon
      <4> QED BY <4>1, <2>4, <1>1
    <3> QED BY <3>1, <2>2, <1>1
  <2>6. q + 1 \in 1..n /\ (q + 1) - 1 = q
    BY <2>5, <2>2, <1>1
  <2>7. lo[q + 1] = x
    BY <2>6, <2>3
  <2>8. PICK y : y = (q + 1) * k
    BY Zenon
  <2>9. y = x + k
    BY <2>8, <2>2, <2>3, MulFacts
  <2>10. hi[q + 1] = Lesser(y, m)
    BY <2>6, <2>8
  <2>11. a < hi[q + 1]
    BY <2>9, <2>10, <2>4 DEF Lesser
  <2> QED BY <2>6, <2>7, <2>11, <2>4
<1>8. m > k => n > 1
  <2>1. n = 1 => n * k = k
    OBVIOUS
  <2> QED BY <2>1, <1>1
<1> QED BY <1>1, <1>4, <1>5, <1>6, <1>7, <1>8, Zenon DEF Chunked

\* A frame that carries data is divided into the frames that Write and Chunk
\* make of it.
LEMMA PiecesDivide ==
    ASSUME NEW w \in Nat, NEW f \in FrameOf(w), f.data # <<>>, NEW k \in Nat \ {0}
    PROVE  /\ Divides(Pieces(f, k), f, w)
           /\ Len(f.data) > k => Len(Pieces(f, k)) > 1
<1>1. PICK m, n, lo, hi, P :
        /\ m = Len(f.data) /\ n = (m + (k - 1)) \div k
        /\ lo = [i \in 1..n |-> (i - 1) * k] /\ hi = [i \in 1..n |-> Lesser(i * k, m)]
        /\ P = Pieces(f, k)
  BY Zenon
<1>2. /\ f.off \in Nat /\ f.data \in Seq(Nat) /\ f.syn \in BOOLEAN /\ f.fin \in BOOLEAN
      /\ m \in Nat \ {0} /\ f.off + m <= w
      /\ \A i \in 1..m : f.data[i] = f.off + (i - 1)
  BY <1>1 DEF FrameOf, End
<1>3. Chunked(lo, hi, n, m) /\ (m > k => n > 1)
  BY <1>1, <1>2, ChunkBounds, Zenon
<1>4. P = [i \in 1..n |-> [off |-> f.off + lo[i], data |-> SubSeq(f.data, lo[i] + 1, hi[i]),
                           syn |-> f.syn /\ i = 1, fin |-> f.fin /\ i = n]]
  BY <1>1, Zenon DEF Pieces
<1>5. ASSUME NEW i \in 1..n
      PROVE  /\ lo[i] \in Nat /\ hi[i] \in Nat /\ lo[i] < hi[i] /\ hi[i] <= m
             /\ P[i].data \in Seq(Nat) /\ Len(P[i].data) = hi[i] - lo[i]
             /\ \A j \in 1..(hi[i] - lo[i]) : P[i].data[j] = f.data[lo[i] + j]
             /\ P[i].off = f.off + lo[i]
             /\ P[i].fin = (f.fin /\ i = n) /\ P[i].syn = (f.syn /\ i = 1)
  <2>1. P[i].data = SubSeq(f.data, lo[i] + 1, hi[i])
    BY <1>4
  <2>2. lo[i] \in Nat /\ hi[i] \in Nat /\ lo[i] < hi[i] /\ hi[i] <= m
    BY <1>3 DEF Chunked
  <2>3. PICK d, a, b : d = f.data /\ a = lo[i] /\ b = hi[i]
    BY Zenon
  <2>4. d \in Seq(Nat) /\ a \in Nat /\ b \in Nat /\ a < b /\ b <= Len(d)
    BY <2>2, <2>3, <1>1, <1>2, Zenon
  <2>5. /\ SubSeq(d, a + 1, b) \in Seq(Nat) /\ Len(SubSeq(d, a + 1, b)) = b - a
        /\ \A j \in 1..(b - a) : SubSeq(d, a + 1, b)[j] = d[a + j]
    BY <2>4, SubSeqFacts, Zenon
  <2> QED BY <2>1, <2>2, <2>3, <2>5, <1>4, Zenon
<1>6. ASSUME NEW i \in 1..n PROVE P[i] \in FrameOf(w)
  <2>1. P[i] \in [off : Nat, data : Seq(Nat), syn : BOOLEAN, fin : BOOLEAN]
    <3>1. SubSeq(f.data, lo[i] + 1, hi[i]) \in Seq(Nat)
      BY <1>5, <1>4, Zenon
    <3>2. f.off + lo[i] \in Nat
      <4>1. PICK o, l : o = f.off /\ l = lo[i]
        BY Zenon
      <4>2. o \in Nat /\ l \in Nat
        BY <4>1, <1>2, <1>5, Zenon
      <4>3. o + l \in Nat
        BY <4>2
      <4> QED BY <4>1, <4>3, Zenon
    <3>3. (f.syn /\ i = 1) \in BOOLEAN /\ (f.fin /\ i = n) \in BOOLEAN
      OBVIOUS
    <3>4. [off |-> f.off + lo[i], data |-> SubSeq(f.data, lo[i] + 1, hi[i]),
           syn |-> f.syn /\ i = 1, fin |-> f.fin /\ i = n]
             \in [off : Nat, data : Seq(Nat), syn : BOOLEAN, fin : BOOLEAN]
      BY <3>1, <3>2, <3>3
    <3> QED BY <3>4, <1>4
  <2>2. PICK a, b, o : a = lo[i] /\ b = hi[i] /\ o = f.off
    BY Zenon
  <2>3. /\ a \in Nat /\ b \in Nat /\ a < b /\ b <= m /\ o \in Nat /\ o + m <= w
        /\ P[i].off = o + a /\ Len(P[i].data) = b - a
    BY <2>2, <1>2, <1>5
  <2>4. End(P[i]) <= w
    BY <2>3, <1>2 DEF End
  <2>5. ASSUME NEW j \in 1..Len(P[i].data) PROVE P[i].data[j] = P[i].off + (j - 1)
    <3>1. j \in 1..(b - a) /\ a + j \in 1..m
      BY <2>3, <1>2
    <3>2. P[i].data[j] = f.data[a + j]
      BY <3>1, <2>2, <1>5
    <3>3. f.data[a + j] = o + ((a + j) - 1)
      BY <3>1, <2>2, <1>2, Zenon
    <3>4. o + ((a + j) - 1) = (o + a) + (j - 1)
      BY <3>1, <2>3
    <3> QED BY <3>2, <3>3, <3>4, <2>3
  <2> QED BY <2>1, <2>4, <2>5 DEF FrameOf
<1>7. P \in Seq(FrameOf(w)) /\ Len(P) = n
  <2>1. P \in [1..n -> FrameOf(w)]
    BY <1>4, <1>6
  <2>2. n \in Nat
    BY <1>3 DEF Chunked
  <2> QED BY <2>1, <2>2, IsSequence
<1>8. ASSUME NEW i \in 1..n PROVE Within(P[i], f) /\ (P[i].fin => f.fin)
  <2>1. PICK a, b, o : a = lo[i] /\ b = hi[i] /\ o = f.off
    BY Zenon
  <2>2. /\ a \in Nat /\ b \in Nat /\ a < b /\ b <= m /\ o \in Nat
        /\ P[i].off = o + a /\ Len(P[i].data) = b - a /\ (P[i].fin => f.fin)
    BY <2>1, <1>2, <1>5, Zenon
  <2>3. Len(f.data) = m /\ m \in Nat
    BY <1>1, <1>2
  <2>4. End(P[i]) = (o + a) + (b - a) /\ End(f) = o + m
    BY <2>1, <2>2, <2>3, Zenon DEF End
  <2>5. o <= o + a /\ (o + a) + (b - a) <= o + m
    BY <2>2, <2>3
  <2> QED BY <2>1, <2>2, <2>4, <2>5, Zenon DEF Within
<1>9. ASSUME NEW i \in 1..n, NEW j \in 1..n, i < j PROVE End(P[i]) <= P[j].off
  <2>1. hi[i] <= lo[j]
    BY <1>9, <1>3 DEF Chunked
  <2>2. /\ lo[i] \in Nat /\ hi[i] \in Nat /\ lo[j] \in Nat
        /\ P[i].off = f.off + lo[i] /\ Len(P[i].data) = hi[i] - lo[i] /\ P[j].off = f.off + lo[j]
    BY <1>5, Zenon
  <2>3. PICK a, b, c, o : a = lo[i] /\ b = hi[i] /\ c = lo[j] /\ o = f.off
    BY Zenon
  <2>4. a \in Nat /\ b \in Nat /\ c \in Nat /\ o \in Nat /\ b <= c
    BY <2>1, <2>2, <2>3, <1>2, Zenon
  <2>5. (o + a) + (b - a) <= o + c
    BY <2>4
  <2> QED BY <2>2, <2>3, <2>5, Zenon DEF End
<1>10. ASSUME NEW b \in Nat, Carries(f, b) PROVE \E i \in 1..n : Carries(P[i], b)
  <2>1. PICK o : o = f.off
    BY Zenon
  <2>2. b - o \in 0..(m - 1) /\ o \in Nat
    <3>1. o \in Nat /\ m \in Nat /\ o <= b /\ b < o + m
      BY <2>1, <1>10, <1>1, <1>2, Zenon DEF Carries
    <3> QED BY <3>1
  <2>3. PICK i \in 1..n : lo[i] <= b - o /\ b - o < hi[i]
    BY <2>2, <1>3 DEF Chunked
  <2>4. P[i].off = o + lo[i] /\ Len(P[i].data) = hi[i] - lo[i] /\ lo[i] \in Nat /\ hi[i] \in Nat
    BY <2>1, <1>5
  <2>5. Carries(P[i], b)
    BY <2>2, <2>3, <2>4 DEF Carries
  <2> QED BY <2>5
<1>11. Divides(P, f, w)
  <2>1. Len(P) >= 1
    BY <1>3, <1>7 DEF Chunked
  <2> QED BY <2>1, <1>7, <1>8, <1>9, <1>10 DEF Divides
<1> QED BY <1>1, <1>3, <1>7, <1>11, Zenon

\* A packet to be re-sent is replaced by frames that carry what it carried.
LEMMA FitDivides ==
    ASSUME NEW w \in Nat, NEW f \in FrameOf(w), NEW d \in Datagrams
    PROVE  /\ Divides(fitToPath(f, d), f, w)
           /\ Len(fitToPath(f, d)) = 1 => fitToPath(f, d) = <<f>>
<1> DEFINE k == pieceSize(d)
<1>1. k \in Nat \ {0}
  BY SizeAssumption DEF pieceSize
<1>2. /\ f.off \in Nat /\ f.data \in Seq(Nat) /\ Len(f.data) \in Nat
  BY DEF FrameOf
<1>3. CASE Len(f.data) <= k
  <2>1. fitToPath(f, d) = <<f>>
    BY <1>3 DEF fitToPath
  <2>2. PICK P : P = <<f>>
    BY Zenon
  <2>3. P \in Seq(FrameOf(w)) /\ Len(P) = 1 /\ P[1] = f
    BY <2>2
  <2>4. Within(f, f)
    BY <1>2 DEF Within, End
  <2>5. 1..1 = {1} /\ Len(P) >= 1
    BY <2>3
  <2>6. Divides(P, f, w)
    BY <2>2, <2>3, <2>4, <2>5 DEF Divides
  <2> QED BY <2>1, <2>2, <2>6
<1>4. CASE ~(Len(f.data) <= k)
  <2>1. fitToPath(f, d) = Pieces(f, k) /\ f.data # <<>> /\ Len(f.data) > k
    BY <1>4, <1>1, <1>2 DEF fitToPath
  <2>2. Divides(Pieces(f, k), f, w) /\ Len(Pieces(f, k)) > 1
    BY <2>1, <1>1, PiecesDivide
  <2>3. PICK P : P = fitToPath(f, d)
    BY Zenon
  <2>4. Divides(P, f, w) /\ Len(P) > 1
    BY <2>1, <2>2, <2>3
  <2>5. P \in Seq(FrameOf(w))
    BY <2>4 DEF Divides
  <2>6. PICK n \in Nat : n = Len(P) /\ n > 1
    BY <2>4, <2>5
  <2>7. n # 1
    BY <2>6
  <2> QED BY <2>3, <2>4, <2>6, <2>7
<1> QED BY <1>3, <1>4

-----------------------------------------------------------------------------
(***************************************************************************)
(* The sender's invariant.                                                 *)
(***************************************************************************)

\* A FIN is on the frame that ends the stream, and that frame is empty.
FinOK(f) == f.fin => closed /\ f.data = <<>> /\ f.off = BytesWritten

\* What is on the wire, what is tracked and what is queued.
WireInv ==
    /\ BytesWritten \in Nat /\ closed \in BOOLEAN /\ nextSeq \in Nat
    /\ \A p \in net : p.seq \in 0..(nextSeq - 1) /\ p.f \in FrameOf(BytesWritten) /\ FinOK(p.f)
    /\ \A p, q \in net : p.seq = q.seq => p.f = q.f
    /\ \A s \in DOMAIN sentPackets : [seq |-> s, f |-> sentPackets[s]] \in net
    /\ lostQueue \in Seq(FrameOf(BytesWritten))
    /\ \A i \in 1..Len(lostQueue) : FinOK(lostQueue[i])

\* No byte is outstanding twice.
OutstandingApart ==
    /\ \A s, t \in DOMAIN sentPackets : s # t => Apart(sentPackets[s], sentPackets[t])
    /\ \A s \in DOMAIN sentPackets : \A i \in 1..Len(lostQueue) :
        Apart(sentPackets[s], lostQueue[i])
    /\ \A i, j \in 1..Len(lostQueue) : i # j => Apart(lostQueue[i], lostQueue[j])

\* Re-chunking only ever divides: of two frames on the wire that share bytes
\* one holds the other, and what is outstanding is never the larger.
Nested ==
    /\ \A p, q \in net : Apart(p.f, q.f) \/ Within(p.f, q.f) \/ Within(q.f, p.f)
    /\ \A p \in net : \A s \in DOMAIN sentPackets :
        Apart(p.f, sentPackets[s]) \/ Within(sentPackets[s], p.f)
    /\ \A p \in net : \A i \in 1..Len(lostQueue) :
        Apart(p.f, lostQueue[i]) \/ Within(lostQueue[i], p.f)

SenderInv == WireInv /\ OutstandingApart /\ Nested

\* The stream may grow, but not once it is closed.
Growing ==
    /\ BytesWritten' \in Nat /\ BytesWritten <= BytesWritten'
    /\ closed' \in BOOLEAN
    /\ closed => closed' /\ BytesWritten' = BytesWritten

\* A frame stays one as the stream grows.
LEMMA FrameGrows ==
    ASSUME NEW v \in Nat, NEW w \in Nat, v <= w
    PROVE  FrameOf(v) \subseteq FrameOf(w) /\ Seq(FrameOf(v)) \subseteq Seq(FrameOf(w))
<1>1. ASSUME NEW f \in FrameOf(v) PROVE f \in FrameOf(w)
  <2>1. f.off \in Nat /\ Len(f.data) \in Nat
    BY DEF FrameOf
  <2>2. End(f) \in Nat /\ End(f) <= v
    BY <2>1 DEF FrameOf, End
  <2> QED BY <2>2 DEF FrameOf
<1> QED BY <1>1

\* What is tracked is on the wire.
LEMMA TrackedIsSent ==
    ASSUME WireInv, NEW s \in DOMAIN sentPackets
    PROVE  /\ s \in 0..(nextSeq - 1)
           /\ sentPackets[s] \in FrameOf(BytesWritten) /\ FinOK(sentPackets[s])
<1>1. PICK p \in net : p = [seq |-> s, f |-> sentPackets[s]]
  BY Zenon DEF WireInv
<1>2. p.seq = s /\ p.f = sentPackets[s]
  BY <1>1
<1> QED BY <1>1, <1>2 DEF WireInv

\* Transmit numbers, tracks and sends each of the frames.
LEMMA TransmitFacts ==
    ASSUME WireInv, NEW frames, NEW X, frames \in Seq(X),
           NEW kept \in SUBSET DOMAIN sentPackets, Transmit(frames, kept)
    PROVE  /\ nextSeq' = nextSeq + Len(frames)
           /\ \A s \in DOMAIN sentPackets' :
                \/ s \in kept /\ s \in 0..(nextSeq - 1) /\ sentPackets'[s] = sentPackets[s]
                \/ \E i \in 1..Len(frames) : s = nextSeq + (i - 1) /\ sentPackets'[s] = frames[i]
           /\ \A s \in kept : s \in DOMAIN sentPackets' /\ sentPackets'[s] = sentPackets[s]
           /\ \A i \in 1..Len(frames) :
                /\ nextSeq + (i - 1) \in DOMAIN sentPackets'
                /\ sentPackets'[nextSeq + (i - 1)] = frames[i]
                /\ [seq |-> nextSeq + (i - 1), f |-> frames[i]] \in net'
           /\ net \subseteq net'
           /\ \A p \in net' :
                p \in net \/ \E i \in 1..Len(frames) : p = [seq |-> nextSeq + (i - 1), f |-> frames[i]]
<1> DEFINE fresh == nextSeq..(nextSeq + (Len(frames) - 1))
<1>1. nextSeq \in Nat /\ Len(frames) \in Nat
  BY DEF WireInv
<1>2. \A s \in kept : s \in 0..(nextSeq - 1)
  BY TrackedIsSent
<1>3. \A s \in fresh : s - nextSeq + 1 \in 1..Len(frames) /\ s = nextSeq + ((s - nextSeq + 1) - 1)
  BY <1>1
<1>4. \A i \in 1..Len(frames) : nextSeq + (i - 1) \in fresh /\ (nextSeq + (i - 1)) - nextSeq + 1 = i
  BY <1>1
<1>5. \A s \in kept : s \notin fresh
  BY <1>1, <1>2
<1>6. /\ nextSeq' = nextSeq + Len(frames)
      /\ sentPackets' = [s \in kept \cup fresh |->
            IF s \in fresh THEN frames[s - nextSeq + 1] ELSE sentPackets[s]]
      /\ net' = net \cup {[seq |-> s, f |-> frames[s - nextSeq + 1]] : s \in fresh}
  BY DEF Transmit, NextSequence
<1> HIDE DEF fresh
<1>7. /\ DOMAIN sentPackets' = kept \cup fresh
      /\ \A s \in kept : sentPackets'[s] = sentPackets[s]
      /\ \A s \in fresh : sentPackets'[s] = frames[s - nextSeq + 1]
  BY <1>5, <1>6
<1>8. ASSUME NEW s \in DOMAIN sentPackets'
      PROVE  \/ s \in kept /\ s \in 0..(nextSeq - 1) /\ sentPackets'[s] = sentPackets[s]
             \/ \E i \in 1..Len(frames) : s = nextSeq + (i - 1) /\ sentPackets'[s] = frames[i]
  <2>1. CASE s \in kept
    BY <2>1, <1>2, <1>7
  <2>2. CASE s \in fresh
    <3>1. PICK i : i = s - nextSeq + 1
      BY Zenon
    <3>2. i \in 1..Len(frames) /\ s = nextSeq + (i - 1) /\ sentPackets'[s] = frames[i]
      BY <3>1, <2>2, <1>3, <1>7
    <3> QED BY <3>2
  <2> QED BY <2>1, <2>2, <1>7
<1>9. ASSUME NEW i \in 1..Len(frames)
      PROVE  /\ nextSeq + (i - 1) \in DOMAIN sentPackets'
             /\ sentPackets'[nextSeq + (i - 1)] = frames[i]
             /\ [seq |-> nextSeq + (i - 1), f |-> frames[i]] \in net'
  <2>1. PICK s : s = nextSeq + (i - 1)
    BY Zenon
  <2>2. s \in fresh /\ s - nextSeq + 1 = i
    BY <2>1, <1>4
  <2>3. s \in DOMAIN sentPackets' /\ sentPackets'[s] = frames[i]
    BY <2>2, <1>7
  <2>4. [seq |-> s, f |-> frames[s - nextSeq + 1]] \in net'
    BY <2>2, <1>6
  <2> QED BY <2>1, <2>2, <2>3, <2>4
<1>10. ASSUME NEW p \in net', p \notin net
       PROVE  \E i \in 1..Len(frames) : p = [seq |-> nextSeq + (i - 1), f |-> frames[i]]
  <2>1. PICK s \in fresh : p = [seq |-> s, f |-> frames[s - nextSeq + 1]]
    BY <1>6, <1>10
  <2>2. PICK i : i = s - nextSeq + 1
    BY Zenon
  <2>3. i \in 1..Len(frames) /\ s = nextSeq + (i - 1)
    BY <2>2, <1>3
  <2> QED BY <2>1, <2>2, <2>3, Zenon
<1>11. net \subseteq net'
  BY <1>6
<1> QED BY <1>6, <1>7, <1>8, <1>9, <1>10, <1>11, Zenon

\* frames may be sent when kept stays tracked: they follow one another, share no
\* byte with what stays outstanding, and are within what shares a byte with them.
Sendable(frames, kept) ==
    /\ frames \in Seq(FrameOf(BytesWritten'))
    /\ \A i \in 1..Len(frames) :
        frames[i].fin => closed' /\ frames[i].data = <<>> /\ frames[i].off = BytesWritten'
    /\ \A i, j \in 1..Len(frames) : i < j => End(frames[i]) <= frames[j].off
    /\ \A p \in net : \A i \in 1..Len(frames) : Apart(p.f, frames[i]) \/ Within(frames[i], p.f)
    /\ \A s \in kept : \A i \in 1..Len(frames) : Apart(sentPackets[s], frames[i])
    /\ \A j \in 1..Len(lostQueue') : \A i \in 1..Len(frames) : Apart(lostQueue'[j], frames[i])

\* The first c entries have left the queue.
Popped(c) ==
    /\ lostQueue' \in Seq(FrameOf(BytesWritten))
    /\ c \in Nat
    /\ \A j \in 1..Len(lostQueue') : j + c \in 1..Len(lostQueue) /\ lostQueue'[j] = lostQueue[j + c]

\* Sending preserves the sender's invariant.
LEMMA SendStep ==
    ASSUME SenderInv, Growing, NEW frames, NEW kept \in SUBSET DOMAIN sentPackets,
           Transmit(frames, kept), Sendable(frames, kept), NEW c, Popped(c)
    PROVE  SenderInv'
<1> DEFINE N == 1..Len(frames)
<1>1. frames \in Seq(FrameOf(BytesWritten')) /\ Len(frames) \in Nat
  BY DEF Sendable
<1>2. /\ nextSeq' = nextSeq + Len(frames)
      /\ \A s \in DOMAIN sentPackets' :
           \/ s \in kept /\ s \in 0..(nextSeq - 1) /\ sentPackets'[s] = sentPackets[s]
           \/ \E i \in N : s = nextSeq + (i - 1) /\ sentPackets'[s] = frames[i]
      /\ \A i \in N : [seq |-> nextSeq + (i - 1), f |-> frames[i]] \in net'
      /\ net \subseteq net'
      /\ \A p \in net' : p \in net \/ \E i \in N : p = [seq |-> nextSeq + (i - 1), f |-> frames[i]]
  BY <1>1, TransmitFacts DEF SenderInv
<1>3. WireInv /\ OutstandingApart /\ Nested /\ nextSeq \in Nat
  BY DEF SenderInv, WireInv
<1>4. \A i, j \in N : i # j => Apart(frames[i], frames[j])
  BY <1>1 DEF Sendable, Apart
<1>5. \A p \in net' : p \in net \/ \E i \in N : p.seq = nextSeq + (i - 1) /\ p.f = frames[i]
  <2>1. ASSUME NEW p \in net', p \notin net PROVE \E i \in N : p.seq = nextSeq + (i - 1) /\ p.f = frames[i]
    <3>1. PICK i \in N : p = [seq |-> nextSeq + (i - 1), f |-> frames[i]]
      BY <2>1, <1>2
    <3> QED BY <3>1
  <2> QED BY <2>1
<1>6. \A f : FinOK(f) => FinOK(f)'
  BY DEF FinOK, Growing
<1>7. FrameOf(BytesWritten) \subseteq FrameOf(BytesWritten')
      /\ Seq(FrameOf(BytesWritten)) \subseteq Seq(FrameOf(BytesWritten'))
  BY <1>3, FrameGrows DEF Growing, WireInv
<1>8. WireInv'
  <2>1. BytesWritten' \in Nat /\ closed' \in BOOLEAN /\ nextSeq' \in Nat
    BY <1>1, <1>2, <1>3 DEF Growing
  <2>2. ASSUME NEW p \in net'
        PROVE  p.seq \in 0..(nextSeq' - 1) /\ p.f \in FrameOf(BytesWritten') /\ FinOK(p.f)'
    <3>1. CASE p \in net
      <4>1. p.seq \in 0..(nextSeq - 1) /\ p.f \in FrameOf(BytesWritten) /\ FinOK(p.f)
        BY <3>1, <1>3 DEF WireInv
      <4>2. p.seq \in 0..(nextSeq' - 1)
        BY <4>1, <1>1, <1>2, <1>3
      <4> QED BY <4>1, <4>2, <1>6, <1>7
    <3>2. CASE p \notin net
      <4>1. PICK i \in N : p.seq = nextSeq + (i - 1) /\ p.f = frames[i]
        BY <3>2, <1>5
      <4>2. p.seq \in 0..(nextSeq' - 1)
        BY <4>1, <1>1, <1>2, <1>3
      <4>3. frames[i] \in FrameOf(BytesWritten')
        BY <1>1
      <4>4. FinOK(p.f)'
        BY <4>1 DEF Sendable, FinOK
      <4> QED BY <4>1, <4>2, <4>3, <4>4
    <3> QED BY <3>1, <3>2
  <2>3. ASSUME NEW p \in net', NEW q \in net', p.seq = q.seq PROVE p.f = q.f
    <3>1. \A r \in net : r.seq \in 0..(nextSeq - 1)
      BY <1>3 DEF WireInv
    <3>2. CASE p \in net /\ q \in net
      BY <3>2, <2>3, <1>3 DEF WireInv
    <3>3. CASE p \in net /\ q \notin net
      <4>1. PICK i \in N : q.seq = nextSeq + (i - 1)
        BY <3>3, <1>5
      <4> QED BY <4>1, <3>1, <3>3, <2>3, <1>1, <1>3
    <3>4. CASE p \notin net /\ q \in net
      <4>1. PICK i \in N : p.seq = nextSeq + (i - 1)
        BY <3>4, <1>5
      <4> QED BY <4>1, <3>1, <3>4, <2>3, <1>1, <1>3
    <3>5. CASE p \notin net /\ q \notin net
      <4>1. PICK i \in N : p.seq = nextSeq + (i - 1) /\ p.f = frames[i]
        BY <3>5, <1>5
      <4>2. PICK j \in N : q.seq = nextSeq + (j - 1) /\ q.f = frames[j]
        BY <3>5, <1>5
      <4>3. i = j
        BY <4>1, <4>2, <2>3, <1>1, <1>3
      <4> QED BY <4>1, <4>2, <4>3
    <3> QED BY <3>2, <3>3, <3>4, <3>5
  <2>4. ASSUME NEW s \in DOMAIN sentPackets' PROVE [seq |-> s, f |-> sentPackets'[s]] \in net'
    <3>1. CASE s \in kept /\ sentPackets'[s] = sentPackets[s]
      BY <3>1, <1>2, <1>3 DEF WireInv
    <3>2. CASE \E i \in N : s = nextSeq + (i - 1) /\ sentPackets'[s] = frames[i]
      BY <3>2, <1>2
    <3> QED BY <3>1, <3>2, <1>2
  <2>5. lostQueue' \in Seq(FrameOf(BytesWritten'))
    BY <1>7 DEF Popped
  <2>6. (\A j \in 1..Len(lostQueue) : FinOK(lostQueue[j]))'
    <3>1. ASSUME NEW j \in 1..Len(lostQueue') PROVE FinOK(lostQueue'[j])
      BY <1>3 DEF Popped, WireInv
    <3> QED BY <3>1 DEF FinOK, Growing
  <2> QED BY <2>1, <2>2, <2>3, <2>4, <2>5, <2>6 DEF WireInv
<1>9. OutstandingApart'
  <2>1. ASSUME NEW s \in DOMAIN sentPackets', NEW t \in DOMAIN sentPackets', s # t
        PROVE  Apart(sentPackets'[s], sentPackets'[t])
    <3>1. CASE s \in kept /\ sentPackets'[s] = sentPackets[s] /\ t \in kept /\ sentPackets'[t] = sentPackets[t]
      BY <3>1, <2>1, <1>3 DEF OutstandingApart
    <3>2. CASE s \in kept /\ sentPackets'[s] = sentPackets[s] /\ t \notin kept
      <4>1. PICK i \in N : sentPackets'[t] = frames[i]
        BY <3>2, <1>2
      <4> QED BY <4>1, <3>2 DEF Sendable
    <3>3. CASE s \notin kept /\ t \in kept /\ sentPackets'[t] = sentPackets[t]
      <4>1. PICK i \in N : sentPackets'[s] = frames[i]
        BY <3>3, <1>2
      <4>2. Apart(sentPackets[t], frames[i])
        BY <3>3 DEF Sendable
      <4> QED BY <4>1, <4>2, <3>3 DEF Apart
    <3>4. CASE s \notin kept /\ t \notin kept
      <4>1. PICK i \in N : s = nextSeq + (i - 1) /\ sentPackets'[s] = frames[i]
        BY <3>4, <1>2
      <4>2. PICK j \in N : t = nextSeq + (j - 1) /\ sentPackets'[t] = frames[j]
        BY <3>4, <1>2
      <4>3. i # j
        BY <4>1, <4>2, <2>1
      <4> QED BY <4>1, <4>2, <4>3, <1>4
    <3>5. \A r \in kept : sentPackets'[r] = sentPackets[r]
      BY <1>1, <1>3, TransmitFacts
    <3> QED BY <3>1, <3>2, <3>3, <3>4, <3>5
  <2>2. ASSUME NEW s \in DOMAIN sentPackets', NEW j \in 1..Len(lostQueue')
        PROVE  Apart(sentPackets'[s], lostQueue'[j])
    <3>1. CASE s \in kept /\ sentPackets'[s] = sentPackets[s]
      <4>1. j + c \in 1..Len(lostQueue) /\ lostQueue'[j] = lostQueue[j + c]
        BY DEF Popped
      <4> QED BY <4>1, <3>1, <1>3 DEF OutstandingApart
    <3>2. CASE \E i \in N : sentPackets'[s] = frames[i]
      <4>1. PICK i \in N : sentPackets'[s] = frames[i]
        BY <3>2
      <4>2. Apart(lostQueue'[j], frames[i])
        BY DEF Sendable
      <4> QED BY <4>1, <4>2 DEF Apart
    <3> QED BY <3>1, <3>2, <1>2
  <2>3. ASSUME NEW i \in 1..Len(lostQueue'), NEW j \in 1..Len(lostQueue'), i # j
        PROVE  Apart(lostQueue'[i], lostQueue'[j])
    <3>1. /\ i + c \in 1..Len(lostQueue) /\ lostQueue'[i] = lostQueue[i + c]
          /\ j + c \in 1..Len(lostQueue) /\ lostQueue'[j] = lostQueue[j + c]
      BY DEF Popped
    <3>2. i + c # j + c
      BY <2>3 DEF Popped
    <3> QED BY <3>1, <3>2, <1>3 DEF OutstandingApart
  <2> QED BY <2>1, <2>2, <2>3 DEF OutstandingApart
<1>10. Nested'
  <2>1. ASSUME NEW p \in net', NEW i \in N PROVE Apart(p.f, frames[i]) \/ Within(frames[i], p.f)
    <3>1. CASE p \in net
      BY <3>1 DEF Sendable
    <3>2. CASE p \notin net
      <4>1. PICK j \in N : p.f = frames[j]
        BY <3>2, <1>5
      <4>2. frames[i] \in FrameOf(BytesWritten')
        BY <1>1
      <4>3. Within(frames[i], frames[i])
        BY <4>2 DEF Within, End, FrameOf
      <4> QED BY <4>1, <4>3, <1>4
    <3> QED BY <3>1, <3>2
  <2>2. ASSUME NEW p \in net', NEW q \in net' PROVE Apart(p.f, q.f) \/ Within(p.f, q.f) \/ Within(q.f, p.f)
    <3>1. CASE p \in net /\ q \in net
      BY <3>1, <1>3 DEF Nested
    <3>2. CASE q \notin net
      BY <3>2, <2>1, <1>5
    <3>3. CASE p \notin net
      <4>1. PICK i \in N : p.f = frames[i]
        BY <3>3, <1>5
      <4> QED BY <4>1, <2>1 DEF Apart
    <3> QED BY <3>1, <3>2, <3>3
  <2>3. ASSUME NEW p \in net', NEW s \in DOMAIN sentPackets'
        PROVE  Apart(p.f, sentPackets'[s]) \/ Within(sentPackets'[s], p.f)
    <3>1. CASE \E i \in N : sentPackets'[s] = frames[i]
      BY <3>1, <2>1
    <3>2. CASE s \in kept /\ sentPackets'[s] = sentPackets[s] /\ p \in net
      BY <3>2, <1>3 DEF Nested
    <3>3. CASE s \in kept /\ sentPackets'[s] = sentPackets[s] /\ p \notin net
      <4>1. PICK i \in N : p.f = frames[i]
        BY <3>3, <1>5
      <4>2. Apart(sentPackets[s], frames[i])
        BY <3>3 DEF Sendable
      <4> QED BY <4>1, <4>2, <3>3 DEF Apart
    <3> QED BY <3>1, <3>2, <3>3, <1>2
  <2>4. ASSUME NEW p \in net', NEW j \in 1..Len(lostQueue')
        PROVE  Apart(p.f, lostQueue'[j]) \/ Within(lostQueue'[j], p.f)
    <3>1. CASE p \in net
      <4>1. j + c \in 1..Len(lostQueue) /\ lostQueue'[j] = lostQueue[j + c]
        BY DEF Popped
      <4> QED BY <4>1, <3>1, <1>3 DEF Nested
    <3>2. CASE p \notin net
      <4>1. PICK i \in N : p.f = frames[i]
        BY <3>2, <1>5
      <4>2. Apart(lostQueue'[j], frames[i])
        BY DEF Sendable
      <4> QED BY <4>1, <4>2 DEF Apart
    <3> QED BY <3>1, <3>2
  <2> QED BY <2>2, <2>3, <2>4 DEF Nested
<1> QED BY <1>8, <1>9, <1>10 DEF SenderInv

\* What is apart from a frame is apart from its parts.
LEMMA PartsApart ==
    ASSUME NEW w \in Nat, NEW f \in FrameOf(w), NEW g \in FrameOf(w), NEW h \in FrameOf(w)
    PROVE  /\ Apart(f, g) /\ Within(h, g) => Apart(f, h)
           /\ Within(h, g) /\ Within(g, f) => Within(h, f)
<1>1. \A e \in FrameOf(w) : e.off \in Nat /\ End(e) \in Nat
  BY DEF FrameOf, End
<1>2. PICK fo \in Nat, fe \in Nat, go \in Nat, ge \in Nat, ho \in Nat, he \in Nat :
        /\ fo = f.off /\ fe = End(f)
        /\ go = g.off /\ ge = End(g)
        /\ ho = h.off /\ he = End(h)
  BY <1>1, Zenon
<1>3. /\ (fe <= go \/ ge <= fo) /\ go <= ho /\ he <= ge => fe <= ho \/ he <= fo
      /\ go <= ho /\ he <= ge /\ fo <= go /\ ge <= fe => fo <= ho /\ he <= fe
  OBVIOUS
<1> QED BY <1>2, <1>3 DEF Apart, Within

\* Write's chunks follow all that was written before.
LEMMA WriteStep ==
    ASSUME SenderInv, Write
    PROVE  SenderInv' /\ Growing
<1>1. PICK n \in 1..(Window - BytesWritten), d \in Datagrams :
        /\ Transmit(Pieces([off |-> BytesWritten,
                            data |-> [i \in 1..n |-> BytesWritten + (i - 1)],
                            syn |-> BytesWritten = 0,
                            fin |-> FALSE], chunkSize(d)),
                    DOMAIN sentPackets)
        /\ BytesWritten' = BytesWritten + n
  BY Zenon DEF Write
<1>2. PICK f : f = [off |-> BytesWritten, data |-> [i \in 1..n |-> BytesWritten + (i - 1)],
                    syn |-> BytesWritten = 0, fin |-> FALSE]
  BY Zenon
<1>3. PICK P : P = Pieces(f, chunkSize(d))
  BY Zenon
<1>4. WireInv /\ BytesWritten \in Nat /\ n \in Nat /\ n > 0
  BY SizeAssumption DEF SenderInv, WireInv
<1>5. f.data \in Seq(Nat) /\ Len(f.data) = n /\ f.off = BytesWritten /\ ~f.fin /\ f.data # <<>>
  <2>1. f.data \in [1..n -> Nat] /\ f.off = BytesWritten /\ ~f.fin
    BY <1>2, <1>4
  <2>2. f.data \in Seq(Nat) /\ Len(f.data) = n
    BY <2>1, <1>4, IsSequence
  <2>3. Len(<<>>) = 0
    OBVIOUS
  <2>4. f.data # <<>>
    BY <2>2, <2>3, <1>4
  <2> QED BY <2>1, <2>2, <2>4
<1>6. f \in FrameOf(BytesWritten')
  <2>1. f \in [off : Nat, data : Seq(Nat), syn : BOOLEAN, fin : BOOLEAN]
    BY <1>2, <1>4, <1>5
  <2>2. End(f) <= BytesWritten'
    BY <1>1, <1>4, <1>5 DEF End
  <2>3. \A i \in 1..Len(f.data) : f.data[i] = f.off + (i - 1)
    BY <1>2, <1>5
  <2> QED BY <2>1, <2>2, <2>3 DEF FrameOf
<1>7. BytesWritten' \in Nat /\ BytesWritten <= BytesWritten' /\ ~closed /\ closed' = closed /\ lostQueue' = lostQueue
  BY <1>1, <1>4 DEF Write
<1>8. chunkSize(d) \in Nat \ {0}
  BY SizeAssumption DEF chunkSize
<1>9. Divides(P, f, BytesWritten')
  BY <1>3, <1>5, <1>6, <1>7, <1>8, PiecesDivide
<1>10. Growing
  BY <1>7, <1>4 DEF Growing, WireInv
<1>11. P \in Seq(FrameOf(BytesWritten')) /\ \A i \in 1..Len(P) : Within(P[i], f) /\ ~P[i].fin
  BY <1>9, <1>5 DEF Divides
<1>12. \A g \in FrameOf(BytesWritten) : \A i \in 1..Len(P) : Apart(g, P[i])
  <2>1. ASSUME NEW g \in FrameOf(BytesWritten), NEW i \in 1..Len(P) PROVE Apart(g, P[i])
    <3>1. End(g) <= BytesWritten /\ g.off \in Nat /\ Len(g.data) \in Nat
      BY DEF FrameOf
    <3>2. P[i] \in FrameOf(BytesWritten')
      BY <1>11
    <3>3. P[i].off \in Nat /\ BytesWritten <= P[i].off
      BY <3>2, <1>11, <1>5, Zenon DEF Within, FrameOf
    <3> QED BY <3>1, <3>3, <1>4 DEF Apart, End
  <2> QED BY <2>1
<1>13. Sendable(P, DOMAIN sentPackets)
  <2>1. \A p \in net : p.f \in FrameOf(BytesWritten)
    BY <1>4 DEF WireInv
  <2>2. \A s \in DOMAIN sentPackets : sentPackets[s] \in FrameOf(BytesWritten)
    BY <1>4, TrackedIsSent
  <2>3. \A j \in 1..Len(lostQueue') : lostQueue'[j] \in FrameOf(BytesWritten)
    BY <1>4, <1>7 DEF WireInv
  <2>4. \A i, j \in 1..Len(P) : i < j => End(P[i]) <= P[j].off
    BY <1>9 DEF Divides
  <2> QED BY <2>1, <2>2, <2>3, <2>4, <1>11, <1>12 DEF Sendable
<1>14. Popped(0)
  <2>1. lostQueue \in Seq(FrameOf(BytesWritten))
    BY <1>4 DEF WireInv
  <2> QED BY <2>1, <1>7 DEF Popped
<1>15. Transmit(P, DOMAIN sentPackets)
  BY <1>1, <1>2, <1>3
<1> QED BY <1>10, <1>13, <1>14, <1>15, SendStep

\* Close's FIN follows all that was written.
LEMMA CloseStep ==
    ASSUME SenderInv, Close
    PROVE  SenderInv' /\ Growing
<1>1. PICK f : f = [off |-> BytesWritten, data |-> <<>>, syn |-> FALSE, fin |-> TRUE]
  BY Zenon
<1>2. PICK P : P = <<f>>
  BY Zenon
<1>3. WireInv /\ BytesWritten \in Nat
  BY DEF SenderInv, WireInv
<1>4. BytesWritten' = BytesWritten /\ ~closed /\ closed' = TRUE /\ lostQueue' = lostQueue
  BY DEF Close
<1>5. f.off = BytesWritten /\ f.data = <<>> /\ f.fin /\ End(f) = BytesWritten
  BY <1>1, <1>3 DEF End
<1>6. f \in FrameOf(BytesWritten')
  <2>1. f \in [off : Nat, data : Seq(Nat), syn : BOOLEAN, fin : BOOLEAN]
    BY <1>1, <1>3
  <2> QED BY <2>1, <1>3, <1>4, <1>5 DEF FrameOf
<1>7. P \in Seq(FrameOf(BytesWritten')) /\ Len(P) = 1 /\ P[1] = f
  BY <1>2, <1>6
<1>8. Growing
  BY <1>3, <1>4 DEF Growing
<1>9. \A g \in FrameOf(BytesWritten) : \A i \in 1..Len(P) : Apart(g, P[i])
  <2>1. ASSUME NEW g \in FrameOf(BytesWritten) PROVE Apart(g, f)
    BY <1>5 DEF FrameOf, Apart
  <2> QED BY <2>1, <1>7
<1>10. Sendable(P, DOMAIN sentPackets)
  <2>1. \A p \in net : p.f \in FrameOf(BytesWritten)
    BY <1>3 DEF WireInv
  <2>2. \A s \in DOMAIN sentPackets : sentPackets[s] \in FrameOf(BytesWritten)
    BY <1>3, TrackedIsSent
  <2>3. \A j \in 1..Len(lostQueue') : lostQueue'[j] \in FrameOf(BytesWritten)
    BY <1>3, <1>4 DEF WireInv
  <2>4. \A i, j \in 1..Len(P) : i < j => End(P[i]) <= P[j].off
    BY <1>7
  <2>5. \A i \in 1..Len(P) : P[i] = f
    BY <1>7
  <2> QED BY <2>1, <2>2, <2>3, <2>4, <2>5, <1>4, <1>5, <1>7, <1>9 DEF Sendable
<1>11. Popped(0)
  <2>1. lostQueue \in Seq(FrameOf(BytesWritten))
    BY <1>3 DEF WireInv
  <2> QED BY <2>1, <1>4 DEF Popped
<1>12. Transmit(P, DOMAIN sentPackets)
  BY <1>1, <1>2 DEF Close
<1> QED BY <1>8, <1>10, <1>11, <1>12, SendStep

\* What stands for an outstanding frame may be sent when the frame itself is
\* neither kept nor queued.
LEMMA PartsSendable ==
    ASSUME SenderInv, NEW f \in FrameOf(BytesWritten), FinOK(f), NEW P, Divides(P, f, BytesWritten),
           BytesWritten' = BytesWritten, closed' = closed,
           NEW kept \in SUBSET DOMAIN sentPackets,
           NEW c, Popped(c),
           \A p \in net : Apart(p.f, f) \/ Within(f, p.f),
           \A s \in kept : Apart(sentPackets[s], f),
           \A j \in 1..Len(lostQueue') : Apart(lostQueue'[j], f)
    PROVE  Sendable(P, kept)
<1>1. WireInv /\ BytesWritten \in Nat
  BY Zenon DEF SenderInv, WireInv
<1>2. /\ P \in Seq(FrameOf(BytesWritten)) /\ P \in Seq(FrameOf(BytesWritten'))
      /\ \A i \in 1..Len(P) : P[i] \in FrameOf(BytesWritten) /\ Within(P[i], f)
  BY SMTT(20) DEF Divides
<1>3. ASSUME NEW i \in 1..Len(P), P[i].fin
      PROVE  closed' /\ P[i].data = <<>> /\ P[i].off = BytesWritten'
  <2>1. f.fin
    BY <1>3, Zenon DEF Divides
  <2>2. closed /\ f.data = <<>> /\ f.off = BytesWritten
    BY <2>1, Zenon DEF FinOK
  <2>3. P = <<f>>
    BY <2>2 DEF Divides
  <2>4. P[i] = f
    BY <2>3, SMTT(20)
  <2> QED BY <2>2, <2>4
<1>4. ASSUME NEW g \in FrameOf(BytesWritten), NEW i \in 1..Len(P)
      PROVE  (Apart(g, f) => Apart(g, P[i])) /\ (Within(f, g) => Within(P[i], g))
  BY <1>1, <1>2, PartsApart
<1>5. \A p \in net : p.f \in FrameOf(BytesWritten)
  BY <1>1 DEF WireInv
<1>6. \A s \in kept : sentPackets[s] \in FrameOf(BytesWritten)
  BY <1>1, TrackedIsSent
<1>7. \A j \in 1..Len(lostQueue') : lostQueue'[j] \in FrameOf(BytesWritten)
  BY DEF Popped
<1>8. \A i, j \in 1..Len(P) : i < j => End(P[i]) <= P[j].off
  BY DEF Divides
<1> QED BY <1>2, <1>3, <1>4, <1>5, <1>6, <1>7, <1>8, Zenon DEF Sendable

\* A probe takes the place of the packet it repeats.
LEMMA ProbeStep ==
    ASSUME SenderInv, OnPTO
    PROVE  SenderInv' /\ Growing
<1>1. PICK s \in OldestUnacked, d \in Datagrams :
        Transmit(fitToPath(sentPackets[s], d), DOMAIN sentPackets \ {s})
  BY Zenon DEF OnPTO
<1>2. s \in DOMAIN sentPackets
  BY Zenon DEF OldestUnacked
<1>3. WireInv /\ OutstandingApart /\ Nested /\ BytesWritten \in Nat /\ closed \in BOOLEAN
  BY DEF SenderInv, WireInv
<1>4. PICK f, P : f = sentPackets[s] /\ P = fitToPath(f, d)
  BY Zenon
<1>5. f \in FrameOf(BytesWritten) /\ FinOK(f)
  BY <1>2, <1>3, <1>4, TrackedIsSent
<1>6. Divides(P, f, BytesWritten)
  BY <1>3, <1>4, <1>5, FitDivides
<1>7. BytesWritten' = BytesWritten /\ closed' = closed /\ lostQueue' = lostQueue
  BY DEF OnPTO
<1>8. Growing
  BY <1>3, <1>7 DEF Growing
<1>9. Popped(0)
  <2>1. lostQueue \in Seq(FrameOf(BytesWritten))
    BY <1>3 DEF WireInv
  <2> QED BY <2>1, <1>7 DEF Popped
<1>10. /\ \A p \in net : Apart(p.f, f) \/ Within(f, p.f)
       /\ \A t \in DOMAIN sentPackets \ {s} : Apart(sentPackets[t], f)
  BY <1>2, <1>3, <1>4, Zenon DEF Nested, OutstandingApart
<1>11. \A j \in 1..Len(lostQueue') : Apart(lostQueue'[j], f)
  <2>1. \A j \in 1..Len(lostQueue) : Apart(f, lostQueue[j])
    BY <1>2, <1>3, <1>4, Zenon DEF OutstandingApart
  <2> QED BY <2>1, <1>7 DEF Apart
<1>12. Sendable(P, DOMAIN sentPackets \ {s})
  BY <1>5, <1>6, <1>7, <1>9, <1>10, <1>11, PartsSendable, Zenon
<1>13. Transmit(P, DOMAIN sentPackets \ {s})
  BY <1>1, <1>4
<1> QED BY <1>8, <1>9, <1>12, <1>13, SendStep

\* Some of what is tracked is let go of, and the queue is another one that
\* shares no byte with the rest and is within what was sent.
Requeued ==
    /\ UNCHANGED <<BytesWritten, closed, nextSeq, net>>
    /\ DOMAIN sentPackets' \subseteq DOMAIN sentPackets
    /\ \A s \in DOMAIN sentPackets' : sentPackets'[s] = sentPackets[s]
    /\ lostQueue' \in Seq(FrameOf(BytesWritten))
    /\ \A j \in 1..Len(lostQueue') :
        /\ FinOK(lostQueue'[j])
        /\ \A p \in net : Apart(p.f, lostQueue'[j]) \/ Within(lostQueue'[j], p.f)
        /\ \A s \in DOMAIN sentPackets' : Apart(sentPackets[s], lostQueue'[j])
    /\ \A i, j \in 1..Len(lostQueue') : i < j => Apart(lostQueue'[i], lostQueue'[j])

\* Such a step preserves the sender's invariant.
LEMMA RequeueStep ==
    ASSUME SenderInv, Requeued
    PROVE  SenderInv' /\ Growing
<1>1. WireInv /\ OutstandingApart /\ Nested
  BY DEF SenderInv
<1>2. WireInv'
  <2>1. /\ BytesWritten' \in Nat /\ closed' \in BOOLEAN /\ nextSeq' \in Nat
        /\ \A p, q \in net' : p.seq = q.seq => p.f = q.f
        /\ lostQueue' \in Seq(FrameOf(BytesWritten'))
    BY <1>1, Zenon DEF WireInv, Requeued
  <2>2. (\A p \in net : p.seq \in 0..(nextSeq - 1) /\ p.f \in FrameOf(BytesWritten) /\ FinOK(p.f))'
    BY <1>1 DEF WireInv, Requeued, FinOK
  <2>3. \A s \in DOMAIN sentPackets' : [seq |-> s, f |-> sentPackets'[s]] \in net'
    BY <1>1, Zenon DEF WireInv, Requeued
  <2>4. (\A j \in 1..Len(lostQueue) : FinOK(lostQueue[j]))'
    BY DEF Requeued, FinOK
  <2> QED BY <2>1, <2>2, <2>3, <2>4 DEF WireInv
<1>3. OutstandingApart'
  <2>1. \A s, t \in DOMAIN sentPackets' : s # t => Apart(sentPackets'[s], sentPackets'[t])
    BY <1>1 DEF OutstandingApart, Requeued
  <2>2. \A s \in DOMAIN sentPackets' : \A i \in 1..Len(lostQueue') : Apart(sentPackets'[s], lostQueue'[i])
    BY DEF Requeued
  <2>3. ASSUME NEW i \in 1..Len(lostQueue'), NEW j \in 1..Len(lostQueue'), i # j
        PROVE  Apart(lostQueue'[i], lostQueue'[j])
    <3>1. CASE i < j
      BY <3>1 DEF Requeued
    <3>2. CASE j < i
      <4>1. Apart(lostQueue'[j], lostQueue'[i])
        BY <3>2 DEF Requeued
      <4> QED BY <4>1 DEF Apart
    <3> QED BY <3>1, <3>2, <2>3
  <2> QED BY <2>1, <2>2, <2>3 DEF OutstandingApart
<1>4. Nested'
  <2>1. \A p, q \in net' : Apart(p.f, q.f) \/ Within(p.f, q.f) \/ Within(q.f, p.f)
    BY <1>1 DEF Nested, Requeued
  <2>2. \A p \in net' : \A s \in DOMAIN sentPackets' :
            Apart(p.f, sentPackets'[s]) \/ Within(sentPackets'[s], p.f)
    BY <1>1 DEF Nested, Requeued
  <2>3. \A p \in net' : \A i \in 1..Len(lostQueue') :
            Apart(p.f, lostQueue'[i]) \/ Within(lostQueue'[i], p.f)
    BY DEF Requeued
  <2> QED BY <2>1, <2>2, <2>3 DEF Nested
<1>5. Growing
  BY <1>1 DEF WireInv, Growing, Requeued
<1> QED BY <1>2, <1>3, <1>4, <1>5 DEF SenderInv

\* The tracked sequences are numbers.
LEMMA TrackedNat ==
    ASSUME WireInv
    PROVE  DOMAIN sentPackets \subseteq Nat
<1>1. DOMAIN sentPackets \subseteq 0..(nextSeq - 1)
  BY TrackedIsSent
<1>2. 0..(nextSeq - 1) \subseteq Nat
  OBVIOUS
<1> QED BY <1>1, <1>2

\* What is declared lost moves from the tracked packets to the queue.
LEMMA LossStep ==
    ASSUME SenderInv, NEW kept \in SUBSET DOMAIN sentPackets, NEW largest,
           DetectLost(kept, largest),
           UNCHANGED <<BytesWritten, closed, nextSeq, net>>
    PROVE  SenderInv' /\ Growing
<1>1. PICK lost \in SUBSET kept :
        /\ sentPackets' = [s \in kept \ lost |-> sentPackets[s]]
        /\ \E q \in Sorted(lost) : lostQueue' = lostQueue \o InOrder(q)
  BY Zenon DEF DetectLost
<1>2. WireInv /\ OutstandingApart /\ Nested
  BY DEF SenderInv
<1>3. lost \subseteq Int
  BY <1>2, TrackedNat
<1>4. PICK q \in Sorted(lost) : lostQueue' = lostQueue \o InOrder(q)
  BY <1>1, Zenon
<1> DEFINE n == Len(q)
           L == InOrder(q)
<1> HIDE DEF n, L
<1>5. /\ n \in Nat /\ q \in [1..n -> lost]
      /\ \A i, j \in 1..n : q[i] = q[j] => i = j
  BY <1>3, SortedLists, Zenon DEF n
<1>6. \A s \in DOMAIN sentPackets : sentPackets[s] \in FrameOf(BytesWritten) /\ FinOK(sentPackets[s])
  BY <1>2, TrackedIsSent
<1>7. L \in [1..n -> FrameOf(BytesWritten)] /\ \A i \in 1..n : q[i] \in lost /\ L[i] = sentPackets[q[i]]
  BY <1>3, <1>5, <1>6, SortedLists, Zenon DEF InOrder, L, n
<1>8. L \in Seq(FrameOf(BytesWritten)) /\ Len(L) = n
  BY <1>5, <1>7, IsSequence
<1>9. lostQueue \in Seq(FrameOf(BytesWritten)) /\ lostQueue' = lostQueue \o L
  BY <1>2, <1>4 DEF WireInv, L
<1>10. PICK m : m = Len(lostQueue)
  BY Zenon
<1>11. /\ m \in Nat /\ lostQueue' \in Seq(FrameOf(BytesWritten)) /\ Len(lostQueue') = m + n
       /\ \A j \in 1..Len(lostQueue') :
            \/ j \in 1..m /\ lostQueue'[j] = lostQueue[j]
            \/ j - m \in 1..n /\ lostQueue'[j] = L[j - m]
  <2>1. Joins(lostQueue', lostQueue, L, FrameOf(BytesWritten))
    BY <1>8, <1>9, ConcatJoins
  <2> QED BY <2>1, <1>8, <1>10, Zenon DEF Joins
<1>12. DOMAIN sentPackets' = kept \ lost /\ \A s \in kept \ lost : sentPackets'[s] = sentPackets[s]
  BY <1>1
<1>13. ASSUME NEW j \in 1..Len(lostQueue')
       PROVE  /\ FinOK(lostQueue'[j])
              /\ \A p \in net : Apart(p.f, lostQueue'[j]) \/ Within(lostQueue'[j], p.f)
              /\ \A s \in DOMAIN sentPackets' : Apart(sentPackets[s], lostQueue'[j])
  <2>1. CASE j \in 1..m /\ lostQueue'[j] = lostQueue[j]
    <3>1. FinOK(lostQueue[j]) /\ \A p \in net : Apart(p.f, lostQueue[j]) \/ Within(lostQueue[j], p.f)
      BY <2>1, <1>2, <1>10, Zenon DEF WireInv, Nested
    <3>2. \A s \in DOMAIN sentPackets' : Apart(sentPackets[s], lostQueue[j])
      BY <2>1, <1>2, <1>10, <1>12 DEF OutstandingApart
    <3> QED BY <2>1, <3>1, <3>2
  <2>2. CASE j - m \in 1..n /\ lostQueue'[j] = L[j - m]
    <3>1. PICK t \in lost : lostQueue'[j] = sentPackets[t]
      BY <2>2, <1>7
    <3>2. FinOK(sentPackets[t]) /\ \A p \in net : Apart(p.f, sentPackets[t]) \/ Within(sentPackets[t], p.f)
      BY <1>2, <1>6 DEF Nested
    <3>3. \A s \in DOMAIN sentPackets' : Apart(sentPackets[s], sentPackets[t])
      BY <1>2, <1>12 DEF OutstandingApart
    <3> QED BY <3>1, <3>2, <3>3, Zenon
  <2> QED BY <2>1, <2>2, <1>11
<1>14. ASSUME NEW i \in 1..Len(lostQueue'), NEW j \in 1..Len(lostQueue'), i < j
       PROVE  Apart(lostQueue'[i], lostQueue'[j])
  <2>1. CASE j \in 1..m /\ lostQueue'[j] = lostQueue[j]
    <3>1. i \in 1..m /\ lostQueue'[i] = lostQueue[i]
      <4>1. i - m \notin 1..n
        BY <2>1, <1>14, <1>11, <1>5
      <4> QED BY <4>1, <1>11
    <3>2. i # j
      BY <1>14
    <3> QED BY <2>1, <3>1, <3>2, <1>2, <1>10, Zenon DEF OutstandingApart
  <2>2. CASE j - m \in 1..n /\ lostQueue'[j] = L[j - m] /\ i \in 1..m /\ lostQueue'[i] = lostQueue[i]
    <3>1. PICK t \in lost : lostQueue'[j] = sentPackets[t]
      BY <2>2, <1>7
    <3>2. Apart(sentPackets[t], lostQueue[i])
      BY <2>2, <1>2, <1>10 DEF OutstandingApart
    <3> QED BY <3>1, <3>2, <2>2 DEF Apart
  <2>3. CASE j - m \in 1..n /\ lostQueue'[j] = L[j - m] /\ i - m \in 1..n /\ lostQueue'[i] = L[i - m]
    <3>1. q[i - m] # q[j - m]
      BY <2>3, <1>5, <1>11, <1>14
    <3>2. q[i - m] \in DOMAIN sentPackets /\ q[j - m] \in DOMAIN sentPackets
      BY <2>3, <1>7
    <3> QED BY <3>1, <3>2, <2>3, <1>2, <1>7 DEF OutstandingApart
  <2> QED BY <2>1, <2>2, <2>3, <1>11
<1>15. Requeued
  BY <1>11, <1>12, <1>13, <1>14, Zenon DEF Requeued
<1> QED BY <1>15, RequeueStep

\* The oldest lost frame leaves the queue to be sent again, or its pieces take
\* its place.
LEMMA FlushStep ==
    ASSUME SenderInv, FlushLost
    PROVE  SenderInv' /\ Growing
<1>1. PICK d \in Datagrams :
        LET frames == fitToPath(Head(lostQueue), d)
        IN  \/ /\ Len(frames) = 1
               /\ Transmit(frames, DOMAIN sentPackets)
               /\ lostQueue' = Tail(lostQueue)
            \/ /\ Len(frames) > 1
               /\ lostQueue' = frames \o Tail(lostQueue)
               /\ UNCHANGED <<nextSeq, sentPackets, net>>
  BY DEF FlushLost
<1>2. PICK f, P, R : f = Head(lostQueue) /\ P = fitToPath(f, d) /\ R = Tail(lostQueue)
  BY Zenon
<1>3. WireInv /\ OutstandingApart /\ Nested /\ BytesWritten \in Nat /\ closed \in BOOLEAN
  BY DEF SenderInv, WireInv
<1>4. lostQueue \in Seq(FrameOf(BytesWritten)) /\ lostQueue # <<>>
  BY <1>3 DEF WireInv, FlushLost
<1>5. PICK m \in Nat : m = Len(lostQueue)
  BY <1>4
<1>6. /\ R \in Seq(FrameOf(BytesWritten)) /\ 1 \in 1..m /\ f = lostQueue[1]
      /\ Len(R) = m - 1
      /\ \A j \in 1..Len(R) : j + 1 \in 1..m /\ R[j] = lostQueue[j + 1]
  BY <1>2, <1>4, <1>5, TailFacts
<1>7. f \in FrameOf(BytesWritten) /\ FinOK(f) /\ \A p \in net : Apart(p.f, f) \/ Within(f, p.f)
  BY <1>3, <1>4, <1>5, <1>6 DEF WireInv, Nested
<1>8. Divides(P, f, BytesWritten)
  BY <1>2, <1>3, <1>7, FitDivides
<1>9. BytesWritten' = BytesWritten /\ closed' = closed
  BY DEF FlushLost
<1>10. \A s \in DOMAIN sentPackets : Apart(sentPackets[s], f)
  BY <1>3, <1>5, <1>6, Zenon DEF OutstandingApart
<1>11. \A j \in 1..Len(R) : Apart(R[j], f)
  <2>1. ASSUME NEW j \in 1..Len(R) PROVE Apart(R[j], f)
    <3>1. \A x : \A i \in 1..x : i + 1 # 1
      OBVIOUS
    <3>2. j + 1 \in 1..m /\ j + 1 # 1
      BY <3>1, <1>6, Zenon
    <3> QED BY <3>2, <1>3, <1>5, <1>6, Zenon DEF OutstandingApart
  <2> QED BY <2>1
<1>12. CASE Transmit(P, DOMAIN sentPackets) /\ lostQueue' = R
  <2>1. Popped(1)
    BY <1>12, <1>5, <1>6 DEF Popped
  <2>2. Growing
    BY <1>3, <1>9 DEF Growing
  <2>3. Sendable(P, DOMAIN sentPackets)
    BY <2>1, <1>7, <1>8, <1>9, <1>10, <1>11, <1>12, PartsSendable, Zenon
  <2> QED BY <2>1, <2>2, <2>3, <1>12, SendStep
<1>13. CASE lostQueue' = P \o R /\ UNCHANGED <<nextSeq, sentPackets, net>>
  <2>1. P \in Seq(FrameOf(BytesWritten)) /\ \A i \in 1..Len(P) : P[i] \in FrameOf(BytesWritten)
    BY <1>8, SMTT(20) DEF Divides
  <2>2. PICK n \in Nat : n = Len(P)
    BY <2>1
  <2>3. Joins(lostQueue', P, R, FrameOf(BytesWritten))
    BY <2>1, <1>6, <1>13, ConcatJoins, Zenon
  <2>5. ASSUME NEW i \in 1..n
        PROVE  /\ FinOK(P[i])
               /\ \A p \in net : Apart(p.f, P[i]) \/ Within(P[i], p.f)
               /\ \A s \in DOMAIN sentPackets : Apart(sentPackets[s], P[i])
               /\ \A j \in 1..Len(R) : Apart(R[j], P[i])
    <3>1. P[i] \in FrameOf(BytesWritten) /\ Within(P[i], f)
      BY <2>1, <2>2, <1>8 DEF Divides
    <3>2. \A g \in FrameOf(BytesWritten) :
            (Apart(g, f) => Apart(g, P[i])) /\ (Within(f, g) => Within(P[i], g))
      BY <3>1, <1>3, <1>7, PartsApart, Zenon
    <3>3. \A p \in net : p.f \in FrameOf(BytesWritten)
      BY <1>3, Zenon DEF WireInv
    <3>4. \A s \in DOMAIN sentPackets : sentPackets[s] \in FrameOf(BytesWritten)
      BY <1>3, TrackedIsSent
    <3>5. \A j \in 1..Len(R) : R[j] \in FrameOf(BytesWritten)
      BY <1>6
    <3>6. FinOK(P[i])
      <4>1. ASSUME P[i].fin PROVE closed /\ P[i].data = <<>> /\ P[i].off = BytesWritten
        <5>1. f.fin
          BY <4>1, <2>2, <1>8 DEF Divides
        <5>2. closed /\ f.data = <<>> /\ f.off = BytesWritten
          BY <5>1, <1>7 DEF FinOK
        <5>3. P = <<f>>
          BY <5>2, <1>8 DEF Divides
        <5>4. P[i] = f
          BY <5>3, <2>2
        <5> QED BY <5>2, <5>4
      <4> QED BY <4>1 DEF FinOK
    <3> QED BY <3>2, <3>3, <3>4, <3>5, <3>6, <1>7, <1>10, <1>11, Zenon
  <2>6. ASSUME NEW j \in 1..Len(R)
        PROVE  /\ FinOK(R[j])
               /\ \A p \in net : Apart(p.f, R[j]) \/ Within(R[j], p.f)
               /\ \A s \in DOMAIN sentPackets : Apart(sentPackets[s], R[j])
    BY <1>3, <1>5, <1>6, Zenon DEF WireInv, Nested, OutstandingApart
  <2>7. ASSUME NEW i \in 1..Len(lostQueue'), NEW j \in 1..Len(lostQueue'), i < j
        PROVE  Apart(lostQueue'[i], lostQueue'[j])
    <3>1. /\ \/ i \in 1..n /\ lostQueue'[i] = P[i]
             \/ i - n \in 1..Len(R) /\ lostQueue'[i] = R[i - n]
          /\ \/ j \in 1..n /\ lostQueue'[j] = P[j]
             \/ j - n \in 1..Len(R) /\ lostQueue'[j] = R[j - n]
          /\ i \in Nat /\ j \in Nat
      <4>1. \A k \in 1..Len(lostQueue') : \/ k \in 1..n /\ lostQueue'[k] = P[k]
                                          \/ k - n \in 1..Len(R) /\ lostQueue'[k] = R[k - n]
        BY <2>2, <2>3, Zenon DEF Joins
      <4>2. Len(P) \in Nat /\ Len(R) \in Nat /\ Len(lostQueue') = Len(P) + Len(R)
        BY <2>3, Zenon DEF Joins
      <4>3. i \in Nat /\ j \in Nat
        BY <4>2
      <4> QED BY <4>1, <4>3, Zenon
    <3>2. CASE j \in 1..n /\ lostQueue'[j] = P[j]
      <4>1. i \in 1..n /\ lostQueue'[i] = P[i]
        <5>1. i - n \notin 1..Len(R)
          BY <3>1, <3>2, <2>7, <1>6
        <5> QED BY <5>1, <3>1
      <4> QED BY <4>1, <3>2, <2>2, <2>7, <1>8 DEF Divides, Apart
    <3>3. CASE i \in 1..n /\ lostQueue'[i] = P[i] /\ j - n \in 1..Len(R) /\ lostQueue'[j] = R[j - n]
      <4>1. Apart(R[j - n], P[i])
        BY <3>3, <2>5
      <4> QED BY <4>1, <3>3 DEF Apart
    <3>4. CASE i - n \in 1..Len(R) /\ lostQueue'[i] = R[i - n] /\ j - n \in 1..Len(R) /\ lostQueue'[j] = R[j - n]
      <4>1. PICK a, b : a = i - n + 1 /\ b = j - n + 1
        BY Zenon
      <4>2. /\ a \in 1..m /\ R[i - n] = lostQueue[a]
            /\ b \in 1..m /\ R[j - n] = lostQueue[b]
        BY <4>1, <3>4, <1>6
      <4>3. a # b
        BY <4>1, <3>1, <2>7
      <4> QED BY <4>2, <4>3, <3>4, <1>3, <1>5 DEF OutstandingApart
    <3> QED BY <3>1, <3>2, <3>3, <3>4, Zenon
  <2>8. Requeued
    <3>1. UNCHANGED <<BytesWritten, closed, nextSeq, net, sentPackets>>
      BY <1>9, <1>13
    <3>2. lostQueue' \in Seq(FrameOf(BytesWritten))
      BY <2>3 DEF Joins
    <3>3. ASSUME NEW j \in 1..Len(lostQueue')
          PROVE  /\ FinOK(lostQueue'[j])
                 /\ \A p \in net : Apart(p.f, lostQueue'[j]) \/ Within(lostQueue'[j], p.f)
                 /\ \A s \in DOMAIN sentPackets' : Apart(sentPackets[s], lostQueue'[j])
      <4>1. \/ j \in 1..n /\ lostQueue'[j] = P[j]
            \/ j - n \in 1..Len(R) /\ lostQueue'[j] = R[j - n]
        BY <2>2, <2>3 DEF Joins
      <4> QED BY <4>1, <2>5, <2>6, <3>1, Zenon
    <3> QED BY <3>1, <3>2, <3>3, <2>7, Zenon DEF Requeued
  <2> QED BY <2>8, RequeueStep
<1> QED BY <1>1, <1>2, <1>12, <1>13, Zenon

\* Every step of either side preserves the sender's invariant.
LEMMA SenderStep ==
    ASSUME SenderInv, [Next]_vars
    PROVE  SenderInv' /\ Growing
<1>1. CASE Write
  BY <1>1, WriteStep
<1>2. CASE Close
  BY <1>2, CloseStep
<1>3. ASSUME NEW a \in acks, HandleAck(a) PROVE SenderInv' /\ Growing
  BY <1>3, LossStep DEF HandleAck
<1>4. CASE LossTimer
  BY <1>4, LossStep DEF LossTimer
<1>5. CASE FlushLost
  BY <1>5, FlushStep
<1>6. CASE OnPTO
  BY <1>6, ProbeStep
<1>7. CASE UNCHANGED <<sendVars, net>>
  <2>1. Requeued
    <3>1. UNCHANGED <<BytesWritten, closed, nextSeq, net, sentPackets, lostQueue>>
      BY <1>7 DEF sendVars
    <3>2. /\ DOMAIN sentPackets' = DOMAIN sentPackets /\ lostQueue' = lostQueue
          /\ \A s \in DOMAIN sentPackets' : sentPackets'[s] = sentPackets[s]
      BY <3>1
    <3>3. /\ lostQueue \in Seq(FrameOf(BytesWritten))
          /\ \A j \in 1..Len(lostQueue) :
                /\ FinOK(lostQueue[j])
                /\ \A p \in net : Apart(p.f, lostQueue[j]) \/ Within(lostQueue[j], p.f)
                /\ \A s \in DOMAIN sentPackets : Apart(sentPackets[s], lostQueue[j])
      BY Zenon DEF SenderInv, WireInv, OutstandingApart, Nested
    <3>4. \A i, j \in 1..Len(lostQueue) : i < j => Apart(lostQueue[i], lostQueue[j])
      <4>1. ASSUME NEW i \in 1..Len(lostQueue), NEW j \in 1..Len(lostQueue), i < j PROVE i # j
        BY <4>1
      <4> QED BY <4>1, Zenon DEF SenderInv, OutstandingApart
    <3> QED BY <3>1, <3>2, <3>3, <3>4, Zenon DEF Requeued
  <2> QED BY <2>1, RequeueStep
<1>8. ASSUME \/ \E p \in net : HandlePacket(p)
             \/ AckTimer \/ Read \/ ReadEOF
             \/ UNCHANGED vars
      PROVE  UNCHANGED <<sendVars, net>>
  BY <1>8 DEF HandlePacket, AckTimer, Read, ReadEOF, vars
<1> QED BY <1>1, <1>2, <1>3, <1>4, <1>5, <1>6, <1>7, <1>8 DEF Next

-----------------------------------------------------------------------------
(***************************************************************************)
(* The receiver's invariant.                                               *)
(***************************************************************************)

\* The buffer is in order, and what waits out of order came off the wire.
BufferInv ==
    /\ recvOffset \in Nat /\ BytesRead \in 0..recvOffset
    /\ recvBuf \in Seq(Nat)
    /\ InOrderDelivery
    /\ \A o \in DOMAIN recvOOO :
        \E p \in net : p.f.off = o /\ p.f.data = recvOOO[o] /\ p.f.data # <<>>

\* d is a chunk of the stream at offset o.
ChunkAt(o, d) ==
    /\ o \in Nat /\ d \in Seq(Nat) /\ Len(d) \in Nat /\ Len(d) > 0
    /\ o + Len(d) <= BytesWritten
    /\ \A i \in 1..Len(d) : d[i] = o + (i - 1)

\* What waits out of order is a chunk of the stream.
LEMMA WaitingChunks ==
    ASSUME SenderInv, BufferInv, NEW o \in DOMAIN recvOOO
    PROVE  ChunkAt(o, recvOOO[o])
<1>1. PICK p \in net : p.f.off = o /\ p.f.data = recvOOO[o] /\ p.f.data # <<>>
  BY DEF BufferInv
<1>2. p.f \in FrameOf(BytesWritten)
  BY Zenon DEF SenderInv, WireInv
<1>3. PICK d : d = recvOOO[o]
  BY Zenon
<1>4. /\ o \in Nat /\ d \in Seq(Nat) /\ d # <<>>
      /\ o + Len(d) <= BytesWritten
      /\ \A i \in 1..Len(d) : d[i] = o + (i - 1)
  BY <1>1, <1>2, <1>3, Zenon DEF FrameOf, End
<1> QED BY <1>3, <1>4 DEF ChunkAt

\* q holds the first n bytes of the stream.
HoldsFirst(q, n) == q \in Seq(Nat) /\ Len(q) = n /\ \A i \in 1..n : q[i] = i - 1

\* Appending a frame that reaches the gap, and the chunks released by it,
\* leaves the buffer in order.
LEMMA AppendInOrder ==
    ASSUME SenderInv, BufferInv, NEW f \in FrameOf(BytesWritten),
           NEW end, end = f.off + Len(f.data),
           f.off <= recvOffset, recvOffset < end,
           NEW T \in SUBSET DOMAIN recvOOO,
           NEW e \in {end} \cup {t + Len(recvOOO[t]) : t \in T},
           Released(end, T, e)
    PROVE  /\ e \in Nat /\ end <= e /\ e <= BytesWritten
           /\ HoldsFirst(appended(f, T, e), e)
<1>1. recvOffset \in Nat /\ BytesWritten \in Nat /\ \A i \in 1..recvOffset : recvBuf[i] = i - 1
  BY Zenon DEF BufferInv, InOrderDelivery, SenderInv, WireInv
<1>2. PICK o \in Nat, n \in Nat : /\ o = f.off /\ n = Len(f.data) /\ end = o + n /\ end <= BytesWritten
                                  /\ o <= recvOffset
                                  /\ \A i \in 1..n : f.data[i] = o + (i - 1)
  <2>1. /\ f.off \in Nat /\ Len(f.data) \in Nat /\ f.off + Len(f.data) <= BytesWritten
        /\ \A i \in 1..Len(f.data) : f.data[i] = f.off + (i - 1)
    <3>1. BytesWritten \in Nat
      BY Zenon DEF SenderInv, WireInv
    <3> QED BY <3>1, FrameFacts, Zenon
  <2> QED BY <2>1, Zenon
<1>3. \A t \in T : ChunkAt(t, recvOOO[t])
  BY WaitingChunks
<1>4. e \in Nat /\ e <= BytesWritten
  <2>1. CASE e = end
    BY <2>1, <1>2
  <2>2. ASSUME NEW t \in T, e = t + Len(recvOOO[t]) PROVE e \in Nat /\ e <= BytesWritten
    BY <2>2, <1>3 DEF ChunkAt
  <2> QED BY <2>1, <2>2
<1>5. end <= e
  <2>1. end \in T \/ end = e
    BY DEF Released
  <2>2. end \in T => end < e
    BY DEF Released
  <2> QED BY <2>1, <2>2, <1>2, <1>4
<1>6. ASSUME NEW i \in 1..e
      PROVE  (IF i <= recvOffset THEN recvBuf[i]
              ELSE IF i <= f.off + Len(f.data) THEN f.data[i - f.off]
              ELSE LET t == CHOOSE t \in T : t < i /\ i <= t + Len(recvOOO[t])
                   IN  recvOOO[t][i - t]) = i - 1
  <2>1. CASE i <= recvOffset
    BY <2>1, <1>1, <1>4
  <2>2. CASE ~(i <= recvOffset) /\ i <= end
    <3>1. PICK k : k = i - o
      BY Zenon
    <3>0. i \in Nat /\ recvOffset < i /\ i <= o + n /\ o <= recvOffset
      BY <2>2, <1>1, <1>2, <1>4
    <3>2. k \in 1..n /\ o + (k - 1) = i - 1
      <4>1. recvOffset \in Nat /\ o \in Nat /\ n \in Nat
        BY <1>1, <1>2, Zenon
      <4> QED BY <4>1, <3>0, <3>1
    <3>3. f.data[k] = i - 1
      BY <3>2, <1>2
    <3> QED BY <2>2, <3>1, <3>3, <1>2
  <2>3. CASE ~(i <= recvOffset) /\ ~(i <= end)
    <3>1. i - 1 \in end..(e - 1)
      BY <2>3, <1>2, <1>4
    <3>2. PICK u \in T : u <= i - 1 /\ i - 1 < u + Len(recvOOO[u])
      BY <3>1 DEF Released
    <3>3. u < i /\ i <= u + Len(recvOOO[u])
      BY <3>2, <1>3, <1>4 DEF ChunkAt
    <3>4. PICK t : t = CHOOSE v \in T : v < i /\ i <= v + Len(recvOOO[v])
      BY Zenon
    <3>5. t \in T /\ t < i /\ i <= t + Len(recvOOO[t])
      BY <3>3, <3>4
    <3>6. PICK d : d = recvOOO[t]
      BY Zenon
    <3>7. ChunkAt(t, d)
      BY <3>5, <3>6, <1>3
    <3>8. i - t \in 1..Len(d)
      BY <3>5, <3>6, <3>7, <1>4 DEF ChunkAt
    <3>9. d[i - t] = i - 1
      BY <3>7, <3>8, <1>4 DEF ChunkAt
    <3> QED BY <2>3, <3>4, <3>6, <3>9
  <2> QED BY <2>1, <2>2, <2>3, Zenon
<1>7. PICK q : q = appended(f, T, e)
  BY Zenon
<1>8. \A i \in 1..e : q[i] = i - 1
  BY <1>6, <1>7 DEF appended
<1>9. q \in [1..e -> Nat]
  <2>1. DOMAIN q = 1..e /\ q = [i \in 1..e |-> q[i]]
    BY <1>7 DEF appended
  <2> QED BY <2>1, <1>8, <1>4
<1>10. q \in Seq(Nat) /\ Len(q) = e
  BY <1>4, <1>9, IsSequence
<1> QED BY <1>4, <1>5, <1>7, <1>8, <1>10 DEF HoldsFirst

\* Wherever the bytes of a frame go, the buffer stays in order.
LEMMA PlaceStep ==
    ASSUME SenderInv, BufferInv, NEW p \in net, NEW accepted, placeLocked(p.f, accepted),
           UNCHANGED <<sendVars, net, BytesRead>>
    PROVE  BufferInv' /\ recvOffset <= recvOffset'
<1>0. PICK f, end : f = p.f /\ end = f.off + Len(f.data)
  BY Zenon
<1>1. f \in FrameOf(BytesWritten) /\ BytesWritten' = BytesWritten /\ net' = net /\ BytesRead' = BytesRead
  BY <1>0, Zenon DEF SenderInv, WireInv, sendVars
<1>2. recvOffset \in Nat /\ BytesRead \in 0..recvOffset /\ recvBuf \in Seq(Nat) /\ InOrderDelivery
  BY Zenon DEF BufferInv
<1>3. CASE UNCHANGED <<recvBuf, recvOffset, recvOOO>>
  BY <1>1, <1>2, <1>3 DEF BufferInv, InOrderDelivery
<1>4. CASE /\ f.data # <<>>
           /\ recvOOO' = [o \in DOMAIN recvOOO \cup {f.off} |-> IF o = f.off THEN f.data ELSE recvOOO[o]]
           /\ UNCHANGED <<recvBuf, recvOffset>>
  <2>1. ASSUME NEW o \in DOMAIN recvOOO'
        PROVE  \E q \in net' : q.f.off = o /\ q.f.data = recvOOO'[o] /\ q.f.data # <<>>
    <3>1. CASE o = f.off
      BY <3>1, <1>0, <1>1, <1>4, Zenon
    <3>2. CASE o # f.off
      <4>1. o \in DOMAIN recvOOO /\ recvOOO'[o] = recvOOO[o]
        BY <3>2, <1>4, Zenon
      <4>2. PICK q \in net : q.f.off = o /\ q.f.data = recvOOO[o] /\ q.f.data # <<>>
        BY <4>1, Zenon DEF BufferInv
      <4> QED BY <4>1, <4>2, <1>1, Zenon
    <3> QED BY <3>1, <3>2
  <2>2. /\ recvOffset' \in Nat /\ BytesRead' \in 0..recvOffset' /\ recvBuf' \in Seq(Nat)
        /\ recvOffset <= recvOffset'
    BY <1>1, <1>2, <1>4
  <2>3. InOrderDelivery'
    BY <1>1, <1>2, <1>4 DEF InOrderDelivery
  <2> QED BY <2>1, <2>2, <2>3, Zenon DEF BufferInv
<1>5. ASSUME f.off <= recvOffset, recvOffset < end,
             NEW T \in SUBSET DOMAIN recvOOO,
             NEW e \in {end} \cup {t + Len(recvOOO[t]) : t \in T},
             Released(end, T, e), recvOffset' = e, recvBuf' = appended(f, T, e),
             recvOOO' = [o \in DOMAIN recvOOO \ T |-> recvOOO[o]]
      PROVE  BufferInv' /\ recvOffset <= recvOffset'
  <2>1. /\ e \in Nat /\ end <= e /\ e <= BytesWritten
        /\ HoldsFirst(recvBuf', e)
    BY <1>0, <1>1, <1>5, AppendInOrder, Zenon
  <2>2. f.off \in Nat /\ Len(f.data) \in Nat
    BY <1>1 DEF FrameOf
  <2>3. recvOffset <= recvOffset'
    BY <2>1, <2>2, <1>0, <1>2, <1>5, SMTT(20)
  <2>4. BytesRead' \in 0..recvOffset'
    BY <2>1, <2>3, <1>1, <1>2, <1>5, SMTT(20)
  <2>5. ASSUME NEW o \in DOMAIN recvOOO'
        PROVE  \E q \in net' : q.f.off = o /\ q.f.data = recvOOO'[o] /\ q.f.data # <<>>
    <3>1. o \in DOMAIN recvOOO /\ recvOOO'[o] = recvOOO[o]
      BY <1>5, Zenon
    <3> QED BY <3>1, <1>1 DEF BufferInv
  <2> QED BY <2>1, <2>3, <2>4, <2>5, <1>1, <1>5, Zenon DEF BufferInv, InOrderDelivery, HoldsFirst
<1> QED
  <2>1. \/ UNCHANGED <<recvBuf, recvOffset, recvOOO>>
        \/ /\ f.data # <<>>
           /\ recvOOO' = [o \in DOMAIN recvOOO \cup {f.off} |-> IF o = f.off THEN f.data ELSE recvOOO[o]]
           /\ UNCHANGED <<recvBuf, recvOffset>>
        \/ /\ f.off <= recvOffset /\ recvOffset < end
           /\ \E T \in SUBSET DOMAIN recvOOO :
              \E e \in {end} \cup {t + Len(recvOOO[t]) : t \in T} :
                /\ Released(end, T, e) /\ recvOffset' = e /\ recvBuf' = appended(f, T, e)
                /\ recvOOO' = [o \in DOMAIN recvOOO \ T |-> recvOOO[o]]
    BY <1>0, Zenon DEF placeLocked
  <2> QED BY <2>1, <1>2, <1>3, <1>4, <1>5, Zenon

\* The end of the stream is known from a FIN, and reported after the last byte.
EndInv ==
    /\ finSeen \in BOOLEAN /\ finReceived \in BOOLEAN /\ eof \in BOOLEAN
    /\ finSeen => closed /\ finalSize = BytesWritten
    /\ finReceived => finSeen /\ recvOffset = BytesWritten
    /\ eof => finReceived /\ BytesRead = recvOffset

\* A packet that arrives, for the first time or again, leaves the buffer in
\* order and its end where it is.
LEMMA ArrivalStep ==
    ASSUME SenderInv, BufferInv, EndInv, NEW p \in net, HandlePacket(p)
    PROVE  BufferInv' /\ EndInv' /\ recvOffset <= recvOffset'
<1>1. UNCHANGED <<sendVars, net, BytesRead, eof>>
  BY DEF HandlePacket, HandleStreamFrame
<1>2. BytesWritten' = BytesWritten /\ closed' = closed /\ net' = net /\ BytesRead' = BytesRead /\ eof' = eof
  BY <1>1 DEF sendVars
<1>3. CASE ~opened'
  <2>1. UNCHANGED <<recvBuf, recvOffset, recvOOO, finSeen, finReceived, finalSize>>
    BY <1>3 DEF HandlePacket, HandleStreamFrame
  <2>2. BufferInv' /\ recvOffset <= recvOffset'
    BY <2>1, <1>2 DEF BufferInv, InOrderDelivery
  <2>3. EndInv'
    BY <2>1, <1>2 DEF EndInv
  <2> QED BY <2>2, <2>3
<1>4. CASE opened'
  <2>1. Deliver(p.f)
    BY <1>4 DEF HandlePacket, HandleStreamFrame
  <2>2. PICK accepted \in 0..Len(p.f.data) :
            /\ placeLocked(p.f, accepted)
            /\ finSeen' = (finSeen \/ p.f.fin)
            /\ finalSize' = IF p.f.fin THEN p.f.off + Len(p.f.data) ELSE finalSize
            /\ finReceived' =
                \/ finReceived
                \/ /\ p.f.fin \/ (accepted > 0 /\ ~flowControlViolation')
                   /\ finishes(finSeen', finalSize', recvOffset')
    BY <2>1, Zenon DEF Deliver
  <2>3. BufferInv' /\ recvOffset <= recvOffset'
    BY <2>2, <1>1, PlaceStep, Zenon
  <2>4. /\ recvOffset' \in Nat /\ recvOffset' <= BytesWritten
        /\ recvOffset \in Nat /\ recvOffset <= BytesWritten /\ BytesWritten \in Nat
    BY <2>3, <1>2, Zenon DEF BufferInv, InOrderDelivery, SenderInv, WireInv
  <2>5. p.f.fin => closed /\ p.f.off + Len(p.f.data) = BytesWritten
    <3>1. Len(<<>>) = 0
      OBVIOUS
    <3>2. p.f.fin => closed /\ p.f.data = <<>> /\ p.f.off = BytesWritten
      BY Zenon DEF SenderInv, WireInv, FinOK
    <3> QED BY <3>1, <3>2, <2>4
  <2>6. p.f.fin \in BOOLEAN
    BY DEF SenderInv, WireInv, FrameOf
  <2>7. finSeen' \in BOOLEAN /\ finReceived' \in BOOLEAN /\ eof' \in BOOLEAN
    BY <2>2, <2>6, <1>2 DEF EndInv, finishes
  <2>8. finSeen' => closed' /\ finalSize' = BytesWritten'
    BY <2>2, <2>5, <1>2, Zenon DEF EndInv
  <2>9. ASSUME finReceived' PROVE finSeen' /\ recvOffset' = BytesWritten'
    <3>1. CASE finReceived
      <4>1. finSeen /\ recvOffset = BytesWritten
        BY <3>1 DEF EndInv
      <4>2. finSeen'
        BY <4>1, <2>2, Zenon
      <4>3. recvOffset' = BytesWritten
        BY <4>1, <2>3, <2>4
      <4> QED BY <4>2, <4>3, <1>2
    <3>2. CASE finSeen' /\ recvOffset' >= finalSize'
      BY <3>2, <2>4, <2>8, <1>2
    <3> QED BY <2>9, <3>1, <3>2, <2>2, Zenon DEF finishes
  <2>10. ASSUME eof' PROVE finReceived' /\ BytesRead' = recvOffset'
    <3>1. finReceived /\ BytesRead = recvOffset /\ recvOffset = BytesWritten
      BY <2>10, <1>2 DEF EndInv
    <3> QED BY <3>1, <2>2, <2>3, <2>4, <1>2
  <2>11. EndInv'
    BY <2>7, <2>8, <2>9, <2>10 DEF EndInv
  <2> QED BY <2>3, <2>11
<1> QED BY <1>3, <1>4

\* Every step leaves the buffer in order and its end where it is.
LEMMA ReceiverStep ==
    ASSUME SenderInv, BufferInv, EndInv, [Next]_vars
    PROVE  BufferInv' /\ EndInv'
<1>1. Growing /\ net \subseteq net'
  <2>1. Growing /\ WireInv /\ WireInv'
    BY SenderStep DEF SenderInv
  <2>2. net \subseteq net'
    <3>1. ASSUME NEW frames, NEW kept, Transmit(frames, kept) PROVE net \subseteq net'
      BY <3>1 DEF Transmit
    <3>2. CASE Write \/ Close \/ OnPTO \/ FlushLost
      BY <3>1, <3>2, Zenon DEF Write, Close, OnPTO, FlushLost
    <3>3. CASE (\E a \in acks : HandleAck(a)) \/ LossTimer
      BY <3>3, Zenon DEF HandleAck, LossTimer
    <3>4. CASE (\E p \in net : HandlePacket(p)) \/ AckTimer \/ Read \/ ReadEOF \/ UNCHANGED vars
      BY <3>4 DEF HandlePacket, AckTimer, Read, ReadEOF, vars
    <3> QED BY <3>2, <3>3, <3>4 DEF Next
  <2> QED BY <2>1, <2>2
<1>2. BytesWritten \in Nat /\ closed \in BOOLEAN
  BY DEF SenderInv, WireInv
<1>3. CASE UNCHANGED recvVars
  <2>1. UNCHANGED <<recvBuf, BytesRead, recvOffset, recvOOO, finSeen, finReceived, finalSize, eof>>
    BY <1>3 DEF recvVars, streamVars
  <2>2. BufferInv'
    BY <2>1, <1>1, <1>2 DEF BufferInv, InOrderDelivery, Growing
  <2>3. EndInv'
    BY <2>1, <1>1 DEF EndInv, Growing
  <2> QED BY <2>2, <2>3
<1>4. CASE AckTimer
  <2>1. UNCHANGED <<recvBuf, BytesRead, recvOffset, recvOOO, finSeen, finReceived, finalSize, eof>>
    BY <1>4 DEF AckTimer, streamVars
  <2>2. BufferInv'
    BY <2>1, <1>1, <1>2 DEF BufferInv, InOrderDelivery, Growing
  <2>3. EndInv'
    BY <2>1, <1>1 DEF EndInv, Growing
  <2> QED BY <2>2, <2>3
<1>5. CASE Read
  <2>1. UNCHANGED <<BytesWritten, closed, net, recvBuf, recvOffset, recvOOO, finSeen, finReceived, finalSize, eof>>
    BY <1>5 DEF Read, sendVars
  <2>2. PICK z \in BufferSizes : BytesRead' = BytesRead + Lesser(z, recvOffset - BytesRead)
    BY <1>5 DEF Read
  <2>3. z \in Nat /\ BytesRead \in 0..recvOffset /\ recvOffset \in Nat /\ recvOffset > BytesRead
    BY <1>5, SizeAssumption DEF Read, BufferInv
  <2>4. BytesRead' \in 0..recvOffset
    BY <2>2, <2>3 DEF Lesser
  <2>5. ~eof
    BY <2>3 DEF EndInv
  <2>6. BufferInv'
    BY <2>1, <2>4 DEF BufferInv, InOrderDelivery
  <2>7. EndInv'
    BY <2>1, <2>5 DEF EndInv
  <2> QED BY <2>6, <2>7
<1>6. CASE ReadEOF
  <2>1. /\ UNCHANGED <<BytesWritten, closed, net, recvBuf, BytesRead, recvOffset, recvOOO, finSeen,
                       finReceived, finalSize>>
        /\ eof' = TRUE /\ finReceived /\ BytesRead = recvOffset
    BY <1>6 DEF ReadEOF, sendVars
  <2>2. BufferInv'
    BY <2>1 DEF BufferInv, InOrderDelivery
  <2>3. EndInv'
    BY <2>1 DEF EndInv
  <2> QED BY <2>2, <2>3
<1>7. ASSUME NEW p \in net, HandlePacket(p) PROVE BufferInv' /\ EndInv'
  BY <1>7, ArrivalStep
<1>8. ASSUME Write \/ Close \/ (\E a \in acks : HandleAck(a)) \/ LossTimer \/ FlushLost \/ OnPTO
             \/ UNCHANGED vars
      PROVE  UNCHANGED recvVars
  BY <1>8, Zenon DEF Write, Close, HandleAck, LossTimer, FlushLost, OnPTO, vars
<1> QED BY <1>3, <1>4, <1>5, <1>6, <1>7, <1>8 DEF Next

-----------------------------------------------------------------------------
(***************************************************************************)
(* Delivery in order, and the byte stream implemented.                     *)
(***************************************************************************)
DeliveryInv == SenderInv /\ BufferInv /\ EndInv

\* Nothing written, nothing sent, nothing received.
LEMMA DeliveryInit == Init => DeliveryInv
<1> SUFFICES ASSUME Init PROVE DeliveryInv
  OBVIOUS
<1>1. DOMAIN sentPackets = {} /\ DOMAIN recvOOO = {} /\ Len(lostQueue) = 0 /\ Len(recvBuf) = 0
  BY DEF Init
<1>2. SenderInv
  <2>1. lostQueue \in Seq(FrameOf(BytesWritten))
    BY DEF Init
  <2>2. WireInv
    <3>1. BytesWritten = 0 /\ closed = FALSE /\ nextSeq = 0 /\ net = {}
      BY DEF Init
    <3>2. /\ \A p \in net : p.seq \in 0..(nextSeq - 1) /\ p.f \in FrameOf(BytesWritten) /\ FinOK(p.f)
          /\ \A p, q \in net : p.seq = q.seq => p.f = q.f
      BY <3>1
    <3>3. \A s \in DOMAIN sentPackets : [seq |-> s, f |-> sentPackets[s]] \in net
      BY <1>1
    <3>4. \A i \in 1..Len(lostQueue) : FinOK(lostQueue[i])
      BY <1>1
    <3> QED BY <3>1, <3>2, <3>3, <3>4, <2>1, Zenon DEF WireInv
  <2>3. OutstandingApart /\ Nested
    BY <1>1 DEF Init, OutstandingApart, Nested
  <2> QED BY <2>2, <2>3 DEF SenderInv
<1>3. BufferInv
  BY <1>1 DEF Init, BufferInv, InOrderDelivery
<1>4. EndInv
  BY Zenon DEF Init, EndInv
<1> QED BY <1>2, <1>3, <1>4 DEF DeliveryInv

\* Every step preserves it.
LEMMA DeliveryStep == DeliveryInv /\ [Next]_vars => DeliveryInv'
  BY SenderStep, ReceiverStep DEF DeliveryInv

\* The receive buffer holds the bytes written, each once and in its place,
\* whatever the network does with the packets, for every window, datagram size
\* and number of packets (HandlePacket, placeLocked, fitToPath).
THEOREM DeliversInOrder == Spec => []InOrderDelivery
<1>1. DeliveryInv => InOrderDelivery
  BY DEF DeliveryInv, BufferInv
<1> QED BY <1>1, DeliveryInit, DeliveryStep, PTL DEF Spec

\* The first n bytes of the stream.
FirstBytes(n) == [i \in 1..n |-> i - 1]

\* They are a sequence, and one such sequence is a prefix of a longer one.
LEMMA FirstBytesFacts ==
    ASSUME NEW m \in Nat, NEW n \in Nat
    PROVE  /\ FirstBytes(n) \in Seq(Nat) /\ Len(FirstBytes(n)) = n
           /\ FirstBytes(0) = <<>>
           /\ m <= n => Pipe!IsPrefixOf(FirstBytes(m), FirstBytes(n))
<1>1. ASSUME NEW k \in Nat
      PROVE  /\ FirstBytes(k) \in Seq(Nat) /\ Len(FirstBytes(k)) = k
             /\ \A i \in 1..k : FirstBytes(k)[i] = i - 1
  <2>1. FirstBytes(k) \in [1..k -> Nat]
    BY DEF FirstBytes
  <2>2. \A i \in 1..k : FirstBytes(k)[i] = i - 1
    BY DEF FirstBytes
  <2> QED BY <2>1, <2>2, IsSequence
<1>2. FirstBytes(0) = <<>>
  <2>1. PICK q : q = FirstBytes(0)
    BY Zenon
  <2>2. q \in Seq(Nat) /\ Len(q) = 0
    BY <2>1, <1>1
  <2>3. q = <<>>
    BY <2>2
  <2> QED BY <2>1, <2>3
<1>3. ASSUME m <= n PROVE Pipe!IsPrefixOf(FirstBytes(m), FirstBytes(n))
  <2>1. \A i \in 1..m : i \in 1..n
    BY <1>3
  <2> QED BY <2>1, <1>1, <1>3 DEF Pipe!IsPrefixOf
<1> QED BY <1>1, <1>2, <1>3

\* What Read has handed out are the first bytes of the stream.
LEMMA ReadIsPrefix ==
    ASSUME BufferInv
    PROVE  SubSeq(recvBuf, 1, BytesRead) = FirstBytes(BytesRead)
<1>1. PICK b \in Nat, q \in Seq(Nat) : b = BytesRead /\ q = recvBuf /\ b <= Len(q)
                                       /\ \A i \in 1..b : q[i] = i - 1
  BY DEF BufferInv, InOrderDelivery
<1>2. SubSeq(q, 1, b) = [i \in 1..b |-> q[i]]
  BY <1>1
<1> QED BY <1>1, <1>2 DEF FirstBytes

\* Every step is a step of the byte stream or leaves it alone.
LEMMA PipeStep ==
    ASSUME DeliveryInv, DeliveryInv', [Next]_vars
    PROVE  [Pipe!PipeNext]_(Pipe!pipeVars)
<1> DEFINE pipe == [i \in 1..BytesWritten |-> i - 1]
           got == SubSeq(recvBuf, 1, BytesRead)
<1>1. /\ BytesWritten \in Nat /\ BytesRead \in Nat /\ recvOffset \in Nat
      /\ BytesRead <= recvOffset /\ recvOffset <= BytesWritten
      /\ closed \in BOOLEAN /\ eof \in BOOLEAN
  <2>1. BytesWritten \in Nat /\ closed \in BOOLEAN /\ eof \in BOOLEAN
    BY Zenon DEF DeliveryInv, SenderInv, WireInv, EndInv
  <2>2. recvOffset \in Nat /\ BytesRead \in 0..recvOffset /\ recvOffset <= BytesWritten
    BY Zenon DEF DeliveryInv, BufferInv, InOrderDelivery
  <2>3. BytesRead \in Nat /\ BytesRead <= recvOffset
    BY <2>2
  <2> QED BY <2>1, <2>2, <2>3, Zenon
<1>2. /\ BytesWritten' \in Nat /\ BytesRead' \in Nat /\ recvOffset' \in Nat
      /\ BytesRead' <= recvOffset' /\ recvOffset' <= BytesWritten'
  <2>1. BytesWritten' \in Nat
    BY Zenon DEF DeliveryInv, SenderInv, WireInv
  <2>2. recvOffset' \in Nat /\ BytesRead' \in 0..recvOffset' /\ recvOffset' <= BytesWritten'
    BY Zenon DEF DeliveryInv, BufferInv, InOrderDelivery
  <2>3. BytesRead' \in Nat /\ BytesRead' <= recvOffset'
    BY <2>2
  <2> QED BY <2>1, <2>2, <2>3, Zenon
<1>3. pipe = FirstBytes(BytesWritten) /\ pipe' = FirstBytes(BytesWritten')
  BY DEF FirstBytes
<1>4. got = FirstBytes(BytesRead)
  BY ReadIsPrefix DEF DeliveryInv
<1>5. got' = FirstBytes(BytesRead')
  <2>1. BufferInv'
    BY DEF DeliveryInv
  <2>2. PICK b \in Nat, q \in Seq(Nat) : b = BytesRead' /\ q = recvBuf' /\ b <= Len(q)
                                         /\ \A i \in 1..b : q[i] = i - 1
    BY <2>1, <1>2 DEF BufferInv, InOrderDelivery
  <2>3. SubSeq(q, 1, b) = [i \in 1..b |-> q[i]]
    BY <2>2
  <2> QED BY <2>2, <2>3 DEF FirstBytes
<1> HIDE DEF pipe, got
<1>6. \A n \in Nat : Len(FirstBytes(n)) = n
  BY FirstBytesFacts
<1>7. \A m, n \in Nat : m <= n => Pipe!IsPrefixOf(FirstBytes(m), FirstBytes(n))
  BY FirstBytesFacts
<1>8. CASE Write
  <2>1. ~closed /\ closed' = closed /\ BytesWritten < BytesWritten' /\ BytesRead' = BytesRead /\ eof' = eof
    BY <1>8, <1>1 DEF Write, recvVars, streamVars
  <2>2. Len(pipe') > Len(pipe) /\ Pipe!IsPrefixOf(pipe, pipe') /\ got' = got
    BY <2>1, <1>1, <1>2, <1>3, <1>4, <1>5, <1>6, <1>7
  <2>3. Pipe!PipeWrite
    BY <2>1, <2>2, Zenon DEF Pipe!PipeWrite, pipe, got
  <2> QED BY <2>3 DEF Pipe!PipeNext
<1>9. CASE Close
  <2>1. ~closed /\ closed' = TRUE /\ BytesWritten' = BytesWritten /\ BytesRead' = BytesRead /\ eof' = eof
    BY <1>9 DEF Close, recvVars, streamVars
  <2>2. pipe' = pipe /\ got' = got
    BY <2>1, <1>3, <1>4, <1>5
  <2>3. Pipe!PipeClose
    BY <2>1, <2>2, Zenon DEF Pipe!PipeClose, pipe, got
  <2> QED BY <2>3 DEF Pipe!PipeNext
<1>10. CASE Read
  <2>1. /\ closed' = closed /\ BytesWritten' = BytesWritten /\ eof' = eof
        /\ recvOffset > BytesRead
    BY <1>10 DEF Read, sendVars
  <2>2. PICK z \in BufferSizes : BytesRead' = BytesRead + Lesser(z, recvOffset - BytesRead)
    BY <1>10 DEF Read
  <2>3. z \in Nat /\ z > 0
    BY SizeAssumption
  <2>4. BytesRead' > BytesRead
    BY <2>1, <2>2, <2>3, <1>1 DEF Lesser
  <2>5. ~eof
    BY <2>1, <1>1 DEF DeliveryInv, EndInv
  <2>6. Len(got') > Len(got) /\ Pipe!IsPrefixOf(got, got')
    BY <2>4, <1>1, <1>2, <1>4, <1>5, <1>6, <1>7
  <2>7. BytesRead' <= BytesWritten
    BY <2>1, <1>1, <1>2
  <2>8. Pipe!IsPrefixOf(got', pipe)
    BY <2>7, <1>1, <1>2, <1>3, <1>5, <1>7
  <2>9. pipe' = pipe
    BY <2>1, <1>3
  <2>10. Pipe!PipeRead
    BY <2>1, <2>5, <2>6, <2>8, <2>9, Zenon DEF Pipe!PipeRead, pipe, got
  <2> QED BY <2>10 DEF Pipe!PipeNext
<1>11. CASE ReadEOF
  <2>1. /\ closed' = closed /\ BytesWritten' = BytesWritten /\ BytesRead' = BytesRead /\ eof' = TRUE
        /\ BytesRead = recvOffset /\ finReceived
    BY <1>11 DEF ReadEOF, sendVars
  <2>2. closed /\ BytesRead = BytesWritten
    BY <2>1 DEF DeliveryInv, EndInv
  <2>3. got = pipe /\ pipe' = pipe /\ got' = got
    BY <2>1, <2>2, <1>3, <1>4, <1>5
  <2>4. Pipe!PipeEOF
    BY <2>1, <2>2, <2>3, Zenon DEF Pipe!PipeEOF, pipe, got
  <2> QED BY <2>4 DEF Pipe!PipeNext
<1>12. ASSUME UNCHANGED <<BytesWritten, closed, BytesRead, eof>>
       PROVE  UNCHANGED Pipe!pipeVars
  <2>1. UNCHANGED <<closed, eof>> /\ pipe' = pipe /\ got' = got
    BY <1>12, <1>3, <1>4, <1>5
  <2> QED BY <2>1, Zenon DEF Pipe!pipeVars, pipe, got
<1>13. ASSUME \/ \E a \in acks : HandleAck(a)
              \/ LossTimer \/ FlushLost \/ OnPTO
              \/ \E p \in net : HandlePacket(p)
              \/ AckTimer
              \/ UNCHANGED vars
       PROVE  UNCHANGED <<BytesWritten, closed, BytesRead, eof>>
  BY <1>13, Zenon DEF HandleAck, LossTimer, FlushLost, OnPTO, HandlePacket, HandleStreamFrame, AckTimer,
               sendVars, streamVars, recvVars, vars
<1> QED BY <1>8, <1>9, <1>10, <1>11, <1>12, <1>13 DEF Next

\* A stream over a network that loses, duplicates and reorders is the byte
\* stream its applications expect: what Read returns is what was passed to
\* Write, in order and once each, and io.EOF comes after the last of it.
THEOREM StreamImplementsPipe == Spec => ImplementsByteStream
<1>1. Init => Pipe!PipeInit
  <2> SUFFICES ASSUME Init PROVE Pipe!PipeInit
    OBVIOUS
  <2>2. BytesWritten = 0 /\ closed = FALSE /\ eof = FALSE /\ recvBuf = <<>> /\ BytesRead = 0
    BY DEF Init
  <2>3. [i \in 1..BytesWritten |-> i - 1] = <<>>
    BY <2>2, FirstBytesFacts DEF FirstBytes
  <2>4. SubSeq(recvBuf, 1, BytesRead) = <<>>
    BY <2>2
  <2> QED BY <2>2, <2>3, <2>4 DEF Pipe!PipeInit
<1>2. DeliveryInv /\ DeliveryInv' /\ [Next]_vars => [Pipe!PipeNext]_(Pipe!pipeVars)
  BY PipeStep
<1> QED BY <1>1, <1>2, DeliveryInit, DeliveryStep, PTL DEF Spec, ImplementsByteStream, Pipe!PipeSpec

-----------------------------------------------------------------------------
(***************************************************************************)
(* What the sender lets go of, the receiver holds.                         *)
(***************************************************************************)

\* A packet that is acknowledged was received, and what a tracked packet that
\* was received carries is held.
AckedInv ==
    /\ recvd \subseteq 0..(nextSeq - 1)
    /\ \A a \in acks : a \subseteq recvd
    /\ flowControlViolation \in BOOLEAN
    /\ ~flowControlViolation =>
        \A s \in DOMAIN sentPackets : s \in recvd =>
            \A b \in Nat : Carries(sentPackets[s], b) => Held(b)
    /\ NoByteAbandoned

\* The bytes of a chunk waiting at o are those of a frame on the wire.
WaitsAt(o, g) ==
    /\ g.off = o /\ o \in Nat /\ End(g) \in Nat /\ End(g) = o + Len(recvOOO[o])
    /\ o < End(g)

\* Of a waiting chunk and a frame on the wire that share a byte one holds the
\* other, and a tracked frame is never the larger.
LEMMA WaitingNested ==
    ASSUME SenderInv, BufferInv, NEW o \in DOMAIN recvOOO
    PROVE  \E g : /\ WaitsAt(o, g)
                  /\ \A p \in net : Apart(p.f, g) \/ Within(p.f, g) \/ Within(g, p.f)
                  /\ \A s \in DOMAIN sentPackets :
                        Apart(g, sentPackets[s]) \/ Within(sentPackets[s], g)
                  /\ \A u \in DOMAIN recvOOO : \E h :
                        WaitsAt(u, h) /\ (Apart(g, h) \/ Within(g, h) \/ Within(h, g))
<1>1. ASSUME NEW u \in DOMAIN recvOOO PROVE \E q \in net : WaitsAt(u, q.f)
  <2>1. PICK q \in net : q.f.off = u /\ q.f.data = recvOOO[u] /\ q.f.data # <<>>
    BY DEF BufferInv
  <2>2. ChunkAt(u, recvOOO[u])
    BY WaitingChunks
  <2>3. PICK l \in Nat : l = Len(recvOOO[u]) /\ l > 0 /\ u \in Nat
    BY <2>2 DEF ChunkAt
  <2>4. End(q.f) = u + l
    BY <2>1, <2>3 DEF End
  <2> QED BY <2>1, <2>3, <2>4 DEF WaitsAt
<1>2. PICK q \in net : WaitsAt(o, q.f)
  BY <1>1
<1>3. \A p \in net : Apart(p.f, q.f) \/ Within(p.f, q.f) \/ Within(q.f, p.f)
  BY Zenon DEF SenderInv, Nested
<1>4. \A s \in DOMAIN sentPackets : Apart(q.f, sentPackets[s]) \/ Within(sentPackets[s], q.f)
  BY DEF SenderInv, Nested
<1>5. ASSUME NEW u \in DOMAIN recvOOO
      PROVE  \E h : WaitsAt(u, h) /\ (Apart(q.f, h) \/ Within(q.f, h) \/ Within(h, q.f))
  <2>1. PICK r \in net : WaitsAt(u, r.f)
    BY <1>1
  <2> QED BY <2>1, Zenon DEF SenderInv, Nested
<1> QED BY <1>2, <1>3, <1>4, <1>5, Zenon

\* Two frames that start one after the other and share a byte: the second is
\* within the first.
LEMMA LaterIsWithin ==
    ASSUME NEW f, NEW g, f.off \in Nat, End(f) \in Nat, g.off \in Nat, End(g) \in Nat,
           f.off < g.off, g.off < End(f), g.off < End(g),
           Apart(f, g) \/ Within(f, g) \/ Within(g, f)
    PROVE  End(g) <= End(f)
<1>1. PICK fo \in Nat, fe \in Nat, go \in Nat, ge \in Nat :
        fo = f.off /\ fe = End(f) /\ go = g.off /\ ge = End(g)
  OBVIOUS
<1>2. fo < go /\ go < fe /\ go < ge /\ (fe <= go \/ ge <= fo \/ (go <= fo /\ fe <= ge) \/ (fo <= go /\ ge <= fe))
  BY <1>1 DEF Apart, Within
<1>3. ge <= fe
  BY <1>2
<1> QED BY <1>1, <1>3

\* The release loop passes over no chunk it does not release whole.
LEMMA ReleaseIsWhole ==
    ASSUME SenderInv, BufferInv, NEW p \in net, NEW end, end = End(p.f),
           p.f.off <= recvOffset, recvOffset < end,
           NEW T \in SUBSET DOMAIN recvOOO, NEW e \in Nat, end <= e,
           Released(end, T, e),
           NEW o \in DOMAIN recvOOO, recvOffset < o, o < e
    PROVE  o + Len(recvOOO[o]) <= e
<1>1. PICK g : /\ WaitsAt(o, g)
               /\ \A q \in net : Apart(q.f, g) \/ Within(q.f, g) \/ Within(g, q.f)
               /\ \A u \in DOMAIN recvOOO : \E h :
                     WaitsAt(u, h) /\ (Apart(g, h) \/ Within(g, h) \/ Within(h, g))
  BY WaitingNested, Zenon
<1>2. recvOffset \in Nat /\ end \in Nat /\ p.f.off \in Nat
  <2>1. recvOffset \in Nat /\ BytesWritten \in Nat /\ p.f \in FrameOf(BytesWritten)
    BY Zenon DEF BufferInv, SenderInv, WireInv
  <2> QED BY <2>1, FrameFacts, Zenon
<1>3. \A t \in T : t \in Nat /\ t + Len(recvOOO[t]) \in Nat /\ t + Len(recvOOO[t]) <= e
  <2>1. ASSUME NEW t \in T PROVE t \in Nat /\ t + Len(recvOOO[t]) \in Nat /\ t + Len(recvOOO[t]) <= e
    <3>1. PICK l, x : l = Len(recvOOO[t]) /\ x = t + l
      BY Zenon
    <3>2. t \in Nat /\ l \in Nat
      BY <3>1, WaitingChunks, Zenon DEF ChunkAt
    <3>3. (x \in T \/ x = e) /\ (x \in T => x < e)
      BY <3>1, Zenon DEF Released
    <3>4. x \in Nat
      BY <3>1, <3>2
    <3>5. x <= e
      BY <3>3, <3>4
    <3> QED BY <3>1, <3>2, <3>4, <3>5, Zenon
  <2> QED BY <2>1, Zenon
<1>4. g.off = o /\ o \in Nat /\ End(g) \in Nat /\ End(g) = o + Len(recvOOO[o]) /\ o < End(g)
  BY <1>1, Zenon DEF WaitsAt
<1>5. CASE o < end
  <2>1. p.f.off < g.off /\ g.off < End(p.f)
    BY <1>2, <1>4, <1>5
  <2>2. End(g) <= End(p.f)
    BY <2>1, <1>1, <1>2, <1>4, LaterIsWithin, Zenon
  <2> QED BY <2>2, <1>2, <1>4
<1>6. CASE end <= o /\ o \in T
  BY <1>3, <1>6
<1>7. CASE end <= o /\ o \notin T
  <2>1. o \in end..(e - 1)
    BY <1>2, <1>4, <1>7
  <2>2. PICK t \in T : t <= o /\ o < t + Len(recvOOO[t])
    BY <2>1 DEF Released
  <2>3. t < o
    BY <2>2, <1>3, <1>4, <1>7, SMTT(20)
  <2>4. PICK h : WaitsAt(t, h) /\ (Apart(g, h) \/ Within(g, h) \/ Within(h, g))
    BY <1>1, Zenon
  <2>5. h.off = t /\ End(h) \in Nat /\ End(h) = t + Len(recvOOO[t])
    BY <2>4 DEF WaitsAt
  <2>6. Apart(h, g) \/ Within(h, g) \/ Within(g, h)
    BY <2>4, Zenon DEF Apart
  <2>7. h.off \in Nat /\ h.off < g.off /\ g.off < End(h)
    BY <2>2, <2>3, <2>5, <1>3, <1>4
  <2>8. End(g) <= End(h)
    BY <2>5, <2>6, <2>7, <1>4, LaterIsWithin, Zenon
  <2> QED BY <2>5, <2>8, <1>3, <1>4
<1> QED BY <1>2, <1>4, <1>5, <1>6, <1>7

\* What is held stays held, and what arrives in a tracked packet is held from
\* then on, unless the stream is failed.
LEMMA HoldStep ==
    ASSUME SenderInv, BufferInv, NEW p \in net, NEW accepted, placeLocked(p.f, accepted),
           ~flowControlViolation'
    PROVE  /\ \A b \in Nat : Held(b) => Held(b)'
           /\ (\E s \in DOMAIN sentPackets : sentPackets[s] = p.f) =>
                \A b \in Nat : Carries(p.f, b) => Held(b)'
<1>0. PICK f, end : f = p.f /\ end = f.off + Len(f.data)
  BY Zenon
<1>1. recvOffset \in Nat /\ f.off \in Nat /\ end \in Nat /\ end = End(f)
  <2>1. recvOffset \in Nat /\ f \in FrameOf(BytesWritten)
    BY <1>0, Zenon DEF BufferInv, SenderInv, WireInv
  <2>2. f.off \in Nat /\ f.data \in Seq(Nat)
    BY <2>1, Zenon DEF FrameOf
  <2>3. PICK o \in Nat, n \in Nat : o = f.off /\ n = Len(f.data)
    BY <2>2, LenNat, Zenon
  <2>4. o + n \in Nat
    OBVIOUS
  <2>5. end = f.off + Len(f.data)
    BY <1>0, Zenon
  <2> QED BY <2>1, <2>2, <2>3, <2>4, <2>5, Zenon DEF End
<1>2. CASE /\ f.data = <<>> \/ end <= recvOffset \/ (f.off > recvOffset /\ f.off \in DOMAIN recvOOO)
           /\ UNCHANGED <<recvOffset, recvOOO>>
  <2>1. ASSUME NEW b \in Nat, Held(b) PROVE Held(b)'
    BY <2>1, <1>2 DEF Held
  <2>2. ASSUME NEW s \in DOMAIN sentPackets, sentPackets[s] = f, NEW b \in Nat, Carries(f, b)
        PROVE  Held(b)
    <3>1. f.off <= b /\ b < end
      BY <2>2, <1>0 DEF Carries
    <3>2. CASE f.data = <<>>
      <4>1. Len(<<>>) = 0
        OBVIOUS
      <4>2. end = f.off
        BY <4>1, <3>2, <1>0, <1>1
      <4> QED BY <4>2, <3>1, <1>1
    <3>3. CASE end <= recvOffset
      BY <3>1, <3>3, <1>1 DEF Held
    <3>4. CASE f.off > recvOffset /\ f.off \in DOMAIN recvOOO
      <4>1. PICK g : WaitsAt(f.off, g) /\ (Apart(g, f) \/ Within(f, g))
        BY <3>4, <2>2, WaitingNested, Zenon
      <4>2. g.off = f.off /\ End(g) \in Nat /\ End(g) = f.off + Len(recvOOO[f.off]) /\ f.off < End(g)
        BY <4>1 DEF WaitsAt
      <4>3. end <= End(g)
        BY <4>1, <4>2, <3>1, <1>1 DEF Apart, Within
      <4>4. b < f.off + Len(recvOOO[f.off])
        BY <4>2, <4>3, <3>1, <1>1
      <4> QED BY <4>4, <3>1, <3>4 DEF Held
    <3> QED BY <3>2, <3>3, <3>4, <1>2, Zenon
  <2> QED BY <2>1, <2>2, <1>0, Zenon
<1>3. CASE /\ f.off > recvOffset /\ f.off \notin DOMAIN recvOOO
           /\ recvOOO' = [o \in DOMAIN recvOOO \cup {f.off} |-> IF o = f.off THEN f.data ELSE recvOOO[o]]
           /\ UNCHANGED recvOffset
  <2>1. /\ DOMAIN recvOOO' = DOMAIN recvOOO \cup {f.off} /\ recvOOO'[f.off] = f.data
        /\ \A o \in DOMAIN recvOOO : recvOOO'[o] = recvOOO[o]
    BY <1>3
  <2>2. ASSUME NEW b \in Nat, Held(b) PROVE Held(b)'
    BY <2>1, <2>2, <1>3 DEF Held
  <2>3. ASSUME NEW b \in Nat, Carries(f, b) PROVE Held(b)'
    BY <2>1, <2>3, <1>3 DEF Held, Carries
  <2> QED BY <2>2, <2>3, <1>0
<1>4. ASSUME f.off <= recvOffset, recvOffset < end,
             NEW T \in SUBSET DOMAIN recvOOO,
             NEW e \in {end} \cup {t + Len(recvOOO[t]) : t \in T},
             Released(end, T, e), recvOffset' = e,
             recvOOO' = [o \in DOMAIN recvOOO \ T |-> recvOOO[o]]
      PROVE  \A b \in Nat : (Held(b) => Held(b)') /\ (Carries(f, b) => Held(b)')
  <2>1. f \in FrameOf(BytesWritten)
    BY <1>0, Zenon DEF SenderInv, WireInv
  <2>2. e \in Nat /\ end <= e
    BY <2>1, <1>0, <1>4, AppendInOrder, Zenon
  <2>3. e \notin DOMAIN recvOOO
    BY <1>4 DEF Released
  <2>4. \A o \in DOMAIN recvOOO : recvOffset < o /\ o < e => o + Len(recvOOO[o]) <= e
    BY <2>2, <1>0, <1>1, <1>4, ReleaseIsWhole, Zenon
  <2>5. \A o \in DOMAIN recvOOO : o \in Nat /\ o + Len(recvOOO[o]) \in Nat
    BY WaitingChunks DEF ChunkAt
  <2>6. \A o \in T : o < e
    BY <1>4 DEF Released
  <2>7. ASSUME NEW b \in Nat, Held(b) PROVE Held(b)'
    <3>1. CASE b < recvOffset
      <4>1. b < recvOffset'
        BY <3>1, <2>2, <1>1, <1>4
      <4> QED BY <4>1 DEF Held
    <3>2. ASSUME NEW o \in DOMAIN recvOOO, recvOffset < o, o <= b, b < o + Len(recvOOO[o])
          PROVE  Held(b)'
      <4>1. CASE o < e
        <5>1. b < recvOffset'
          BY <4>1, <3>2, <2>2, <2>4, <2>5, <1>4
        <5> QED BY <5>1 DEF Held
      <4>2. CASE e < o
        <5>1. o \notin T
          BY <4>2, <2>2, <2>5, <2>6
        <5>2. o \in DOMAIN recvOOO' /\ recvOOO'[o] = recvOOO[o] /\ recvOffset' < o
          BY <5>1, <4>2, <1>4
        <5> QED BY <5>2, <3>2 DEF Held
      <4> QED BY <4>1, <4>2, <2>2, <2>3, <2>5
    <3> QED BY <2>7, <3>1, <3>2 DEF Held
  <2>8. ASSUME NEW b \in Nat, Carries(f, b) PROVE Held(b)'
    <3>1. b < end
      BY <2>8, <1>0 DEF Carries
    <3>2. b < recvOffset'
      BY <3>1, <2>2, <1>1, <1>4
    <3> QED BY <3>2 DEF Held
  <2> QED BY <2>7, <2>8
<1> QED
  <2>1. \/ /\ f.data = <<>> \/ end <= recvOffset \/ (f.off > recvOffset /\ f.off \in DOMAIN recvOOO)
           /\ UNCHANGED <<recvOffset, recvOOO>>
        \/ /\ f.off > recvOffset /\ f.off \notin DOMAIN recvOOO
           /\ recvOOO' = [o \in DOMAIN recvOOO \cup {f.off} |-> IF o = f.off THEN f.data ELSE recvOOO[o]]
           /\ UNCHANGED recvOffset
        \/ /\ f.off <= recvOffset /\ recvOffset < end
           /\ \E T \in SUBSET DOMAIN recvOOO :
              \E e \in {end} \cup {t + Len(recvOOO[t]) : t \in T} :
                /\ Released(end, T, e) /\ recvOffset' = e
                /\ recvOOO' = [o \in DOMAIN recvOOO \ T |-> recvOOO[o]]
    BY <1>0, Zenon DEF placeLocked
  <2> QED BY <2>1, <1>0, <1>2, <1>3, <1>4, Zenon

\* A frame reports packets that were received.
LEMMA ReportedReceived == \A S : Reported(S) \subseteq S
  BY DEF Reported

\* What a step of the sender may do to its account: sequence numbers of new
\* packets are fresh, and every byte that was outstanding or is new is held or
\* outstanding.
Accounts ==
    /\ UNCHANGED <<acks, recvd, flowControlViolation, recvOffset, recvOOO>>
    /\ nextSeq' \in Nat /\ nextSeq <= nextSeq'
    /\ \A s \in DOMAIN sentPackets' :
        \/ s \in DOMAIN sentPackets /\ sentPackets'[s] = sentPackets[s]
        \/ s \in Nat /\ s >= nextSeq
    /\ \A b \in Nat : Outstanding(b) =>
        flowControlViolation \/ Held(b) \/ Outstanding(b)'
    /\ \A b \in BytesWritten..(BytesWritten' - 1) : Outstanding(b)'

\* Such a step abandons no byte.
LEMMA AccountStep ==
    ASSUME SenderInv, AckedInv, Growing, Accounts
    PROVE  AckedInv'
<1>1. nextSeq \in Nat /\ BytesWritten \in Nat /\ BytesWritten' \in Nat
  BY DEF SenderInv, WireInv, Growing
<1>2. \A b : Held(b)' = Held(b)
  BY DEF Held, Accounts
<1>3. recvd' \subseteq 0..(nextSeq' - 1)
  BY <1>1, SMTT(20) DEF AckedInv, Accounts
<1>4. (\A a \in acks' : a \subseteq recvd') /\ flowControlViolation' \in BOOLEAN
  BY DEF AckedInv, Accounts
<1>5. ASSUME ~flowControlViolation', NEW s \in DOMAIN sentPackets', s \in recvd',
             NEW b \in Nat, Carries(sentPackets'[s], b)
      PROVE  Held(b)'
  <2>1. s \in recvd /\ ~flowControlViolation
    BY <1>5 DEF Accounts
  <2>2. ~(s >= nextSeq)
    BY <2>1, <1>1 DEF AckedInv
  <2>3. s \in DOMAIN sentPackets /\ sentPackets'[s] = sentPackets[s]
    BY <2>2 DEF Accounts
  <2>4. Held(b)
    BY <2>1, <2>3, <1>5 DEF AckedInv
  <2> QED BY <2>4, <1>2
<1>6. ASSUME ~flowControlViolation', NEW b \in 0..(BytesWritten' - 1)
      PROVE  Held(b)' \/ Outstanding(b)'
  <2>1. b \in Nat /\ ~flowControlViolation
    BY <1>6, <1>1 DEF Accounts
  <2>4. \A w, v \in Nat : b \in 0..(v - 1) /\ ~(b < w) => b \in w..(v - 1)
    BY <2>1
  <2>2. CASE b < BytesWritten
    <3>1. b \in 0..(BytesWritten - 1)
      BY <2>1, <2>2, <1>1
    <3>2. Held(b) \/ Outstanding(b)
      BY <3>1, <2>1 DEF AckedInv, NoByteAbandoned
    <3> QED BY <3>2, <2>1, <1>2 DEF Accounts
  <2>3. CASE ~(b < BytesWritten)
    <3>1. b \in BytesWritten..(BytesWritten' - 1)
      BY <2>3, <2>4, <1>1, Zenon
    <3> QED BY <3>1 DEF Accounts
  <2> QED BY <2>2, <2>3
<1>7. NoByteAbandoned'
  BY <1>6 DEF NoByteAbandoned
<1> QED BY <1>3, <1>4, <1>5, <1>7, Zenon DEF AckedInv

\* P carries what f carried.
Covers(P, f) == \A b \in Nat : Carries(f, b) => \E i \in 1..Len(P) : Carries(P[i], b)

\* The sequences that l packets get from n on.
LEMMA Following ==
    ASSUME NEW n \in Nat, NEW l \in Nat
    PROVE  /\ n + l \in Nat /\ n <= n + l
           /\ \A i \in 1..l : n + (i - 1) \in Nat /\ n + (i - 1) >= n
  OBVIOUS

\* Sending the parts of f in its place, or of new bytes, accounts for them.
LEMMA TransmitAccounts ==
    ASSUME SenderInv, NEW P, NEW X, P \in Seq(X), NEW f, Covers(P, f),
           NEW kept \in SUBSET DOMAIN sentPackets, Transmit(P, kept),
           UNCHANGED <<acks, recvd, flowControlViolation, recvOffset, recvOOO>>,
           \A b \in Nat : Outstanding(b) =>
                \/ Carries(f, b)
                \/ \E s \in kept : Carries(sentPackets[s], b)
                \/ \E i \in 1..Len(lostQueue') : Carries(lostQueue'[i], b),
           \A b \in BytesWritten..(BytesWritten' - 1) : b \in Nat /\ Carries(f, b)
    PROVE  Accounts
<1>0. Len(P) \in Nat
  BY LenNat, Zenon
<1>1. WireInv /\ nextSeq \in Nat /\ Len(P) \in Nat
  BY <1>0, Zenon DEF SenderInv, WireInv
<1>2. /\ nextSeq' = nextSeq + Len(P)
      /\ \A s \in DOMAIN sentPackets' :
           \/ s \in kept /\ s \in 0..(nextSeq - 1) /\ sentPackets'[s] = sentPackets[s]
           \/ \E i \in 1..Len(P) : s = nextSeq + (i - 1) /\ sentPackets'[s] = P[i]
      /\ \A s \in kept : s \in DOMAIN sentPackets' /\ sentPackets'[s] = sentPackets[s]
      /\ \A i \in 1..Len(P) :
           nextSeq + (i - 1) \in DOMAIN sentPackets' /\ sentPackets'[nextSeq + (i - 1)] = P[i]
  BY <1>1, TransmitFacts, Zenon
<1>3. ASSUME NEW b \in Nat, Carries(f, b) PROVE Outstanding(b)'
  <2>1. PICK i \in 1..Len(P) : Carries(P[i], b)
    BY <1>3 DEF Covers
  <2>2. PICK s : s = nextSeq + (i - 1)
    BY Zenon
  <2>3. s \in DOMAIN sentPackets' /\ Carries(sentPackets'[s], b)
    BY <2>1, <2>2, <1>2, Zenon
  <2> QED BY <2>3, Zenon DEF Outstanding, Carries
<1>4. ASSUME NEW b \in Nat, Outstanding(b) PROVE Outstanding(b)'
  <2>1. CASE Carries(f, b)
    BY <2>1, <1>3, Zenon
  <2>2. ASSUME NEW s \in kept, Carries(sentPackets[s], b) PROVE Outstanding(b)'
    <3>1. s \in DOMAIN sentPackets' /\ Carries(sentPackets'[s], b)
      BY <2>2, <1>2, Zenon
    <3> QED BY <3>1, Zenon DEF Outstanding, Carries
  <2>3. ASSUME NEW i \in 1..Len(lostQueue'), Carries(lostQueue'[i], b) PROVE Outstanding(b)'
    BY <2>3, Zenon DEF Outstanding, Carries
  <2> QED BY <1>4, <2>1, <2>2, <2>3, Zenon
<1>5. nextSeq' \in Nat /\ nextSeq <= nextSeq'
  BY <1>1, <1>2, Following, Zenon
<1>6. ASSUME NEW s \in DOMAIN sentPackets'
      PROVE  \/ s \in DOMAIN sentPackets /\ sentPackets'[s] = sentPackets[s]
             \/ s \in Nat /\ s >= nextSeq
  <2>1. CASE s \in kept /\ sentPackets'[s] = sentPackets[s]
    BY <2>1, Zenon
  <2>2. ASSUME NEW i \in 1..Len(P), s = nextSeq + (i - 1) PROVE s \in Nat /\ s >= nextSeq
    BY <2>2, <1>1, Following, Zenon
  <2> QED BY <2>1, <2>2, <1>2, Zenon
<1> QED BY <1>3, <1>4, <1>5, <1>6, Zenon DEF Accounts

\* Write abandons nothing, and its chunks carry all of the new bytes.
LEMMA WriteAccounts ==
    ASSUME SenderInv, Write
    PROVE  Accounts
<1>1. PICK n \in 1..(Window - BytesWritten), d \in Datagrams :
        /\ Transmit(Pieces([off |-> BytesWritten,
                            data |-> [i \in 1..n |-> BytesWritten + (i - 1)],
                            syn |-> BytesWritten = 0,
                            fin |-> FALSE], chunkSize(d)),
                    DOMAIN sentPackets)
        /\ BytesWritten' = BytesWritten + n
  BY Zenon DEF Write
<1>2. PICK f : f = [off |-> BytesWritten, data |-> [i \in 1..n |-> BytesWritten + (i - 1)],
                    syn |-> BytesWritten = 0, fin |-> FALSE]
  BY Zenon
<1>3. PICK P : P = Pieces(f, chunkSize(d))
  BY Zenon
<1>4. BytesWritten \in Nat /\ n \in Nat /\ n > 0
  BY SizeAssumption DEF SenderInv, WireInv
<1>5. f.data \in Seq(Nat) /\ Len(f.data) = n /\ f.off = BytesWritten /\ f.data # <<>>
  <2>1. f.data \in [1..n -> Nat] /\ f.off = BytesWritten
    BY <1>2, <1>4
  <2>2. f.data \in Seq(Nat) /\ Len(f.data) = n
    BY <2>1, <1>4, IsSequence
  <2>3. Len(<<>>) = 0
    OBVIOUS
  <2>4. f.data # <<>>
    BY <2>2, <2>3, <1>4
  <2> QED BY <2>1, <2>2, <2>4
<1>6. f \in FrameOf(BytesWritten + n)
  <2>1. f \in [off : Nat, data : Seq(Nat), syn : BOOLEAN, fin : BOOLEAN]
    BY <1>2, <1>4, <1>5, Zenon
  <2>2. End(f) <= BytesWritten + n
    <3>1. BytesWritten + n <= BytesWritten + n
      BY <1>4
    <3> QED BY <3>1, <1>5, Zenon DEF End
  <2>3. \A i \in 1..Len(f.data) : f.data[i] = f.off + (i - 1)
    BY <1>2, <1>5
  <2> QED BY <2>1, <2>2, <2>3, Zenon DEF FrameOf
<1>7. chunkSize(d) \in Nat \ {0} /\ BytesWritten + n \in Nat
  BY <1>4, SizeAssumption DEF chunkSize
<1>8. Divides(P, f, BytesWritten + n)
  BY <1>3, <1>5, <1>6, <1>7, PiecesDivide
<1>9. Covers(P, f) /\ P \in Seq(FrameOf(BytesWritten + n))
  BY <1>8 DEF Divides, Covers
<1>10. Transmit(P, DOMAIN sentPackets)
  BY <1>1, <1>2, <1>3
<1>11. \A b \in BytesWritten..(BytesWritten' - 1) : b \in Nat /\ Carries(f, b)
  <2>1. \A v, m \in Nat : \A b \in v..((v + m) - 1) : b \in Nat /\ v <= b /\ b < v + m
    OBVIOUS
  <2>2. BytesWritten' = BytesWritten + n
    BY <1>1
  <2>3. \A b \in BytesWritten..((BytesWritten + n) - 1) : b \in Nat /\ Carries(f, b)
    BY <2>1, <1>4, <1>5, Zenon DEF Carries
  <2> QED BY <2>2, <2>3
<1>12. UNCHANGED <<acks, recvd, flowControlViolation, recvOffset, recvOOO, lostQueue>>
  BY Zenon DEF Write, recvVars, streamVars
<1>13. \A b \in Nat : Outstanding(b) =>
            \/ Carries(f, b)
            \/ \E s \in DOMAIN sentPackets : Carries(sentPackets[s], b)
            \/ \E i \in 1..Len(lostQueue') : Carries(lostQueue'[i], b)
  BY <1>12, Zenon DEF Outstanding
<1> QED BY <1>9, <1>10, <1>11, <1>12, <1>13, TransmitAccounts, Zenon

\* Nor do Close, a probe, and the queue's turn.
LEMMA ResendAccounts ==
    ASSUME SenderInv, Close \/ OnPTO \/ FlushLost
    PROVE  Accounts
<1>1. WireInv /\ BytesWritten \in Nat /\ nextSeq \in Nat
  BY Zenon DEF SenderInv, WireInv
<1>2. UNCHANGED <<BytesWritten, acks, recvd, flowControlViolation, recvOffset, recvOOO>>
  BY Zenon DEF Close, OnPTO, FlushLost, recvVars, streamVars
<1>3. \A b \in BytesWritten..(BytesWritten' - 1) : FALSE
  BY <1>1, <1>2
<1>4. CASE Close
  <2>1. PICK f : f = [off |-> BytesWritten, data |-> <<>>, syn |-> FALSE, fin |-> TRUE]
    BY Zenon
  <2>2. PICK P : P = <<f>>
    BY Zenon
  <2>3. Transmit(P, DOMAIN sentPackets) /\ lostQueue' = lostQueue
    BY <1>4, <2>1, <2>2 DEF Close
  <2>4. P \in Seq({f}) /\ Covers(P, f)
    BY <2>2 DEF Covers
  <2>5. \A b \in Nat : Outstanding(b) =>
            \/ Carries(f, b)
            \/ \E s \in DOMAIN sentPackets : Carries(sentPackets[s], b)
            \/ \E i \in 1..Len(lostQueue') : Carries(lostQueue'[i], b)
    BY <2>3 DEF Outstanding
  <2> QED BY <2>3, <2>4, <2>5, <1>2, <1>3, TransmitAccounts, Zenon
<1>5. CASE OnPTO
  <2>1. PICK s \in OldestUnacked, d \in Datagrams :
          Transmit(fitToPath(sentPackets[s], d), DOMAIN sentPackets \ {s})
    BY <1>5 DEF OnPTO
  <2>2. s \in DOMAIN sentPackets /\ lostQueue' = lostQueue
    BY <1>5 DEF OnPTO, OldestUnacked
  <2>3. PICK f, P : f = sentPackets[s] /\ P = fitToPath(f, d)
    BY Zenon
  <2>4. Divides(P, f, BytesWritten)
    BY <2>2, <2>3, <1>1, TrackedIsSent, FitDivides
  <2>5. P \in Seq(FrameOf(BytesWritten)) /\ Covers(P, f)
    BY <2>4, Zenon DEF Divides, Covers
  <2>6. Transmit(P, DOMAIN sentPackets \ {s})
    BY <2>1, <2>3
  <2>7. \A b \in Nat : Outstanding(b) =>
            \/ Carries(f, b)
            \/ \E t \in DOMAIN sentPackets \ {s} : Carries(sentPackets[t], b)
            \/ \E i \in 1..Len(lostQueue') : Carries(lostQueue'[i], b)
    BY <2>2, <2>3, Zenon DEF Outstanding
  <2> QED BY <2>5, <2>6, <2>7, <1>2, <1>3, TransmitAccounts, Zenon
<1>6. CASE FlushLost
  <2>1. PICK d \in Datagrams :
          LET frames == fitToPath(Head(lostQueue), d)
          IN  \/ /\ Len(frames) = 1
                 /\ Transmit(frames, DOMAIN sentPackets)
                 /\ lostQueue' = Tail(lostQueue)
              \/ /\ Len(frames) > 1
                 /\ lostQueue' = frames \o Tail(lostQueue)
                 /\ UNCHANGED <<nextSeq, sentPackets, net>>
    BY <1>6 DEF FlushLost
  <2>2. PICK f, P, R : f = Head(lostQueue) /\ P = fitToPath(f, d) /\ R = Tail(lostQueue)
    BY Zenon
  <2>3. lostQueue \in Seq(FrameOf(BytesWritten)) /\ lostQueue # <<>>
    BY <1>1, <1>6 DEF WireInv, FlushLost
  <2>4. PICK m \in Nat : m = Len(lostQueue)
    BY <2>3
  <2>5. /\ R \in Seq(FrameOf(BytesWritten)) /\ 1 \in 1..m /\ f = lostQueue[1]
        /\ Len(R) = m - 1
        /\ \A j \in 1..Len(R) : j + 1 \in 1..m /\ R[j] = lostQueue[j + 1]
    BY <2>2, <2>3, <2>4, TailFacts
  <2>6. f \in FrameOf(BytesWritten)
    BY <2>3, <2>4, <2>5
  <2>7. Divides(P, f, BytesWritten)
    BY <2>2, <2>6, <1>1, FitDivides
  <2>8. P \in Seq(FrameOf(BytesWritten)) /\ Covers(P, f)
    BY <2>7 DEF Divides, Covers
  <2>9. ASSUME NEW b \in Nat, Outstanding(b)
        PROVE  \/ Carries(f, b)
               \/ \E s \in DOMAIN sentPackets : Carries(sentPackets[s], b)
               \/ \E i \in 1..Len(R) : Carries(R[i], b)
    <3>1. ASSUME NEW j \in 1..m, Carries(lostQueue[j], b)
          PROVE  Carries(f, b) \/ \E i \in 1..Len(R) : Carries(R[i], b)
      <4>1. CASE j = 1
        BY <4>1, <3>1, <2>5
      <4>2. CASE j # 1
        <5>1. PICK i : i = j - 1
          BY Zenon
        <5>2. i \in 1..Len(R) /\ i + 1 = j
          BY <5>1, <4>2, <2>4, <2>5
        <5> QED BY <5>2, <3>1, <2>5, Zenon
      <4> QED BY <4>1, <4>2
    <3> QED BY <2>9, <3>1, <2>4 DEF Outstanding
  <2>10. CASE Transmit(P, DOMAIN sentPackets) /\ lostQueue' = R
    <3>1. \A b \in Nat : Outstanding(b) =>
            \/ Carries(f, b)
            \/ \E s \in DOMAIN sentPackets : Carries(sentPackets[s], b)
            \/ \E i \in 1..Len(lostQueue') : Carries(lostQueue'[i], b)
      BY <2>9, <2>10, Zenon
    <3> QED BY <2>8, <2>10, <3>1, <1>2, <1>3, TransmitAccounts, Zenon
  <2>11. CASE lostQueue' = P \o R /\ UNCHANGED <<nextSeq, sentPackets, net>>
    <3>1. Joins(lostQueue', P, R, FrameOf(BytesWritten))
      BY <2>5, <2>8, <2>11, ConcatJoins, Zenon
    <3>2. ASSUME NEW b \in Nat, Outstanding(b) PROVE Outstanding(b)'
      <4>1. CASE Carries(f, b)
        <5>1. PICK i \in 1..Len(P) : Carries(P[i], b)
          BY <4>1, <2>8 DEF Covers
        <5>2. i \in 1..Len(lostQueue') /\ lostQueue'[i] = P[i]
          BY <3>1 DEF Joins
        <5>3. Carries(lostQueue'[i], b)
          BY <5>1, <5>2
        <5> QED BY <5>2, <5>3 DEF Outstanding, Carries
      <4>2. ASSUME NEW s \in DOMAIN sentPackets, Carries(sentPackets[s], b) PROVE Outstanding(b)'
        BY <4>2, <2>11 DEF Outstanding, Carries
      <4>3. ASSUME NEW i \in 1..Len(R), Carries(R[i], b) PROVE Outstanding(b)'
        <5>1. PICK k : k = Len(P) + i
          BY Zenon
        <5>2. k \in 1..Len(lostQueue') /\ lostQueue'[k] = R[i]
          BY <5>1, <3>1 DEF Joins
        <5>3. Carries(lostQueue'[k], b)
          BY <4>3, <5>2
        <5> QED BY <5>2, <5>3 DEF Outstanding, Carries
      <4> QED BY <3>2, <4>1, <4>2, <4>3, <2>9
    <3> QED BY <3>2, <2>11, <1>1, <1>2, <1>3 DEF Accounts
  <2> QED BY <2>1, <2>2, <2>10, <2>11, Zenon
<1> QED BY <1>4, <1>5, <1>6

\* Nor do an acknowledgement and the loss timer: what they let go of was
\* received or is queued.
LEMMA LossAccounts ==
    ASSUME SenderInv, AckedInv, NEW acked,
           NEW largest, DetectLost(DOMAIN sentPackets \ acked, largest), acked \subseteq recvd,
           UNCHANGED <<BytesWritten, nextSeq, acks, recvd, flowControlViolation, recvOffset, recvOOO>>
    PROVE  Accounts
<1> DEFINE kept == DOMAIN sentPackets \ acked
<1>1. PICK lost \in SUBSET kept :
        /\ sentPackets' = [s \in kept \ lost |-> sentPackets[s]]
        /\ \E q \in Sorted(lost) : lostQueue' = lostQueue \o InOrder(q)
  BY Zenon DEF DetectLost
<1>2. WireInv /\ BytesWritten \in Nat /\ nextSeq \in Nat
  BY Zenon DEF SenderInv, WireInv
<1>3. lost \subseteq Int
  BY <1>2, TrackedNat
<1>4. PICK q \in Sorted(lost) : lostQueue' = lostQueue \o InOrder(q)
  BY <1>1, Zenon
<1> DEFINE n == Len(q)
           L == InOrder(q)
<1> HIDE DEF n, L
<1>5. /\ n \in Nat /\ q \in [1..n -> lost]
      /\ \A s \in lost : \E i \in 1..n : q[i] = s
  BY <1>3, SortedLists, Zenon DEF n
<1>6. \A s \in DOMAIN sentPackets : sentPackets[s] \in FrameOf(BytesWritten)
  BY <1>2, TrackedIsSent
<1>7. L \in [1..n -> FrameOf(BytesWritten)] /\ \A i \in 1..n : L[i] = sentPackets[q[i]]
  BY <1>3, <1>5, <1>6, SortedLists, Zenon DEF InOrder, L, n
<1>8. L \in Seq(FrameOf(BytesWritten)) /\ Len(L) = n
  BY <1>5, <1>7, IsSequence
<1>9. lostQueue \in Seq(FrameOf(BytesWritten)) /\ lostQueue' = lostQueue \o L
  BY <1>2, <1>4, Zenon DEF WireInv, L
<1>10. Joins(lostQueue', lostQueue, L, FrameOf(BytesWritten))
  BY <1>8, <1>9, ConcatJoins
<1>11. DOMAIN sentPackets' = kept \ lost /\ \A s \in kept \ lost : sentPackets'[s] = sentPackets[s]
  BY <1>1
<1>12. ASSUME NEW b \in Nat, Outstanding(b)
       PROVE  flowControlViolation \/ Held(b) \/ Outstanding(b)'
  <2>1. ASSUME NEW s \in DOMAIN sentPackets, Carries(sentPackets[s], b)
        PROVE  flowControlViolation \/ Held(b) \/ Outstanding(b)'
    <3>1. CASE s \in acked
      BY <3>1, <2>1 DEF AckedInv
    <3>2. CASE s \in lost
      <4>1. PICK i \in 1..n : q[i] = s
        BY <3>2, <1>5
      <4>2. PICK k : k = Len(lostQueue) + i
        BY Zenon
      <4>3. k \in 1..Len(lostQueue') /\ lostQueue'[k] = L[i]
        BY <4>2, <1>8, <1>10, Zenon DEF Joins
      <4>4. Carries(lostQueue'[k], b)
        BY <4>1, <4>3, <2>1, <1>7, Zenon
      <4> QED BY <4>3, <4>4, Zenon DEF Outstanding, Carries
    <3>3. CASE s \in kept \ lost
      <4>1. s \in DOMAIN sentPackets' /\ Carries(sentPackets'[s], b)
        BY <3>3, <2>1, <1>11, Zenon
      <4> QED BY <4>1, Zenon DEF Outstanding, Carries
    <3> QED BY <3>1, <3>2, <3>3
  <2>2. ASSUME NEW i \in 1..Len(lostQueue), Carries(lostQueue[i], b) PROVE Outstanding(b)'
    <3>1. i \in 1..Len(lostQueue') /\ lostQueue'[i] = lostQueue[i]
      BY <1>10 DEF Joins
    <3>2. Carries(lostQueue'[i], b)
      BY <3>1, <2>2
    <3> QED BY <3>1, <3>2, Zenon DEF Outstanding, Carries
  <2> QED BY <1>12, <2>1, <2>2, Zenon DEF Outstanding
<1>13. \A b \in BytesWritten..(BytesWritten' - 1) : FALSE
  BY <1>2
<1>14. nextSeq' \in Nat /\ nextSeq <= nextSeq'
  BY <1>2
<1> QED BY <1>11, <1>12, <1>13, <1>14, Zenon DEF Accounts

\* A packet that arrives is held before it is acknowledged.
LEMMA ArrivalAccounts ==
    ASSUME SenderInv, BufferInv, AckedInv, NEW p \in net, HandlePacket(p)
    PROVE  AckedInv'
<1>1. UNCHANGED <<BytesWritten, nextSeq, sentPackets, lostQueue>>
  BY DEF HandlePacket, sendVars
<1>2. p.seq \in 0..(nextSeq - 1) /\ p.f \in FrameOf(BytesWritten)
  BY Zenon DEF SenderInv, WireInv
<1>3. recvd' = recvd \cup {p.seq} /\ \A a \in acks' : a \in acks \/ a = Reported(recvd')
  BY DEF HandlePacket, NoteReceived
<1>4. recvd' \subseteq 0..(nextSeq' - 1)
  BY <1>1, <1>2, <1>3, Zenon DEF AckedInv
<1>5. \A a \in acks' : a \subseteq recvd'
  BY <1>3, ReportedReceived DEF AckedInv
<1>6. flowControlViolation' \in BOOLEAN /\ (~flowControlViolation' => ~flowControlViolation)
  <2>1. flowControlViolation' \in {flowControlViolation, TRUE}
    BY Zenon DEF HandlePacket, HandleStreamFrame, Deliver, placeLocked
  <2> QED BY <2>1, Zenon DEF AckedInv
<1>7. ASSUME ~flowControlViolation'
      PROVE  /\ \A b \in Nat : Held(b) => Held(b)'
             /\ (\E s \in DOMAIN sentPackets : sentPackets[s] = p.f) =>
                  \A b \in Nat : Carries(p.f, b) => Held(b)'
  <2>1. CASE opened'
    <3>1. PICK accepted : placeLocked(p.f, accepted)
      BY <2>1, Zenon DEF HandlePacket, HandleStreamFrame, Deliver
    <3> QED BY <3>1, <1>7, HoldStep
  <2>2. CASE ~opened'
    <3>1. UNCHANGED <<recvOffset, recvOOO>> /\ p.f.data = <<>>
      BY <2>2, Zenon DEF HandlePacket, HandleStreamFrame, opens
    <3>2. \A b \in Nat : Held(b) => Held(b)'
      BY <3>1 DEF Held
    <3>3. Len(<<>>) = 0 /\ p.f.off \in Nat
      BY <1>2 DEF FrameOf
    <3>4. \A b \in Nat : ~Carries(p.f, b)
      BY <3>1, <3>3 DEF Carries
    <3> QED BY <3>2, <3>4
  <2> QED BY <2>1, <2>2, Zenon
<1>8. ASSUME ~flowControlViolation', NEW s \in DOMAIN sentPackets', s \in recvd',
             NEW b \in Nat, Carries(sentPackets'[s], b)
      PROVE  Held(b)'
  <2>1. s \in DOMAIN sentPackets /\ Carries(sentPackets[s], b)
    BY <1>1, <1>8
  <2>2. CASE s \in recvd
    BY <2>1, <2>2, <1>6, <1>7, <1>8, Zenon DEF AckedInv
  <2>3. CASE s = p.seq
    <3>1. PICK q \in net : q = [seq |-> s, f |-> sentPackets[s]]
      BY <2>1, Zenon DEF SenderInv, WireInv
    <3>2. q.seq = p.seq /\ q.f = sentPackets[s]
      BY <3>1, <2>3, Zenon
    <3>3. sentPackets[s] = p.f
      BY <3>2, Zenon DEF SenderInv, WireInv
    <3> QED BY <3>3, <2>1, <1>7, <1>8, Zenon
  <2> QED BY <2>2, <2>3, <1>3, <1>8, Zenon
<1>9. ASSUME ~flowControlViolation', NEW b \in 0..(BytesWritten' - 1)
      PROVE  Held(b)' \/ Outstanding(b)'
  <2>1. b \in 0..(BytesWritten - 1) /\ b \in Nat
    BY <1>1, <1>9
  <2>2. Held(b) \/ Outstanding(b)
    BY <2>1, <1>6, <1>9 DEF AckedInv, NoByteAbandoned
  <2>3. Outstanding(b)' = Outstanding(b)
    BY <1>1 DEF Outstanding
  <2> QED BY <2>1, <2>2, <2>3, <1>7, <1>9, Zenon
<1>10. NoByteAbandoned'
  BY <1>9 DEF NoByteAbandoned
<1> QED BY <1>4, <1>5, <1>6, <1>8, <1>10 DEF AckedInv

\* Every step preserves the account.
LEMMA AckedStep ==
    ASSUME SenderInv, BufferInv, AckedInv, [Next]_vars
    PROVE  AckedInv'
<1>1. Growing
  BY SenderStep
<1>2. CASE Write
  BY <1>1, <1>2, WriteAccounts, AccountStep
<1>3. CASE Close \/ OnPTO \/ FlushLost
  BY <1>1, <1>3, ResendAccounts, AccountStep
<1>4. ASSUME NEW a \in acks, HandleAck(a) PROVE AckedInv'
  <2>1. /\ DetectLost(DOMAIN sentPackets \ a, largestAcked')
        /\ UNCHANGED <<BytesWritten, nextSeq, acks, recvd, flowControlViolation, recvOffset, recvOOO>>
    BY <1>4 DEF HandleAck, recvVars, streamVars
  <2>2. a \subseteq recvd
    BY DEF AckedInv
  <2>3. Accounts
    BY <2>1, <2>2, LossAccounts
  <2> QED BY <2>3, <1>1, AccountStep
<1>5. CASE LossTimer
  <2>1. /\ DetectLost(DOMAIN sentPackets, largestAcked)
        /\ UNCHANGED <<BytesWritten, nextSeq, acks, recvd, flowControlViolation, recvOffset, recvOOO>>
    BY <1>5 DEF LossTimer, recvVars, streamVars
  <2>2. PICK none : none = {}
    BY Zenon
  <2>3. DOMAIN sentPackets \ none = DOMAIN sentPackets /\ none \subseteq recvd
    BY <2>2
  <2>4. DetectLost(DOMAIN sentPackets \ none, largestAcked)
    BY <2>1, <2>3
  <2>5. Accounts
    BY <2>1, <2>3, <2>4, LossAccounts, Zenon
  <2> QED BY <2>5, <1>1, AccountStep
<1>6. ASSUME NEW p \in net, HandlePacket(p) PROVE AckedInv'
  BY <1>6, ArrivalAccounts
<1>7. CASE AckTimer \/ Read \/ ReadEOF \/ UNCHANGED vars
  <2>1. /\ UNCHANGED <<BytesWritten, nextSeq, sentPackets, lostQueue>>
        /\ UNCHANGED <<recvd, flowControlViolation, recvOffset, recvOOO>>
        /\ \A a \in acks' : a \in acks \/ a = Reported(recvd)
    BY <1>7, Zenon DEF AckTimer, Read, ReadEOF, vars, sendVars, streamVars, recvVars
  <2>2. \A a \in acks' : a \subseteq recvd'
    BY <2>1, ReportedReceived DEF AckedInv
  <2>3. \A b : Held(b)' = Held(b) /\ Outstanding(b)' = Outstanding(b)
    BY <2>1, Zenon DEF Held, Outstanding
  <2>4. NoByteAbandoned'
    BY <2>1, <2>3 DEF AckedInv, NoByteAbandoned
  <2> QED BY <2>1, <2>2, <2>3, <2>4 DEF AckedInv
<1> QED BY <1>2, <1>3, <1>4, <1>5, <1>6, <1>7 DEF Next

\* The sender lets go of no byte before the receiver holds it, whatever is
\* acknowledged, declared lost, probed or re-chunked, and in whatever order:
\* for every window, datagram size, reordering threshold and number of packets.
THEOREM NoByteIsAbandoned == Spec => []NoByteAbandoned
<1>1. Init => AckedInv
  <2> SUFFICES ASSUME Init PROVE AckedInv
    OBVIOUS
  <2>1. /\ recvd = {} /\ acks = {} /\ flowControlViolation = FALSE
        /\ DOMAIN sentPackets = {} /\ BytesWritten = 0
    BY DEF Init
  <2>2. \A b \in 0..(BytesWritten - 1) : FALSE
    BY <2>1
  <2> QED BY <2>1, <2>2, Zenon DEF AckedInv, NoByteAbandoned
<1>2. DeliveryInv /\ AckedInv /\ [Next]_vars => AckedInv'
  BY AckedStep DEF DeliveryInv
<1>3. AckedInv => NoByteAbandoned
  BY DEF AckedInv
<1> QED BY <1>1, <1>2, <1>3, DeliveryInit, DeliveryStep, PTL DEF Spec

=============================================================================
