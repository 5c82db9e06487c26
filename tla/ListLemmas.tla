----------------------------- MODULE ListLemmas -----------------------------
(***************************************************************************)
(* Facts about queues, lists and sorted keys that the proofs of the        *)
(* components share.                                                       *)
(***************************************************************************)
EXTENDS Integers, Sequences, Ordering, TLAPS

\* The members of a range from 0 are natural numbers.
LEMMA NatsBelow ==
    ASSUME NEW x, NEW n \in 0..x
    PROVE  n \in Nat
  OBVIOUS

\* A sorted list holds every member of its set, each once.
LEMMA SortedLists ==
    ASSUME NEW S, S \subseteq Int, NEW q \in Sorted(S)
    PROVE  /\ Len(q) \in Nat /\ DOMAIN q = 1..Len(q) /\ q \in [1..Len(q) -> S]
           /\ \A k \in 1..Len(q) : q[k] \in S
           /\ \A j, k \in 1..Len(q) : q[j] = q[k] => j = k
           /\ \A s \in S : \E k \in 1..Len(q) : q[k] = s
<1>1. PICK n \in 0..Cardinality(S) : q \in [1..n -> S]
  BY DEF Sorted
<1>2. n \in Nat
  BY NatsBelow
<1>3. Len(q) = n /\ DOMAIN q = 1..Len(q) /\ q \in [1..Len(q) -> S]
  BY <1>1, <1>2
<1>4. \A i \in 1..Len(q) : q[i] \in S /\ q[i] \in Int
  BY <1>3, Zenon
<1>5. \A i, j \in 1..Len(q) : i < j => q[i] < q[j]
  BY <1>3, Zenon DEF Sorted
<1>6. \A s \in S : \E i \in 1..Len(q) : q[i] = s
  BY <1>3, Zenon DEF Sorted
<1>7. \A j, k \in 1..Len(q) : q[j] = q[k] => j = k
  BY <1>2, <1>3, <1>4, <1>5
<1> QED BY <1>2, <1>3, <1>4, <1>6, <1>7

\* The length of a list is a number.
LEMMA LenNat ==
    ASSUME NEW X, NEW q \in Seq(X)
    PROVE  Len(q) \in Nat
  OBVIOUS

\* A function on 1..n is a sequence.
LEMMA IsSequence ==
    ASSUME NEW X, NEW n \in Nat, NEW q \in [1..n -> X]
    PROVE  q \in Seq(X) /\ Len(q) = n
  OBVIOUS

\* Q is p followed by q.
Joins(Q, p, q, X) ==
    /\ Q \in Seq(X) /\ Len(p) \in Nat /\ Len(q) \in Nat
    /\ Len(Q) = Len(p) + Len(q)
    /\ \A i \in 1..Len(p) : i \in 1..Len(Q) /\ Q[i] = p[i]
    /\ \A i \in 1..Len(q) : Len(p) + i \in 1..Len(Q) /\ Q[Len(p) + i] = q[i]
    /\ \A i \in 1..Len(Q) :
        \/ i \in 1..Len(p) /\ Q[i] = p[i]
        \/ i - Len(p) \in 1..Len(q) /\ Q[i] = q[i - Len(p)]

\* The entries of two queues one after the other.
LEMMA ConcatJoins ==
    ASSUME NEW X, NEW p \in Seq(X), NEW q \in Seq(X)
    PROVE  Joins(p \o q, p, q, X)
  BY DEF Joins

\* The head of a queue and what follows it.
LEMMA TailFacts ==
    ASSUME NEW X, NEW q \in Seq(X), q # <<>>
    PROVE  /\ Tail(q) \in Seq(X) /\ Len(q) \in Nat /\ 1 \in 1..Len(q) /\ Head(q) = q[1]
           /\ Len(Tail(q)) = Len(q) - 1
           /\ \A j \in 1..Len(Tail(q)) : j + 1 \in 1..Len(q) /\ Tail(q)[j] = q[j + 1]
  OBVIOUS

\* x is an entry of the queue q.
Among(x, q) == \E k \in 1..Len(q) : q[k] = x

\* An empty queue has no entry, one of length 1 has one.
LEMMA AmongFew ==
    ASSUME NEW x
    PROVE  ~Among(x, <<>>) /\ \A y : Among(y, <<x>>) <=> y = x
  BY DEF Among

\* The entries of a queue are of its kind.
LEMMA AmongSeq ==
    ASSUME NEW X, NEW q \in Seq(X), NEW x, Among(x, q)
    PROVE  x \in X
  BY DEF Among

\* The entries of two queues one after the other.
LEMMA AmongConcat ==
    ASSUME NEW X, NEW p \in Seq(X), NEW q \in Seq(X)
    PROVE  /\ p \o q \in Seq(X)
           /\ \A x : Among(x, p \o q) <=> Among(x, p) \/ Among(x, q)
<1>1. PICK Q : Q = p \o q
  BY Zenon
<1>2. Joins(Q, p, q, X)
  BY <1>1, ConcatJoins
<1>3. ASSUME NEW x, Among(x, Q) PROVE Among(x, p) \/ Among(x, q)
  <2>1. PICK i \in 1..Len(Q) : Q[i] = x
    BY <1>3 DEF Among
  <2> QED BY <2>1, <1>2, Zenon DEF Joins, Among
<1>4. ASSUME NEW x, Among(x, p) PROVE Among(x, Q)
  BY <1>2, <1>4, Zenon DEF Joins, Among
<1>5. ASSUME NEW x, Among(x, q) PROVE Among(x, Q)
  BY <1>2, <1>5, Zenon DEF Joins, Among
<1> QED BY <1>1, <1>2, <1>3, <1>4, <1>5, Zenon DEF Joins

\* The entries of a queue are its head and those of its tail.
LEMMA AmongTail ==
    ASSUME NEW X, NEW q \in Seq(X), q # <<>>
    PROVE  /\ Tail(q) \in Seq(X) /\ Head(q) = q[1] /\ Head(q) \in X
           /\ \A x : Among(x, q) <=> x = Head(q) \/ Among(x, Tail(q))
<1>1. PICK t : t = Tail(q)
  BY Zenon
<1>2. /\ t \in Seq(X) /\ Len(q) \in Nat /\ 1 \in 1..Len(q) /\ Head(q) = q[1]
      /\ Len(t) = Len(q) - 1
      /\ \A j \in 1..Len(t) : j + 1 \in 1..Len(q) /\ t[j] = q[j + 1]
  BY <1>1, TailFacts
<1>3. ASSUME NEW x, Among(x, q), x # q[1] PROVE Among(x, t)
  <2>1. PICK k \in 1..Len(q) : q[k] = x
    BY <1>3 DEF Among
  <2>2. k # 1
    BY <2>1, <1>3
  <2>3. k - 1 \in 1..Len(t) /\ (k - 1) + 1 = k
    BY <2>2, <1>2
  <2>4. t[k - 1] = x
    BY <2>1, <2>3, <1>2
  <2> QED BY <2>3, <2>4 DEF Among
<1>4. ASSUME NEW x, Among(x, t) PROVE Among(x, q)
  BY <1>2, <1>4, Zenon DEF Among
<1>5. Among(q[1], q)
  BY <1>2 DEF Among
<1>6. q[1] \in X
  BY <1>2
<1> QED BY <1>1, <1>2, <1>3, <1>4, <1>5, <1>6, Zenon

\* No entry is listed twice; no entry is in both lists.
Distinct(q) == \A j, k \in 1..Len(q) : q[j] = q[k] => j = k

Separate(q, r) == \A i : ~(Among(i, q) /\ Among(i, r))

\* The entries of two lists with nothing in common, one after the other.
LEMMA JoinDistinct ==
    ASSUME NEW X, NEW Q, NEW p, NEW q, Joins(Q, p, q, X), Distinct(p), Distinct(q),
           Separate(p, q)
    PROVE  Distinct(Q)
<1>1. PICK m \in Nat, n \in Nat : /\ m = Len(p) /\ n = Len(q) /\ Len(Q) = m + n
  BY DEF Joins
<1>2. \A i \in 1..(m + n) : \/ i \in 1..m /\ Q[i] = p[i]
                            \/ i - m \in 1..n /\ Q[i] = q[i - m]
  BY <1>1 DEF Joins
<1>0. \A j \in 1..n, k \in 1..m : q[j] # p[k]
  BY <1>1, Zenon DEF Separate, Among
<1>3. ASSUME NEW j \in 1..(m + n), NEW k \in 1..(m + n), Q[j] = Q[k] PROVE j = k
  <2>0. \/ k \in 1..m /\ Q[k] = p[k]
        \/ k - m \in 1..n /\ Q[k] = q[k - m]
    BY <1>2, Zenon
  <2>1. CASE j \in 1..m /\ Q[j] = p[j]
    <3>1. k \in 1..m /\ Q[k] = p[k]
      BY <2>0, <2>1, <1>0, <1>3, Zenon
    <3> QED BY <2>1, <3>1, <1>1, <1>3, Zenon DEF Distinct
  <2>2. CASE j - m \in 1..n /\ Q[j] = q[j - m]
    <3>1. k - m \in 1..n /\ Q[k] = q[k - m]
      BY <2>0, <2>2, <1>0, <1>3, Zenon
    <3>2. j - m = k - m
      BY <2>2, <3>1, <1>1, <1>3, Zenon DEF Distinct
    <3> QED BY <3>2, <1>1
  <2> QED BY <2>1, <2>2, <1>2, Zenon
<1>4. 1..Len(Q) = 1..(m + n)
  BY <1>1, Zenon
<1> QED BY <1>3, <1>4, Zenon DEF Distinct

\* Taking the head off.
LEMMA TailDistinct ==
    ASSUME NEW X, NEW q \in Seq(X), q # <<>>, Distinct(q), NEW t, t = Tail(q)
    PROVE  Distinct(t) /\ ~Among(Head(q), t)
<1>1. PICK n \in Nat : n = Len(q) /\ 1 \in 1..n /\ Len(t) = n - 1 /\ Head(q) = q[1]
  BY TailFacts
<1>2. \A j \in 1..(n - 1) : j + 1 \in 1..n /\ t[j] = q[j + 1] /\ j + 1 # 1
  BY <1>1, TailFacts
<1>3. \A j, k \in 1..(n - 1) : t[j] = t[k] => j + 1 = k + 1
  BY <1>1, <1>2 DEF Distinct
<1>4. \A j \in 1..(n - 1) : t[j] # q[1]
  BY <1>1, <1>2 DEF Distinct
<1>5. \A j, k \in 1..(n - 1) : j + 1 = k + 1 => j = k
  BY <1>1
<1> QED BY <1>1, <1>3, <1>4, <1>5 DEF Distinct, Among

=============================================================================
