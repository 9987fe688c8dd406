-------------------------- MODULE ParkingLotProofs --------------------------
(***************************************************************************)
(* Proofs about ParkingLot, for any threads, keys, buckets and requeues,   *)
(* when no thread parks again before the commit of its last unpark         *)
(* (~LateCommits: with them RemovalFindsSlot does not hold).               *)
(*                                                                         *)
(* From the links up: those of a sequence that are in a set (Among); the   *)
(* links that lead through a sequence per bucket (Chained) and what a push *)
(* and a removal do to them; what an unpark of one key sees of a bucket's  *)
(* queue (View) and what the steps do to that; the inductive invariant     *)
(* LotInv; and the steps of WaitQueues the steps of the parking lot are.   *)
(***************************************************************************)
EXTENDS ParkingLot, SequenceTheorems, FiniteSetTheorems, WellFoundedInduction, TLAPS

-----------------------------------------------------------------------------
(* Some elements of a sequence, in their order.                            *)

\* The least of a set of naturals, by which lemmas are proved step by step.
LEMMA LeastNatural ==
  ASSUME NEW S \in SUBSET Nat, S # {}
  PROVE  \E n \in S : \A m \in S : n <= m
<1>1. PICK n \in S : \A m \in S : ~ (<<m, n>> \in OpToRel(<, Nat))
  BY NatLessThanWellFounded, WFMin
<1>2. ASSUME NEW m \in S PROVE n <= m
  <2>1. m \in Nat /\ n \in Nat /\ ~ (m < n)
    BY <1>1 DEF OpToRel
  <2> QED BY <2>1
<1> QED BY <1>2

\* f[m] is the sequence of those of the first m of at that are in S.
Found(f, at, n, S) ==
  f = [m \in 0 .. n |->
        IF m = 0 THEN <<>>
        ELSE IF at[m] \in S THEN Append(f[m - 1], at[m])
        ELSE f[m - 1]]

\* Those of the first n of at that are in S.
Among(at, n, S) == (CHOOSE f : Found(f, at, n, S))[n]

\* There is such a function.
LEMMA FoundExists ==
  ASSUME NEW at, NEW n \in Nat, NEW S
  PROVE  \E f : Found(f, at, n, S)
<1> DEFINE B == {m \in 0 .. n : \A f : ~Found(f, at, m, S)}
<1>1. B = {}
  <2>1. SUFFICES ASSUME B # {} PROVE FALSE
    OBVIOUS
  <2>2. PICK m \in B : \A k \in B : m <= k
    <3>1. B \in SUBSET Nat
      OBVIOUS
    <3> HIDE DEF B
    <3> QED BY <2>1, <3>1, LeastNatural
  <2>3. m \in 0 .. n /\ \A f : ~Found(f, at, m, S)
    OBVIOUS
  <2>4. m # 0
    <3>1. Found([k \in 0 .. 0 |-> <<>>], at, 0, S)
      BY DEF Found
    <3> QED BY <2>3, <3>1
  <2>5. PICK f : Found(f, at, m - 1, S)
    <3>1. m - 1 \in 0 .. n /\ ~ (m <= m - 1)
      BY <2>3, <2>4
    <3> QED BY <2>2, <3>1
  <2> DEFINE g == [k \in 0 .. m |->
                    IF k < m THEN f[k]
                    ELSE IF at[m] \in S THEN Append(f[m - 1], at[m]) ELSE f[m - 1]]
  <2>6. Found(g, at, m, S)
    <3>1. ASSUME NEW k \in 0 .. m
          PROVE  g[k] = IF k = 0 THEN <<>>
                        ELSE IF at[k] \in S THEN Append(g[k - 1], at[k])
                        ELSE g[k - 1]
      <4>1. CASE k < m
        <5>1. k \in 0 .. m - 1 /\ g[k] = f[k]
          BY <2>3, <4>1
        <5>2. k # 0 => k - 1 \in 0 .. m /\ g[k - 1] = f[k - 1]
          BY <2>3, <4>1
        <5> QED BY <2>5, <5>1, <5>2 DEF Found
      <4>2. CASE k = m
        <5>1. m - 1 \in 0 .. m /\ g[m - 1] = f[m - 1]
          BY <2>3, <2>4
        <5> QED BY <2>4, <4>2, <5>1
      <4> QED BY <2>3, <4>1, <4>2
    <3> QED BY <3>1 DEF Found
  <2> QED BY <2>3, <2>6
<1> QED BY <1>1

\* How those in S are found, one element at a time.
LEMMA AmongSteps ==
  ASSUME NEW at, NEW S
  PROVE  /\ Among(at, 0, S) = <<>>
         /\ \A n \in Nat : Among(at, n + 1, S) =
              IF at[n + 1] \in S THEN Append(Among(at, n, S), at[n + 1]) ELSE Among(at, n, S)
<1> DEFINE F(n) == CHOOSE f : Found(f, at, n, S)
<1>1. \A n \in Nat : Found(F(n), at, n, S) /\ Among(at, n, S) = F(n)[n]
  BY FoundExists DEF Among
<1> HIDE DEF F
<1>2. Among(at, 0, S) = <<>>
  BY <1>1 DEF Found
<1>3. ASSUME NEW n \in Nat
      PROVE  \A m \in 0 .. n : F(n + 1)[m] = F(n)[m]
  <2> DEFINE B == {m \in 0 .. n : F(n + 1)[m] # F(n)[m]}
  <2>1. SUFFICES ASSUME B # {} PROVE FALSE
    OBVIOUS
  <2>2. PICK m \in B : \A k \in B : m <= k
    <3>1. B \in SUBSET Nat
      OBVIOUS
    <3> HIDE DEF B
    <3> QED BY <2>1, <3>1, LeastNatural
  <2>3. m \in 0 .. n /\ F(n + 1)[m] # F(n)[m]
    OBVIOUS
  <2>4. m # 0 => F(n + 1)[m - 1] = F(n)[m - 1]
    <3>1. m # 0 => m - 1 \in 0 .. n /\ ~ (m <= m - 1)
      BY <2>3
    <3> QED BY <2>2, <3>1
  <2>5. /\ F(n)[m] = IF m = 0 THEN <<>>
                     ELSE IF at[m] \in S THEN Append(F(n)[m - 1], at[m]) ELSE F(n)[m - 1]
        /\ F(n + 1)[m] = IF m = 0 THEN <<>>
                         ELSE IF at[m] \in S THEN Append(F(n + 1)[m - 1], at[m]) ELSE F(n + 1)[m - 1]
    <3>1. Found(F(n), at, n, S) /\ Found(F(n + 1), at, n + 1, S) /\ m \in 0 .. n + 1
      BY <1>1, <2>3
    <3> QED BY <2>3, <3>1 DEF Found
  <2> QED BY <2>3, <2>4, <2>5
<1>4. ASSUME NEW n \in Nat
      PROVE  Among(at, n + 1, S) =
               IF at[n + 1] \in S THEN Append(Among(at, n, S), at[n + 1]) ELSE Among(at, n, S)
  <2>1. Found(F(n + 1), at, n + 1, S) /\ Among(at, n + 1, S) = F(n + 1)[n + 1]
    BY <1>1
  <2>2. F(n + 1)[n] = Among(at, n, S)
    BY <1>1, <1>3
  <2>3. n + 1 \in 0 .. n + 1 /\ n + 1 # 0 /\ n + 1 - 1 = n
    OBVIOUS
  <2> DEFINE top == n + 1
  <2>4. ASSUME NEW k \in 0 .. top, k # 0
        PROVE  F(top)[k] = IF at[k] \in S THEN Append(F(top)[k - 1], at[k]) ELSE F(top)[k - 1]
    BY <2>1, <2>4 DEF Found
  <2>5. F(n + 1)[n + 1] = IF at[n + 1] \in S THEN Append(F(n + 1)[n], at[n + 1]) ELSE F(n + 1)[n]
    BY <2>3, <2>4
  <2> QED BY <2>1, <2>2, <2>5
<1> QED BY <1>2, <1>4

\* Only the elements that are in the set matter.
LEMMA AmongSame ==
  ASSUME NEW at, NEW bt, NEW S, NEW T, NEW n \in Nat,
         \A i \in 1 .. n : (at[i] \in S <=> bt[i] \in T) /\ (at[i] \in S => at[i] = bt[i])
  PROVE  Among(at, n, S) = Among(bt, n, T)
<1> DEFINE B == {m \in 0 .. n : Among(at, m, S) # Among(bt, m, T)}
<1>1. SUFFICES ASSUME B # {} PROVE FALSE
  OBVIOUS
<1>2. PICK m \in B : \A k \in B : m <= k
  <2>1. B \in SUBSET Nat
    OBVIOUS
  <2> HIDE DEF B
  <2> QED BY <1>1, <2>1, LeastNatural
<1>3. m \in 0 .. n /\ Among(at, m, S) # Among(bt, m, T)
  OBVIOUS
<1>4. m # 0
  BY <1>3, AmongSteps
<1> DEFINE k == m - 1
<1>5. k \in Nat /\ k \in 0 .. n /\ ~ (m <= k) /\ m = k + 1 /\ m \in 1 .. n
  BY <1>3, <1>4
<1> HIDE DEF k
<1>6. Among(at, k, S) = Among(bt, k, T)
  BY <1>2, <1>5
<1>7. /\ Among(at, m, S) = IF at[m] \in S THEN Append(Among(at, k, S), at[m]) ELSE Among(at, k, S)
      /\ Among(bt, m, T) = IF bt[m] \in T THEN Append(Among(bt, k, T), bt[m]) ELSE Among(bt, k, T)
  BY <1>5, AmongSteps
<1> QED BY <1>3, <1>5, <1>6, <1>7

\* What is found is a sequence of what is there and in the set, and all of it.
LEMMA AmongIsSeq ==
  ASSUME NEW at, NEW S, NEW n \in Nat
  PROVE  /\ Among(at, n, S) \in Seq(S)
         /\ \A x : (\E j \in 1 .. Len(Among(at, n, S)) : Among(at, n, S)[j] = x)
                    <=> (x \in S /\ \E i \in 1 .. n : at[i] = x)
<1> DEFINE Right(m) == /\ Among(at, m, S) \in Seq(S)
                       /\ \A x : (\E j \in 1 .. Len(Among(at, m, S)) : Among(at, m, S)[j] = x)
                                  <=> (x \in S /\ \E i \in 1 .. m : at[i] = x)
           B == {m \in Nat : ~Right(m)}
<1>1. Right(0)
  <2>1. Among(at, 0, S) = <<>> /\ <<>> \in Seq(S) /\ Len(<<>>) = 0
    BY AmongSteps
  <2>2. \A j : j \notin 1 .. 0
    OBVIOUS
  <2> QED BY <2>1, <2>2
<1>2. ASSUME NEW m \in Nat, Right(m) PROVE Right(m + 1)
  <2> DEFINE w == Among(at, m, S)
             v == Among(at, m + 1, S)
  <2>1. /\ w \in Seq(S)
        /\ \A x : (\E j \in 1 .. Len(w) : w[j] = x) <=> (x \in S /\ \E i \in 1 .. m : at[i] = x)
    BY <1>2
  <2>2. v = IF at[m + 1] \in S THEN Append(w, at[m + 1]) ELSE w
    BY AmongSteps
  <2> HIDE DEF w, v
  <2>3. \A x : (\E i \in 1 .. m + 1 : at[i] = x) <=> at[m + 1] = x \/ \E i \in 1 .. m : at[i] = x
    <3>1. \A i : i \in 1 .. m + 1 <=> i \in 1 .. m \/ i = m + 1
      OBVIOUS
    <3> QED BY <3>1
  <2>4. CASE at[m + 1] \notin S
    <3>1. v = w
      BY <2>2, <2>4
    <3> QED BY <2>1, <2>3, <2>4, <3>1 DEF v
  <2>5. CASE at[m + 1] \in S
    <3>1. v = Append(w, at[m + 1])
      BY <2>2, <2>5
    <3>2. v \in Seq(S)
      BY <2>1, <2>5, <3>1
    <3>3. /\ Len(w) \in Nat /\ Len(v) = Len(w) + 1
          /\ v[Len(w) + 1] = at[m + 1] /\ \A j \in 1 .. Len(w) : v[j] = w[j]
      BY <2>1, <2>5, <3>1, AppendProperties
    <3>4. \A x : (\E j \in 1 .. Len(v) : v[j] = x) <=> at[m + 1] = x \/ \E j \in 1 .. Len(w) : w[j] = x
      <4>1. \A j : j \in 1 .. Len(v) <=> j \in 1 .. Len(w) \/ j = Len(w) + 1
        BY <3>3
      <4> QED BY <3>3, <4>1
    <3> QED BY <2>1, <2>3, <2>5, <3>2, <3>4 DEF v
  <2> QED BY <2>4, <2>5
<1> HIDE DEF Right
<1>3. B = {}
  <2>1. SUFFICES ASSUME B # {} PROVE FALSE
    OBVIOUS
  <2>2. PICK m \in B : \A k \in B : m <= k
    <3>1. B \in SUBSET Nat
      OBVIOUS
    <3> HIDE DEF B
    <3> QED BY <2>1, <3>1, LeastNatural
  <2>3. m \in Nat /\ ~Right(m) /\ m # 0
    BY <1>1
  <2>4. m - 1 \in Nat /\ ~ (m <= m - 1) /\ m - 1 + 1 = m
    BY <2>3
  <2>5. Right(m - 1)
    BY <2>2, <2>4
  <2> QED BY <1>2, <2>3, <2>4, <2>5
<1> QED BY <1>3 DEF Right

\* Those of q1 come before those of q2.
LEMMA AmongConcat ==
  ASSUME NEW T, NEW q1 \in Seq(T), NEW q2 \in Seq(T), NEW S
  PROVE  Among(q1 \o q2, Len(q1 \o q2), S) = Among(q1, Len(q1), S) \o Among(q2, Len(q2), S)
<1> DEFINE q == q1 \o q2
           n == Len(q1)
           Right(m) == Among(q, n + m, S) = Among(q1, n, S) \o Among(q2, m, S)
           B == {m \in 0 .. Len(q2) : ~Right(m)}
<1>1. /\ n \in Nat /\ Len(q2) \in Nat
      /\ \A i \in 1 .. n : q[i] = q1[i]
      /\ \A i \in 1 .. Len(q2) : q[n + i] = q2[i]
  <2>1. \A i \in 1 .. n + Len(q2) : q[i] = IF i <= n THEN q1[i] ELSE q2[i - n]
    BY ConcatProperties
  <2> QED BY <2>1
<1>2. \A m \in Nat : Among(q1, n, S) \in Seq(S) /\ Among(q2, m, S) \in Seq(S)
  BY <1>1, AmongIsSeq
<1> HIDE DEF q, n
<1>3. Right(0)
  <2>1. Among(q, n, S) = Among(q1, n, S)
    BY <1>1, AmongSame
  <2>2. Among(q2, 0, S) = <<>>
    BY AmongSteps
  <2>3. Among(q1, n, S) \o <<>> = Among(q1, n, S)
    BY <1>2, ConcatEmptySeq
  <2>4. n + 0 = n
    BY <1>1
  <2> QED BY <2>1, <2>2, <2>3, <2>4
<1>4. ASSUME NEW m \in Nat, m < Len(q2), Right(m) PROVE Right(m + 1)
  <2>1. n + m \in Nat /\ n + (m + 1) = (n + m) + 1 /\ q[(n + m) + 1] = q2[m + 1]
    <3>1. m + 1 \in 1 .. Len(q2) /\ n + (m + 1) = (n + m) + 1
      BY <1>1, <1>4
    <3>2. q[n + (m + 1)] = q2[m + 1]
      BY <1>1, <3>1
    <3> QED BY <1>1, <3>1, <3>2
  <2> DEFINE x == q2[m + 1]
             a == Among(q1, n, S)
             b == Among(q2, m, S)
  <2>2. Among(q, n + (m + 1), S) = IF x \in S THEN Append(Among(q, n + m, S), x) ELSE Among(q, n + m, S)
    <3>1. Among(q, (n + m) + 1, S) =
            IF q[(n + m) + 1] \in S THEN Append(Among(q, n + m, S), q[(n + m) + 1]) ELSE Among(q, n + m, S)
      BY <2>1, AmongSteps
    <3> QED BY <2>1, <3>1
  <2>3. Among(q2, m + 1, S) = IF x \in S THEN Append(b, x) ELSE b
    BY AmongSteps
  <2>4. Among(q, n + m, S) = a \o b
    BY <1>4
  <2>5. a \in Seq(S) /\ b \in Seq(S)
    BY <1>2
  <2> HIDE DEF x, a, b
  <2>6. x \in S => Append(a \o b, x) = a \o Append(b, x)
    <3>1. ASSUME x \in S PROVE Append(a \o b, x) = a \o Append(b, x)
      <4>1. a \o b \in Seq(S) /\ <<x>> \in Seq(S)
        BY <2>5, <3>1, ConcatProperties
      <4>2. Append(a \o b, x) = (a \o b) \o <<x>> /\ Append(b, x) = b \o <<x>>
        BY <2>5, <3>1, <4>1, AppendIsConcat
      <4> QED BY <2>5, <4>1, <4>2, ConcatAssociative
    <3> QED BY <3>1
  <2> QED BY <2>2, <2>3, <2>4, <2>6 DEF a
<1> HIDE DEF Right
<1>5. B = {}
  <2>1. SUFFICES ASSUME B # {} PROVE FALSE
    OBVIOUS
  <2>2. PICK m \in B : \A k \in B : m <= k
    <3>1. B \in SUBSET Nat
      OBVIOUS
    <3> HIDE DEF B
    <3> QED BY <2>1, <3>1, LeastNatural
  <2>3. m \in 0 .. Len(q2) /\ ~Right(m) /\ m # 0
    BY <1>3
  <2>4. m - 1 \in Nat /\ ~ (m <= m - 1) /\ m - 1 + 1 = m /\ m - 1 < Len(q2) /\ m - 1 \in 0 .. Len(q2)
    BY <1>1, <2>3
  <2>5. Right(m - 1)
    BY <2>2, <2>4
  <2> QED BY <1>4, <2>3, <2>4, <2>5
<1>6. Right(Len(q2))
  BY <1>1, <1>5
<1>7. Len(q) = n + Len(q2)
  BY ConcatProperties DEF q, n
<1> QED BY <1>6, <1>7 DEF Right, q, n

\* With nothing left out, all is found.
LEMMA AmongAll ==
  ASSUME NEW S, NEW q \in Seq(S)
  PROVE  Among(q, Len(q), S) = q
<1> DEFINE Right(m) == Among(q, m, S) = SubSeq(q, 1, m)
           B == {m \in 0 .. Len(q) : ~Right(m)}
<1>1. Right(0)
  <2>1. SubSeq(q, 1, 0) = <<>>
    BY SubSeqEmpty
  <2> QED BY <2>1, AmongSteps
<1>2. ASSUME NEW m \in Nat, m < Len(q), Right(m) PROVE Right(m + 1)
  <2>1. q[m + 1] \in S
    BY <1>2
  <2>2. SubSeq(q, 1, m + 1) = Append(SubSeq(q, 1, m), q[m + 1])
    BY <1>2
  <2> QED BY <1>2, <2>1, <2>2, AmongSteps
<1> HIDE DEF Right
<1>3. B = {}
  <2>1. SUFFICES ASSUME B # {} PROVE FALSE
    OBVIOUS
  <2>2. PICK m \in B : \A k \in B : m <= k
    <3>1. B \in SUBSET Nat
      OBVIOUS
    <3> HIDE DEF B
    <3> QED BY <2>1, <3>1, LeastNatural
  <2>3. m \in 0 .. Len(q) /\ ~Right(m) /\ m # 0
    BY <1>1
  <2>4. m - 1 \in Nat /\ ~ (m <= m - 1) /\ m - 1 + 1 = m /\ m - 1 < Len(q) /\ m - 1 \in 0 .. Len(q)
    BY <2>3
  <2>5. Right(m - 1)
    BY <2>2, <2>4
  <2> QED BY <1>2, <2>3, <2>4, <2>5
<1>4. Right(Len(q))
  BY <1>3
<1>5. SubSeq(q, 1, Len(q)) = q
  OBVIOUS
<1> QED BY <1>4, <1>5 DEF Right

-----------------------------------------------------------------------------
(* The queues the links make up.                                           *)

\* The links there may be.
AllLinks ==
  [next : [Threads -> Threads \cup {None}],
   head : [Buckets -> Threads \cup {None}],
   tail : [Buckets -> Threads \cup {None}]]

\* The links L lead through the sequences q, a bucket each, and no slot is in
\* them twice.
Chained(L, q) ==
  /\ q \in [Buckets -> Seq(Threads)]
  /\ \A b, c \in Buckets : \A i \in 1 .. Len(q[b]), j \in 1 .. Len(q[c]) :
       q[b][i] = q[c][j] => b = c /\ i = j
  /\ \A b \in Buckets :
       /\ L.head[b] = IF q[b] = <<>> THEN None ELSE q[b][1]
       /\ L.tail[b] = IF q[b] = <<>> THEN None ELSE q[b][Len(q[b])]
       /\ \A i \in 1 .. Len(q[b]) :
            L.next[q[b][i]] = IF i = Len(q[b]) THEN None ELSE q[b][i + 1]

\* A queue is no longer than there are threads.
LEMMA QueueIsShort ==
  ASSUME NEW q \in Seq(Threads), \A i, j \in 1 .. Len(q) : q[i] = q[j] => i = j
  PROVE  /\ Cardinality(Threads) \in Nat
         /\ Len(q) \in Nat /\ Len(q) <= Cardinality(Threads)
<1>1. Len(q) \in Nat /\ q \in [1 .. Len(q) -> Threads]
  OBVIOUS
<1>2. q \in Injection(1 .. Len(q), Threads)
  BY <1>1 DEF Injection, IsInjective
<1>3. Cardinality(1 .. Len(q)) <= Cardinality(Threads)
  BY <1>2, ParkingLotAssumption, FS_Injection
<1>4. Cardinality(1 .. Len(q)) = Len(q)
  BY <1>1, FS_Interval
<1> QED BY <1>1, <1>3, <1>4, ParkingLotAssumption, FS_CardinalityType

\* Following the links finds the queue.
LEMMA WalkFindsQueue ==
  ASSUME NEW L \in AllLinks, NEW q, Chained(L, q), NEW b \in Buckets, NEW S \in SUBSET Threads
  PROVE  Walk(L, b, S) = Among(q[b], Len(q[b]), S)
<1> DEFINE len == Len(q[b])
           top == Cardinality(Threads)
           next == [s \in Threads \cup {None} |-> IF s = None THEN None ELSE L.next[s]]
           Follows(at) == at = [n \in 1 .. top |-> IF n = 1 THEN L.head[b] ELSE next[at[n - 1]]]
           at == CHOOSE at : Follows(at)
           w == [n \in 1 .. top |-> IF n <= len THEN q[b][n] ELSE None]
<1>1. Walk(L, b, S) = Among(at, top, S)
  BY DEF Walk, Among, Found
<1>2. /\ q[b] \in Seq(Threads) /\ \A i, j \in 1 .. len : q[b][i] = q[b][j] => i = j
      /\ L.head[b] = IF q[b] = <<>> THEN None ELSE q[b][1]
      /\ \A i \in 1 .. len : L.next[q[b][i]] = IF i = len THEN None ELSE q[b][i + 1]
  BY DEF Chained
<1>3. top \in Nat /\ len \in Nat /\ len <= top
  BY <1>2, QueueIsShort
<1>4. \A i \in 1 .. len : q[b][i] \in Threads
  BY <1>2
<1>5. None \notin Threads
  BY ParkingLotAssumption
<1>6. ASSUME NEW n \in 1 .. top
      PROVE  w[n] = IF n = 1 THEN L.head[b] ELSE next[w[n - 1]]
  <2>1. CASE n = 1
    BY <1>2, <1>3, <2>1
  <2>2. CASE n # 1 /\ n - 1 <= len
    <3>1. n - 1 \in 1 .. len /\ w[n - 1] = q[b][n - 1] /\ n - 1 + 1 = n /\ (n - 1 = len <=> ~ (n <= len))
      BY <1>3, <2>2
    <3>2. next[w[n - 1]] = L.next[q[b][n - 1]]
      BY <1>4, <1>5, <3>1
    <3> QED BY <1>2, <2>2, <3>1, <3>2
  <2>3. CASE n # 1 /\ ~ (n - 1 <= len)
    <3>1. n - 1 \in 1 .. top /\ w[n - 1] = None /\ w[n] = None
      BY <1>3, <2>3
    <3> QED BY <2>3, <3>1
  <2> QED BY <2>1, <2>2, <2>3
<1>7. Follows(w)
  BY <1>6
<1> HIDE DEF w
<1>8. Follows(at)
  BY <1>7
<1> HIDE DEF at
<1>9. \A n \in 1 .. top : at[n] = w[n]
  <2> DEFINE B == {n \in 1 .. top : at[n] # w[n]}
  <2>1. SUFFICES ASSUME B # {} PROVE FALSE
    OBVIOUS
  <2>2. PICK n \in B : \A k \in B : n <= k
    <3>1. B \in SUBSET Nat
      OBVIOUS
    <3> HIDE DEF B
    <3> QED BY <2>1, <3>1, LeastNatural
  <2>3. n \in 1 .. top /\ at[n] # w[n]
    OBVIOUS
  <2>4. n # 1 => at[n - 1] = w[n - 1]
    <3>1. n # 1 => n - 1 \in 1 .. top /\ ~ (n <= n - 1)
      BY <1>3, <2>3
    <3> QED BY <2>2, <3>1
  <2>5. at[n] = IF n = 1 THEN L.head[b] ELSE next[at[n - 1]]
    BY <1>8, <2>3
  <2> HIDE DEF next
  <2> QED BY <1>6, <2>3, <2>4, <2>5
<1>10. Among(at, len, S) = Among(q[b], len, S)
  <2>1. \A i \in 1 .. len : at[i] = q[b][i]
    BY <1>3, <1>9 DEF w
  <2> QED BY <1>3, <2>1, AmongSame
<1>11. \A n \in len .. top : Among(at, n, S) = Among(at, len, S)
  <2> DEFINE B == {n \in len .. top : Among(at, n, S) # Among(at, len, S)}
  <2>1. SUFFICES ASSUME B # {} PROVE FALSE
    OBVIOUS
  <2>2. PICK n \in B : \A k \in B : n <= k
    <3>1. B \in SUBSET Nat
      BY <1>3
    <3> HIDE DEF B
    <3> QED BY <2>1, <3>1, LeastNatural
  <2>3. n \in len .. top /\ Among(at, n, S) # Among(at, len, S)
    OBVIOUS
  <2> DEFINE m == n - 1
  <2>4. m \in Nat /\ m \in len .. top /\ ~ (n <= m) /\ n = m + 1 /\ n \in 1 .. top /\ ~ (n <= len)
    BY <1>3, <2>3
  <2>5. Among(at, m, S) = Among(at, len, S)
    BY <2>2, <2>4
  <2>6. at[n] = None /\ None \notin S
    BY <1>5, <1>9, <2>4 DEF w
  <2> HIDE DEF m
  <2> QED BY <2>3, <2>4, <2>5, <2>6, AmongSteps
<1> QED BY <1>1, <1>3, <1>10, <1>11

\* The slots of a bucket are those of its queue.
LEMMA WalkFindsAll ==
  ASSUME NEW L \in AllLinks, NEW q, Chained(L, q), NEW b \in Buckets
  PROVE  Walk(L, b, Threads) = q[b] /\ ToSet(Walk(L, b, Threads)) = {q[b][i] : i \in 1 .. Len(q[b])}
<1>1. Walk(L, b, Threads) = Among(q[b], Len(q[b]), Threads)
  BY WalkFindsQueue
<1>2. q[b] \in Seq(Threads)
  BY DEF Chained
<1>3. Walk(L, b, Threads) = q[b]
  BY <1>1, <1>2, AmongAll
<1> QED BY <1>2, <1>3 DEF ToSet

\* A slot that is pushed is the last of the queue.
LEMMA PushChains ==
  ASSUME NEW L \in AllLinks, NEW q, Chained(L, q), NEW b \in Buckets, NEW s \in Threads,
         \A c \in Buckets : \A i \in 1 .. Len(q[c]) : q[c][i] # s
  PROVE  Pushed(L, b, s) \in AllLinks /\ Chained(Pushed(L, b, s), [q EXCEPT ![b] = Append(@, s)])
<1> DEFINE M == Pushed(L, b, s)
           p == [q EXCEPT ![b] = Append(@, s)]
           len == Len(q[b])
<1>1. /\ q \in [Buckets -> Seq(Threads)] /\ q[b] \in Seq(Threads) /\ len \in Nat
      /\ None \notin Threads
  BY ParkingLotAssumption DEF Chained
<1>2. /\ p \in [Buckets -> Seq(Threads)]
      /\ \A c \in Buckets : c # b => p[c] = q[c]
      /\ p[b] = Append(q[b], s) /\ p[b] # <<>> /\ Len(p[b]) = len + 1 /\ p[b][len + 1] = s
      /\ \A i \in 1 .. len : p[b][i] = q[b][i]
  BY <1>1, AppendProperties
<1>3. /\ L.tail[b] = IF q[b] = <<>> THEN None ELSE q[b][len]
      /\ L.head[b] = IF q[b] = <<>> THEN None ELSE q[b][1]
      /\ q[b] # <<>> => q[b][len] \in Threads /\ len \in 1 .. len
      /\ q[b] = <<>> => len = 0
  BY <1>1 DEF Chained
<1> HIDE DEF p, len
<1>4. /\ M.next = IF q[b] = <<>> THEN [L.next EXCEPT ![s] = None]
                  ELSE [[L.next EXCEPT ![s] = None] EXCEPT ![q[b][len]] = s]
      /\ M.head = IF q[b] = <<>> THEN [L.head EXCEPT ![b] = s] ELSE L.head
      /\ M.tail = [L.tail EXCEPT ![b] = s]
      /\ M = [next |-> M.next, head |-> M.head, tail |-> M.tail]
  BY <1>1, <1>3 DEF Pushed
<1> HIDE DEF M
<1>5. M \in AllLinks
  <2>1. /\ M.next \in [Threads -> Threads \cup {None}]
        /\ M.head \in [Buckets -> Threads \cup {None}]
        /\ M.tail \in [Buckets -> Threads \cup {None}]
    BY <1>3, <1>4 DEF AllLinks
  <2> QED BY <1>4, <2>1 DEF AllLinks
<1>6. \A c \in Buckets : \A i \in 1 .. Len(p[c]) :
        \/ i \in 1 .. Len(q[c]) /\ p[c][i] = q[c][i] /\ p[c][i] # s
        \/ c = b /\ i = len + 1 /\ p[c][i] = s
  <2>1. \A i \in 1 .. Len(p[b]) : i \in 1 .. len \/ i = len + 1
    BY <1>1, <1>2
  <2> QED BY <1>2, <2>1 DEF len
<1>7. \A c, d \in Buckets : \A i \in 1 .. Len(p[c]), j \in 1 .. Len(p[d]) :
        p[c][i] = p[d][j] => c = d /\ i = j
  BY <1>6 DEF Chained
<1>8. ASSUME NEW c \in Buckets, c # b
      PROVE  /\ M.head[c] = IF p[c] = <<>> THEN None ELSE p[c][1]
             /\ M.tail[c] = IF p[c] = <<>> THEN None ELSE p[c][Len(p[c])]
             /\ \A i \in 1 .. Len(p[c]) :
                  M.next[p[c][i]] = IF i = Len(p[c]) THEN None ELSE p[c][i + 1]
  <2>1. p[c] = q[c] /\ M.head[c] = L.head[c] /\ M.tail[c] = L.tail[c]
    BY <1>2, <1>4, <1>8 DEF AllLinks
  <2>2. ASSUME NEW i \in 1 .. Len(q[c]) PROVE M.next[q[c][i]] = L.next[q[c][i]]
    <3>1. q[c][i] \in Threads /\ q[c][i] # s
      BY <1>1
    <3>2. q[b] # <<>> => q[c][i] # q[b][len]
      BY <1>3, <1>8 DEF Chained, len
    <3> QED BY <1>3, <1>4, <3>1, <3>2 DEF AllLinks
  <2> QED BY <2>1, <2>2 DEF Chained
<1>9. M.head[b] = p[b][1] /\ M.tail[b] = p[b][Len(p[b])]
  <2>1. M.tail[b] = s
    BY <1>4 DEF AllLinks
  <2>2. M.head[b] = p[b][1]
    <3>1. CASE q[b] = <<>>
      BY <1>2, <1>3, <1>4, <3>1 DEF AllLinks
    <3>2. CASE q[b] # <<>>
      BY <1>1, <1>2, <1>3, <1>4, <3>2 DEF AllLinks
    <3> QED BY <3>1, <3>2
  <2> QED BY <1>2, <2>1, <2>2
<1>10. ASSUME NEW i \in 1 .. Len(p[b])
       PROVE  M.next[p[b][i]] = IF i = Len(p[b]) THEN None ELSE p[b][i + 1]
  <2>1. CASE i = len + 1
    <3>1. p[b][i] = s /\ i = Len(p[b])
      BY <1>2, <2>1
    <3>2. q[b] # <<>> => q[b][len] # s
      BY <1>3 DEF len
    <3>3. M.next[s] = None
      BY <1>3, <1>4, <3>2 DEF AllLinks
    <3> QED BY <3>1, <3>3
  <2>2. CASE i \in 1 .. len
    <3>1. p[b][i] = q[b][i] /\ q[b][i] \in Threads /\ q[b][i] # s /\ i # Len(p[b]) /\ q[b] # <<>>
      BY <1>1, <1>2, <1>3, <2>2 DEF len
    <3>2. CASE i = len
      <4>1. M.next[q[b][i]] = s
        BY <1>3, <1>4, <3>1, <3>2 DEF AllLinks
      <4> QED BY <1>2, <3>1, <3>2, <4>1
    <3>3. CASE i # len
      <4>1. q[b][i] # q[b][len] /\ i + 1 \in 1 .. len
        BY <1>1, <1>3, <2>2, <3>1, <3>3 DEF Chained, len
      <4>2. M.next[q[b][i]] = L.next[q[b][i]]
        BY <1>3, <1>4, <3>1, <4>1 DEF AllLinks
      <4>3. L.next[q[b][i]] = q[b][i + 1]
        BY <2>2, <3>3 DEF Chained, len
      <4> QED BY <1>2, <3>1, <4>1, <4>2, <4>3
    <3> QED BY <3>2, <3>3
  <2> QED BY <1>1, <1>2, <2>1, <2>2
<1>11. Chained(M, p)
  <2>1. ASSUME NEW c \in Buckets
        PROVE  /\ M.head[c] = IF p[c] = <<>> THEN None ELSE p[c][1]
               /\ M.tail[c] = IF p[c] = <<>> THEN None ELSE p[c][Len(p[c])]
               /\ \A i \in 1 .. Len(p[c]) :
                    M.next[p[c][i]] = IF i = Len(p[c]) THEN None ELSE p[c][i + 1]
    BY <1>2, <1>8, <1>9, <1>10
  <2> QED BY <1>2, <1>7, <2>1 DEF Chained
<1> QED BY <1>5, <1>11 DEF M, p

\* The sequence q without its i-th element.
Cut(q, i) == SubSeq(q, 1, i - 1) \o SubSeq(q, i + 1, Len(q))

\* Those behind it move up.
LEMMA CutMovesUp ==
  ASSUME NEW S, NEW q \in Seq(S), NEW i \in 1 .. Len(q)
  PROVE  /\ Cut(q, i) \in Seq(S) /\ Len(q) \in Nat
         /\ Len(Cut(q, i)) = Len(q) - 1
         /\ \A j \in 1 .. Len(q) - 1 : Cut(q, i)[j] = IF j < i THEN q[j] ELSE q[j + 1]
         /\ Len(q) = 1 <=> Cut(q, i) = <<>>
<1>1. Len(q) \in Nat /\ \A j \in 1 .. Len(q) : q[j] \in S
  OBVIOUS
<1>2. /\ SubSeq(q, 1, i - 1) \in Seq(S) /\ Len(SubSeq(q, 1, i - 1)) = i - 1
      /\ \A j \in 1 .. i - 1 : SubSeq(q, 1, i - 1)[j] = q[j]
  <2>1. \A j \in 1 .. i - 1 : q[j] \in S
    BY <1>1
  <2> QED BY <2>1, SubSeqProperties
<1>3. /\ SubSeq(q, i + 1, Len(q)) \in Seq(S) /\ Len(SubSeq(q, i + 1, Len(q))) = Len(q) - i
      /\ \A j \in 1 .. Len(q) - i : SubSeq(q, i + 1, Len(q))[j] = q[i + j]
  <2>1. \A j \in i + 1 .. Len(q) : q[j] \in S
    BY <1>1
  <2>2. \A j \in 1 .. Len(q) - (i + 1) + 1 : SubSeq(q, i + 1, Len(q))[j] = q[i + 1 + j - 1]
    BY <1>1, <2>1, SubSeqProperties
  <2>3. \A j \in 1 .. Len(q) - i : j \in 1 .. Len(q) - (i + 1) + 1 /\ i + 1 + j - 1 = i + j
    BY <1>1
  <2>4. SubSeq(q, i + 1, Len(q)) \in Seq(S) /\ Len(SubSeq(q, i + 1, Len(q))) = Len(q) - i
    BY <1>1, <2>1, SubSeqProperties
  <2> QED BY <2>2, <2>3, <2>4
<1> DEFINE u == SubSeq(q, 1, i - 1)
           v == SubSeq(q, i + 1, Len(q))
<1> HIDE DEF u, v
<1>4. /\ u \o v \in Seq(S) /\ Len(u \o v) = Len(q) - 1
      /\ \A j \in 1 .. Len(q) - 1 : (u \o v)[j] = IF j <= i - 1 THEN u[j] ELSE v[j - (i - 1)]
  <2>1. /\ u \in Seq(S) /\ Len(u) = i - 1
        /\ v \in Seq(S) /\ Len(v) = Len(q) - i
    BY <1>2, <1>3 DEF u, v
  <2>2. Len(u) + Len(v) = Len(q) - 1
    BY <1>1, <2>1
  <2> QED BY <2>1, <2>2, ConcatProperties
<1>5. ASSUME NEW j \in 1 .. Len(q) - 1
      PROVE  (u \o v)[j] = IF j < i THEN q[j] ELSE q[j + 1]
  <2>1. CASE j < i
    BY <1>1, <1>2, <1>4, <2>1 DEF u
  <2>2. CASE ~ (j < i)
    <3>1. j - (i - 1) \in 1 .. Len(q) - i /\ i + (j - (i - 1)) = j + 1 /\ ~ (j <= i - 1)
      BY <1>1, <2>2
    <3> QED BY <1>3, <1>4, <2>2, <3>1 DEF v
  <2> QED BY <2>1, <2>2
<1>6. Len(q) = 1 <=> u \o v = <<>>
  BY <1>1, <1>4, EmptySeq
<1> QED BY <1>1, <1>4, <1>5, <1>6 DEF Cut, u, v

\* A slot that is removed leaves the others in their order.
LEMMA RemoveChains ==
  ASSUME NEW L \in AllLinks, NEW q, Chained(L, q), NEW b \in Buckets, NEW i \in 1 .. Len(q[b])
  PROVE  /\ Removed(L, b, q[b][i]) \in AllLinks
         /\ Chained(Removed(L, b, q[b][i]), [q EXCEPT ![b] = Cut(@, i)])
<1> DEFINE s == q[b][i]
           M == Removed(L, b, s)
           p == [q EXCEPT ![b] = Cut(@, i)]
           len == Len(q[b])
           before == Before(L, b, s)
<1>1. /\ q \in [Buckets -> Seq(Threads)] /\ q[b] \in Seq(Threads) /\ len \in Nat
      /\ None \notin Threads /\ s \in Threads /\ q[b] # <<>>
      /\ i \in 1 .. len /\ \A j \in 1 .. len : q[b][j] \in Threads
  BY ParkingLotAssumption DEF Chained
<1>2. /\ p \in [Buckets -> Seq(Threads)]
      /\ \A c \in Buckets : c # b => p[c] = q[c]
      /\ p[b] = Cut(q[b], i) /\ Len(p[b]) = len - 1 /\ (len = 1 <=> p[b] = <<>>)
      /\ \A j \in 1 .. len - 1 : p[b][j] = IF j < i THEN q[b][j] ELSE q[b][j + 1]
  BY <1>1, CutMovesUp
<1>3. /\ L.tail[b] = q[b][len]
      /\ L.head[b] = q[b][1]
      /\ \A j \in 1 .. len : L.next[q[b][j]] = IF j = len THEN None ELSE q[b][j + 1]
      /\ \A j, k \in 1 .. len : q[b][j] = q[b][k] => j = k
  BY <1>1 DEF Chained
<1>4. before = IF i = 1 THEN None ELSE q[b][i - 1]
  <2>1. 1 \in 1 .. len
    BY <1>1
  <2>2. CASE i = 1
    BY <1>3, <2>2 DEF Before
  <2>3. CASE i # 1
    <3>1. L.head[b] # s
      BY <1>1, <1>3, <2>1, <2>3
    <3>2. before = CHOOSE t \in {q[b][j] : j \in 1 .. len} : L.next[t] = s
      BY <3>1, WalkFindsAll DEF Before
    <3>3. ASSUME NEW t \in {q[b][j] : j \in 1 .. len}
          PROVE  L.next[t] = s <=> t = q[b][i - 1]
      <4>1. PICK j \in 1 .. len : t = q[b][j]
        BY <3>3
      <4>2. L.next[t] = IF j = len THEN None ELSE q[b][j + 1]
        BY <1>3, <4>1
      <4>3. L.next[t] = s <=> j + 1 = i
        <5>1. CASE j = len
          BY <1>1, <4>2, <5>1
        <5>2. CASE j # len
          <6>1. j + 1 \in 1 .. len
            BY <1>1, <5>2
          <6> QED BY <1>1, <1>3, <4>2, <5>2, <6>1
        <5> QED BY <5>1, <5>2
      <4>4. i - 1 \in 1 .. len
        BY <1>1, <2>3
      <4>5. t = q[b][i - 1] <=> j = i - 1
        BY <1>3, <4>1, <4>4
      <4> QED BY <1>1, <4>3, <4>5
    <3>4. q[b][i - 1] \in {q[b][j] : j \in 1 .. len}
      BY <1>1, <2>3
    <3> QED BY <2>3, <3>2, <3>3, <3>4
  <2> QED BY <2>2, <2>3
<1> HIDE DEF before, p, len, s
<1>5. i # 1 => i - 1 \in 1 .. len /\ before \in Threads /\ before # None
  BY <1>1, <1>4
<1>6. /\ M.next = IF i = 1 THEN [L.next EXCEPT ![s] = None]
                  ELSE [[L.next EXCEPT ![before] = L.next[s]] EXCEPT ![s] = None]
      /\ M.head = IF i = 1 THEN [L.head EXCEPT ![b] = L.next[s]] ELSE L.head
      /\ M.tail = IF L.tail[b] = s THEN [L.tail EXCEPT ![b] = before] ELSE L.tail
      /\ M = [next |-> M.next, head |-> M.head, tail |-> M.tail]
  BY <1>4, <1>5 DEF Removed, before
<1> HIDE DEF M
<1>7. /\ L.next[s] = IF i = len THEN None ELSE q[b][i + 1]
      /\ L.tail[b] = s <=> i = len
      /\ L.next[s] \in Threads \cup {None}
  <2>1. len \in 1 .. len
    BY <1>1
  <2> QED BY <1>1, <1>3, <2>1 DEF s, AllLinks
<1>8. before \in Threads \cup {None}
  BY <1>4, <1>5
<1>9. M \in AllLinks
  <2>1. /\ M.next \in [Threads -> Threads \cup {None}]
        /\ M.head \in [Buckets -> Threads \cup {None}]
        /\ M.tail \in [Buckets -> Threads \cup {None}]
    BY <1>6, <1>7, <1>8 DEF AllLinks
  <2> QED BY <1>6, <2>1 DEF AllLinks
<1>10. \A c \in Buckets : \A j \in 1 .. Len(p[c]) :
         \/ c # b /\ j \in 1 .. Len(q[c]) /\ p[c][j] = q[c][j]
         \/ c = b /\ j < i /\ j \in 1 .. len /\ p[c][j] = q[b][j]
         \/ c = b /\ j >= i /\ j + 1 \in 1 .. len /\ p[c][j] = q[b][j + 1]
  <2>1. ASSUME NEW j \in 1 .. len - 1
        PROVE  \/ j < i /\ j \in 1 .. len /\ p[b][j] = q[b][j]
               \/ j >= i /\ j + 1 \in 1 .. len /\ p[b][j] = q[b][j + 1]
    BY <1>1, <1>2
  <2> QED BY <1>2, <2>1
<1>11. \A c, d \in Buckets : \A j \in 1 .. Len(p[c]), k \in 1 .. Len(p[d]) :
         p[c][j] = p[d][k] => c = d /\ j = k
  <2>1. \A c, d \in Buckets : \A j \in 1 .. Len(q[c]), k \in 1 .. Len(q[d]) :
          q[c][j] = q[d][k] => c = d /\ j = k
    BY DEF Chained
  <2> SUFFICES ASSUME NEW c \in Buckets, NEW d \in Buckets, NEW j \in 1 .. Len(p[c]), NEW k \in 1 .. Len(p[d]),
                      p[c][j] = p[d][k]
               PROVE  c = d /\ j = k
    OBVIOUS
  <2>2. ASSUME NEW e \in Buckets, NEW m \in 1 .. Len(p[e])
        PROVE  \E n \in 1 .. Len(q[e]) : /\ p[e][m] = q[e][n]
                                         /\ n = IF e = b /\ ~ (m < i) THEN m + 1 ELSE m
    <3>1. m \in Int
      OBVIOUS
    <3> QED BY <1>1, <1>10, <3>1 DEF len
  <2>3. PICK m \in 1 .. Len(q[c]) : p[c][j] = q[c][m] /\ m = IF c = b /\ ~ (j < i) THEN j + 1 ELSE j
    BY <2>2
  <2>4. PICK n \in 1 .. Len(q[d]) : p[d][k] = q[d][n] /\ n = IF d = b /\ ~ (k < i) THEN k + 1 ELSE k
    BY <2>2
  <2>5. c = d /\ m = n
    <3>1. q[c][m] = q[d][n]
      BY <2>3, <2>4
    <3>2. m \in 1 .. Len(q[c]) /\ n \in 1 .. Len(q[d])
      BY <2>3, <2>4
    <3> QED BY <2>1, <3>1, <3>2
  <2>6. j \in Int /\ k \in Int /\ i \in Int
    BY <1>1
  <2> QED BY <2>3, <2>4, <2>5, <2>6
<1>12. ASSUME NEW c \in Buckets, c # b
       PROVE  /\ M.head[c] = IF p[c] = <<>> THEN None ELSE p[c][1]
              /\ M.tail[c] = IF p[c] = <<>> THEN None ELSE p[c][Len(p[c])]
              /\ \A j \in 1 .. Len(p[c]) :
                   M.next[p[c][j]] = IF j = Len(p[c]) THEN None ELSE p[c][j + 1]
  <2>1. p[c] = q[c] /\ M.head[c] = L.head[c] /\ M.tail[c] = L.tail[c]
    BY <1>2, <1>6, <1>12 DEF AllLinks
  <2>2. ASSUME NEW j \in 1 .. Len(q[c]) PROVE M.next[q[c][j]] = L.next[q[c][j]]
    <3>1. q[c][j] \in Threads /\ q[c][j] # s
      BY <1>1, <1>12 DEF Chained, s, len
    <3>2. i # 1 => q[c][j] # before
      BY <1>4, <1>5, <1>12 DEF Chained, len
    <3> QED BY <1>6, <3>1, <3>2 DEF AllLinks
  <2> QED BY <2>1, <2>2 DEF Chained
<1>13. M.head[b] = IF p[b] = <<>> THEN None ELSE p[b][1]
  <2>1. CASE i = 1
    <3>1. M.head[b] = L.next[s]
      BY <1>6, <2>1 DEF AllLinks
    <3>2. len # 1 => 1 \in 1 .. len - 1 /\ 1 + 1 = i + 1
      BY <1>1, <2>1
    <3> QED BY <1>1, <1>2, <1>7, <2>1, <3>1, <3>2
  <2>2. CASE i # 1
    <3>1. M.head[b] = q[b][1] /\ 1 \in 1 .. len - 1 /\ 1 < i /\ len # 1
      BY <1>1, <1>3, <1>6, <2>2
    <3> QED BY <1>2, <3>1
  <2> QED BY <2>1, <2>2
<1>14. M.tail[b] = IF p[b] = <<>> THEN None ELSE p[b][Len(p[b])]
  <2>1. CASE i = len
    <3>1. M.tail[b] = before
      BY <1>6, <1>7, <2>1 DEF AllLinks
    <3>2. len # 1 => len - 1 \in 1 .. len - 1 /\ len - 1 < i /\ i # 1 /\ i - 1 = len - 1
      BY <1>1, <2>1
    <3> QED BY <1>1, <1>2, <1>4, <2>1, <3>1, <3>2
  <2>2. CASE i # len
    <3>1. M.tail[b] = q[b][len] /\ len - 1 \in 1 .. len - 1 /\ ~ (len - 1 < i) /\ len # 1 /\ len - 1 + 1 = len
      BY <1>1, <1>3, <1>6, <1>7, <2>2
    <3> QED BY <1>2, <3>1
  <2> QED BY <2>1, <2>2
<1>15. ASSUME NEW j \in 1 .. len, j # i
       PROVE  M.next[q[b][j]] = IF j = i - 1 THEN L.next[s] ELSE L.next[q[b][j]]
  <2>1. q[b][j] \in Threads /\ q[b][j] # s
    BY <1>1, <1>3, <1>15 DEF s
  <2>2. i # 1 => (q[b][j] = before <=> j = i - 1)
    BY <1>3, <1>4, <1>5
  <2>3. i = 1 => j # i - 1
    BY <1>1
  <2> QED BY <1>6, <2>1, <2>2, <2>3 DEF AllLinks
<1>16. ASSUME NEW j \in 1 .. len - 1
       PROVE  M.next[p[b][j]] = IF j = len - 1 THEN None ELSE p[b][j + 1]
  <2>1. j \in Int /\ i \in Int /\ len \in Int
    BY <1>1
  <2>2. CASE j < i
    <3>1. p[b][j] = q[b][j] /\ j \in 1 .. len /\ j # i
      BY <1>1, <1>2, <2>2
    <3>2. CASE j = i - 1
      <4>1. M.next[p[b][j]] = IF i = len THEN None ELSE q[b][i + 1]
        BY <1>7, <1>15, <3>1, <3>2
      <4>2. i # len => j + 1 \in 1 .. len - 1 /\ ~ (j + 1 < i) /\ j + 1 = i
        BY <1>1, <2>1, <3>2
      <4>3. i = len <=> j = len - 1
        BY <2>1, <3>2
      <4> QED BY <1>2, <4>1, <4>2, <4>3
    <3>3. CASE j # i - 1
      <4>1. M.next[p[b][j]] = IF j = len THEN None ELSE q[b][j + 1]
        BY <1>3, <1>15, <3>1, <3>3
      <4>2. j # len /\ j # len - 1 /\ j + 1 \in 1 .. len - 1 /\ j + 1 < i
        BY <1>1, <2>1, <2>2, <3>3
      <4> QED BY <1>2, <4>1, <4>2
    <3> QED BY <3>2, <3>3
  <2>3. CASE ~ (j < i)
    <3>1. p[b][j] = q[b][j + 1] /\ j + 1 \in 1 .. len /\ j + 1 # i /\ j + 1 # i - 1
      BY <1>1, <1>2, <2>1, <2>3
    <3>2. M.next[p[b][j]] = IF j + 1 = len THEN None ELSE q[b][j + 1 + 1]
      BY <1>3, <1>15, <3>1
    <3>3. j # len - 1 => j + 1 \in 1 .. len - 1 /\ ~ (j + 1 < i)
      BY <2>1, <2>3
    <3>4. j + 1 = len <=> j = len - 1
      BY <2>1
    <3> QED BY <1>2, <3>2, <3>3, <3>4
  <2> QED BY <2>2, <2>3
<1>17. Chained(M, p)
  <2>1. ASSUME NEW c \in Buckets
        PROVE  /\ M.head[c] = IF p[c] = <<>> THEN None ELSE p[c][1]
               /\ M.tail[c] = IF p[c] = <<>> THEN None ELSE p[c][Len(p[c])]
               /\ \A j \in 1 .. Len(p[c]) :
                    M.next[p[c][j]] = IF j = Len(p[c]) THEN None ELSE p[c][j + 1]
    BY <1>2, <1>12, <1>13, <1>14, <1>16
  <2> QED BY <1>2, <1>11, <2>1 DEF Chained
<1> QED BY <1>9, <1>17 DEF M, p, s

\* The same, named so that it can be cited for three parts.
Joins(q1, q2, S) ==
  Among(q1 \o q2, Len(q1 \o q2), S) = Among(q1, Len(q1), S) \o Among(q2, Len(q2), S)

\* What is found in a queue joins what is found in the next.
LEMMA AmongJoins ==
  \A T, S : \A q1, q2 \in Seq(T) : Joins(q1, q2, S)
BY AmongConcat DEF Joins

\* When a sequence is cut, so is what is found in it.
LEMMA AmongCut ==
  ASSUME NEW T, NEW q \in Seq(T), NEW i \in 1 .. Len(q), NEW S
  PROVE  /\ q[i] \notin S => Among(Cut(q, i), Len(Cut(q, i)), S) = Among(q, Len(q), S)
         /\ q[i] \in S => \E j \in 1 .. Len(Among(q, Len(q), S)) :
              /\ Among(q, Len(q), S)[j] = q[i]
              /\ Among(Cut(q, i), Len(Cut(q, i)), S) = Cut(Among(q, Len(q), S), j)
              /\ (\A m \in 1 .. Len(q) : q[m] = q[i] => m = i) /\ Among(q, Len(q), S)[1] = q[i] => j = 1
<1> DEFINE u == SubSeq(q, 1, i - 1)
           v == SubSeq(q, i + 1, Len(q))
           s == q[i]
           a == Among(u, Len(u), S)
           c == Among(v, Len(v), S)
           w == Among(q, Len(q), S)
<1>1. /\ s \in T /\ <<s>> \in Seq(T) /\ Len(<<s>>) = 1
      /\ u \in Seq(T) /\ v \in Seq(T) /\ Len(q) \in Nat /\ Len(u) = i - 1
      /\ \A m \in 1 .. i - 1 : u[m] = q[m]
  <2>1. \A m \in 1 .. Len(q) : q[m] \in T
    OBVIOUS
  <2>2. \A m \in 1 .. i - 1 : q[m] \in T
    BY <2>1
  <2>3. \A m \in i + 1 .. Len(q) : q[m] \in T
    BY <2>1
  <2>4. u \in Seq(T) /\ Len(u) = (IF 1 <= i - 1 THEN i - 1 - 1 + 1 ELSE 0) /\ \A m \in 1 .. i - 1 - 1 + 1 : u[m] = q[1 + m - 1]
    BY <2>2, SubSeqProperties
  <2>5. v \in Seq(T)
    BY <2>3, SubSeqProperties
  <2> HIDE DEF u, v
  <2>6. Len(q) \in Nat /\ i \in Int /\ 1 <= i
    OBVIOUS
  <2>7. \A m \in 1 .. i - 1 : m \in 1 .. i - 1 - 1 + 1 /\ 1 + m - 1 = m
    BY <2>6
  <2>8. \A m \in 1 .. i - 1 : u[m] = q[m]
    BY <2>4, <2>7
  <2>9. Len(u) = i - 1
    BY <2>4, <2>6
  <2> QED BY <2>1, <2>5, <2>4, <2>6, <2>8, <2>9
<1>2. q = u \o (<<s>> \o v)
  <2>1. q = SubSeq(q, 1, Len(q))
    BY SubSeqFull
  <2>2. SubSeq(q, 1, i) = u \o <<s>>
    <3>1. 1 \in 1 .. Len(q) /\ i \in 1 .. Len(q)
      BY <1>1
    <3> QED BY <3>1, SubSeqRecursiveSecond
  <2>3. SubSeq(q, 1, Len(q)) = SubSeq(q, 1, i) \o v
    BY <1>1, ConcatAdjacentSubSeq
  <2> HIDE DEF u, v, s
  <2>4. (u \o <<s>>) \o v = u \o (<<s>> \o v)
    BY <1>1, ConcatAssociative
  <2> QED BY <2>1, <2>2, <2>3, <2>4
<1>3. Cut(q, i) = u \o v /\ Len(Cut(q, i)) = Len(u) + Len(v)
  BY <1>1, ConcatProperties DEF Cut
<1> HIDE DEF u, v, s
<1>4. a \in Seq(S) /\ c \in Seq(S) /\ Among(<<s>>, 1, S) \in Seq(S)
  <2>1. Len(u) \in Nat /\ Len(v) \in Nat
    BY <1>1
  <2> QED BY <2>1, AmongIsSeq
<1>5. Among(Cut(q, i), Len(Cut(q, i)), S) = a \o c
  <2>1. u \in Seq(T) /\ v \in Seq(T)
    BY <1>1
  <2>2. Cut(q, i) = u \o v
    BY <1>3
  <2> QED BY <2>1, <2>2, AmongConcat
<1>6. w = a \o (Among(<<s>>, 1, S) \o c)
  <2> DEFINE one == <<s>>
             rest == <<s>> \o v
  <2>1. one \in Seq(T) /\ u \in Seq(T) /\ v \in Seq(T) /\ rest \in Seq(T)
    BY <1>1, ConcatProperties
  <2> HIDE DEF rest, one
  <2>2. Joins(one, v, S) /\ Joins(u, rest, S)
    BY <2>1, AmongJoins
  <2>3. Among(rest, Len(rest), S) = Among(<<s>>, 1, S) \o c
    BY <1>1, <2>2 DEF Joins, rest, one
  <2>4. w = a \o Among(rest, Len(rest), S)
    BY <1>2, <2>2 DEF Joins, rest
  <2> QED BY <2>3, <2>4
<1>7. Among(<<s>>, 1, S) = IF s \in S THEN <<s>> ELSE <<>>
  <2>1. Among(<<s>>, 0 + 1, S) = IF <<s>>[0 + 1] \in S THEN Append(Among(<<s>>, 0, S), <<s>>[0 + 1]) ELSE Among(<<s>>, 0, S)
    BY AmongSteps
  <2>2. Among(<<s>>, 0, S) = <<>> /\ 0 + 1 = 1 /\ <<s>>[1] = s
    BY AmongSteps
  <2>3. Append(<<>>, s) = <<s>>
    OBVIOUS
  <2> QED BY <2>1, <2>2, <2>3
<1>8. ASSUME s \notin S PROVE Among(Cut(q, i), Len(Cut(q, i)), S) = w
  <2>1. <<>> \o c = c
    BY <1>4, ConcatEmptySeq
  <2> QED BY <1>5, <1>6, <1>7, <1>8, <2>1
<1>9. ASSUME s \in S
      PROVE  \E j \in 1 .. Len(w) :
               /\ w[j] = s
               /\ Among(Cut(q, i), Len(Cut(q, i)), S) = Cut(w, j)
               /\ (\A m \in 1 .. Len(q) : q[m] = s => m = i) /\ w[1] = s => j = 1
  <2>1. w = a \o (<<s>> \o c)
    BY <1>6, <1>7, <1>9
  <2> DEFINE j == Len(a) + 1
             d == <<s>> \o c
  <2>2. /\ <<s>> \in Seq(S) /\ d \in Seq(S) /\ Len(d) = Len(c) + 1 /\ d[1] = s
        /\ Len(a) \in Nat /\ Len(c) \in Nat
    <3>1. <<s>> \in Seq(S) /\ Len(<<s>>) = 1 /\ <<s>>[1] = s
      BY <1>9
    <3>2. d \in Seq(S) /\ Len(d) = 1 + Len(c) /\ d[1] = s
      BY <1>4, <3>1, ConcatProperties
    <3> QED BY <1>4, <3>1, <3>2
  <2>3. /\ w \in Seq(S) /\ Len(w) = Len(a) + Len(d)
        /\ \A m \in 1 .. Len(a) + Len(d) : w[m] = IF m <= Len(a) THEN a[m] ELSE d[m - Len(a)]
    BY <1>4, <2>1, <2>2, ConcatProperties
  <2>4. j \in 1 .. Len(w) /\ w[j] = s
    <3>1. j \in 1 .. Len(a) + Len(d) /\ ~ (j <= Len(a)) /\ j - Len(a) = 1
      BY <2>2
    <3> QED BY <2>2, <2>3, <3>1
  <2>5. SubSeq(w, 1, j - 1) = a
    <3>1. \A m \in 1 .. Len(a) : w[m] \in S /\ w[m] = a[m]
      BY <1>4, <2>2, <2>3
    <3>2. j - 1 = Len(a)
      BY <2>2
    <3>3. /\ SubSeq(w, 1, Len(a)) \in Seq(S) /\ Len(SubSeq(w, 1, Len(a))) = Len(a)
          /\ \A m \in 1 .. Len(a) : SubSeq(w, 1, Len(a))[m] = w[m]
      BY <2>2, <3>1, SubSeqProperties
    <3> QED BY <1>4, <3>1, <3>2, <3>3, SeqEqual
  <2>6. SubSeq(w, j + 1, Len(w)) = c
    <3> DEFINE x == SubSeq(w, j + 1, Len(w))
    <3>1. \A m \in j + 1 .. Len(w) : w[m] \in S
      BY <2>2, <2>3
    <3>2. /\ x \in Seq(S) /\ Len(x) = IF j + 1 <= Len(w) THEN Len(w) - (j + 1) + 1 ELSE 0
          /\ \A m \in 1 .. Len(w) - (j + 1) + 1 : x[m] = w[j + 1 + m - 1]
      BY <2>2, <2>3, <3>1, SubSeqProperties
    <3> HIDE DEF x
    <3>3. Len(x) = Len(c)
      BY <2>2, <2>3, <3>2
    <3>4. ASSUME NEW m \in 1 .. Len(c) PROVE x[m] = c[m]
      <4>1. m \in 1 .. Len(w) - (j + 1) + 1 /\ j + 1 + m - 1 = Len(a) + 1 + m
        BY <2>2, <2>3
      <4>2. Len(a) + 1 + m \in 1 .. Len(a) + Len(d) /\ ~ (Len(a) + 1 + m <= Len(a)) /\ Len(a) + 1 + m - Len(a) = m + 1
        BY <2>2
      <4>3. d[m + 1] = c[m]
        <5>1. \A k \in 1 .. 1 + Len(c) : d[k] = IF k <= 1 THEN <<s>>[k] ELSE c[k - 1]
          BY <1>4, <2>2, ConcatProperties
        <5>2. m + 1 \in 1 .. 1 + Len(c) /\ ~ (m + 1 <= 1) /\ m + 1 - 1 = m
          BY <2>2
        <5> QED BY <5>1, <5>2
      <4> QED BY <2>3, <3>2, <4>1, <4>2, <4>3
    <3> QED BY <1>4, <3>2, <3>3, <3>4, SeqEqual DEF x
  <2>7. ASSUME \A m \in 1 .. Len(q) : q[m] = s => m = i, w[1] = s PROVE j = 1
    <3>1. SUFFICES ASSUME Len(a) # 0 PROVE FALSE
      OBVIOUS
    <3>2. 1 \in 1 .. Len(a) /\ a[1] = s
      BY <2>2, <2>3, <2>7, <3>1
    <3>3. PICK m \in 1 .. Len(u) : u[m] = s
      <4>1. Len(u) \in Nat /\ \E k \in 1 .. Len(a) : a[k] = s
        BY <1>1, <3>2
      <4> QED BY <4>1, AmongIsSeq
    <3>4. m \in 1 .. i - 1 /\ m \in 1 .. Len(q) /\ m # i
      BY <1>1, <3>3
    <3> QED BY <1>1, <2>7, <3>3, <3>4
  <2> HIDE DEF j
  <2>8. Among(Cut(q, i), Len(Cut(q, i)), S) = Cut(w, j)
    BY <1>5, <2>5, <2>6 DEF Cut
  <2> QED BY <2>4, <2>7, <2>8
<1> QED BY <1>8, <1>9 DEF s

-----------------------------------------------------------------------------
(* The queues of the buckets, and what an unpark of a key sees of them.    *)

\* The keys threads may be parked on, and none.
AllKeys == [Threads -> Keys \cup {None}]

\* The queues q hold the slots whose key hashes to them.
Placed(q, K) ==
  \A b \in Buckets, s \in Threads :
    (\E i \in 1 .. Len(q[b]) : q[b][i] = s) <=> (K[s] # None /\ BucketOf[K[s]] = b)

\* The slots parked on k.
On(K, k) == {s \in Threads : K[s] = k}

\* Those of them that an unpark of k meets, in their order.
View(L, K, k) == Walk(L, BucketOf[k], On(K, k))

\* The links lead through the slots that have a key, by their buckets.
Good(L, K) ==
  /\ L \in AllLinks
  /\ K \in AllKeys
  /\ \E q : Chained(L, q) /\ Placed(q, K)

\* An unpark of k meets the slots parked on it and no others.
LEMMA ViewFacts ==
  ASSUME NEW L, NEW K, Good(L, K), NEW k \in Keys
  PROVE  /\ View(L, K, k) \in Seq(Threads)
         /\ \A i \in 1 .. Len(View(L, K, k)) : View(L, K, k)[i] \in Threads /\ K[View(L, K, k)[i]] = k
         /\ \A s \in Threads : K[s] = k =>
              /\ \E i \in 1 .. Len(View(L, K, k)) : View(L, K, k)[i] = s
              /\ s \in ToSet(Walk(L, BucketOf[k], Threads))
<1> DEFINE b == BucketOf[k]
           S == On(K, k)
           w == View(L, K, k)
<1>1. PICK q : Chained(L, q) /\ Placed(q, K)
  BY DEF Good
<1>2. b \in Buckets /\ S \in SUBSET Threads /\ L \in AllLinks /\ None \notin Keys
  BY ParkingLotAssumption DEF Good, On
<1>3. w = Among(q[b], Len(q[b]), S)
  <2> HIDE DEF b, S
  <2>1. Walk(L, b, S) = Among(q[b], Len(q[b]), S)
    BY <1>1, <1>2, WalkFindsQueue
  <2> QED BY <2>1 DEF View, b, S
<1>4. q[b] \in Seq(Threads) /\ Len(q[b]) \in Nat
  BY <1>1, <1>2 DEF Chained
<1> HIDE DEF w, S, b
<1>5. /\ w \in Seq(S)
      /\ \A x : (\E j \in 1 .. Len(w) : w[j] = x) <=> (x \in S /\ \E i \in 1 .. Len(q[b]) : q[b][i] = x)
  BY <1>3, <1>4, AmongIsSeq
<1>6. w \in Seq(Threads) /\ \A i \in 1 .. Len(w) : w[i] \in S
  BY <1>2, <1>5
<1>7. ASSUME NEW s \in Threads, K[s] = k
      PROVE  (\E i \in 1 .. Len(w) : w[i] = s) /\ s \in ToSet(Walk(L, b, Threads))
  <2>1. \E i \in 1 .. Len(q[b]) : q[b][i] = s
    BY <1>1, <1>2, <1>7 DEF Placed, b
  <2>2. s \in S
    BY <1>7 DEF S, On
  <2>3. ToSet(Walk(L, b, Threads)) = {q[b][i] : i \in 1 .. Len(q[b])}
    BY <1>1, <1>2, WalkFindsAll
  <2> QED BY <1>5, <2>1, <2>2, <2>3
<1> QED BY <1>6, <1>7 DEF w, S, b, On

\* When s leaves its queue it leaves the view of its key and no other.
LeavesView(L, K, s) ==
  /\ Good(Removed(L, BucketOf[K[s]], s), [K EXCEPT ![s] = None])
  /\ \A k \in Keys : k # K[s] =>
       View(Removed(L, BucketOf[K[s]], s), [K EXCEPT ![s] = None], k) = View(L, K, k)
  /\ \E j \in 1 .. Len(View(L, K, K[s])) :
       /\ View(L, K, K[s])[j] = s
       /\ View(Removed(L, BucketOf[K[s]], s), [K EXCEPT ![s] = None], K[s]) = Cut(View(L, K, K[s]), j)
       /\ View(L, K, K[s])[1] = s => j = 1

\* A slot that has a key can leave its queue.
LEMMA RemoveStep ==
  ASSUME NEW L, NEW K, Good(L, K), NEW s \in Threads, K[s] # None
  PROVE  LeavesView(L, K, s)
<1> DEFINE h == K[s]
           b == BucketOf[h]
           M == Removed(L, b, s)
           N == [K EXCEPT ![s] = None]
<1>1. PICK q : Chained(L, q) /\ Placed(q, K)
  BY DEF Good
<1>2. /\ L \in AllLinks /\ K \in AllKeys /\ h \in Keys /\ b \in Buckets /\ None \notin Keys
      /\ \A k \in Keys : BucketOf[k] \in Buckets
  BY ParkingLotAssumption DEF Good, AllKeys
<1>3. PICK i \in 1 .. Len(q[b]) : q[b][i] = s
  BY <1>1, <1>2 DEF Placed
<1> DEFINE p == [q EXCEPT ![b] = Cut(@, i)]
<1>4. M \in AllLinks /\ Chained(M, p)
  BY <1>1, <1>2, <1>3, RemoveChains
<1>5. /\ q \in [Buckets -> Seq(Threads)] /\ \A c \in Buckets : q[c] \in Seq(Threads) /\ Len(q[c]) \in Nat
      /\ \A c, d \in Buckets : \A m \in 1 .. Len(q[c]), n \in 1 .. Len(q[d]) :
           q[c][m] = q[d][n] => c = d /\ m = n
  BY <1>1 DEF Chained
<1>6. p[b] = Cut(q[b], i) /\ \A c \in Buckets : c # b => p[c] = q[c]
  BY <1>2, <1>5
<1>7. /\ N \in AllKeys /\ N[s] = None
      /\ \A t \in Threads : t # s => N[t] = K[t]
  BY <1>2 DEF AllKeys
<1> HIDE DEF p, M, N, b
<1>8. /\ \A j \in 1 .. Len(p[b]) : \E m \in 1 .. Len(q[b]) : m # i /\ p[b][j] = q[b][m]
      /\ \A m \in 1 .. Len(q[b]) : m # i => \E j \in 1 .. Len(p[b]) : p[b][j] = q[b][m]
      /\ Len(p[b]) \in Nat
  <2> DEFINE len == Len(q[b])
  <2>1. q[b] \in Seq(Threads) /\ len \in Nat /\ i \in 1 .. len
    BY <1>2, <1>5
  <2>2. /\ Len(p[b]) = len - 1
        /\ \A j \in 1 .. len - 1 : p[b][j] = IF j < i THEN q[b][j] ELSE q[b][j + 1]
    BY <1>6, <2>1, CutMovesUp
  <2> HIDE DEF len
  <2>3. ASSUME NEW j \in 1 .. len - 1
        PROVE  \E m \in 1 .. len : m # i /\ p[b][j] = q[b][m]
    <3>1. j \in 1 .. len /\ j + 1 \in 1 .. len /\ (j < i => j # i) /\ (~ (j < i) => j + 1 # i)
      BY <2>1
    <3> QED BY <2>2, <3>1
  <2>4. ASSUME NEW m \in 1 .. len, m # i
        PROVE  \E j \in 1 .. len - 1 : p[b][j] = q[b][m]
    <3>1. CASE m < i
      <4>1. m \in 1 .. len - 1
        BY <2>1, <3>1
      <4> QED BY <2>2, <3>1, <4>1
    <3>2. CASE ~ (m < i)
      <4>1. m - 1 \in 1 .. len - 1 /\ ~ (m - 1 < i) /\ m - 1 + 1 = m
        BY <2>1, <2>4, <3>2
      <4> QED BY <2>2, <4>1
    <3> QED BY <3>1, <3>2
  <2> QED BY <2>1, <2>2, <2>3, <2>4 DEF len
<1>9. \A m \in 1 .. Len(q[b]) : q[b][m] = s => m = i
  BY <1>2, <1>3, <1>5
<1>10. \A c \in Buckets : c # b => \A m \in 1 .. Len(q[c]) : q[c][m] # s
  BY <1>2, <1>3, <1>5
<1>11. Placed(p, N)
  <2> SUFFICES ASSUME NEW c \in Buckets, NEW t \in Threads
               PROVE  (\E j \in 1 .. Len(p[c]) : p[c][j] = t) <=> (N[t] # None /\ BucketOf[N[t]] = c)
    BY DEF Placed
  <2>1. (\E m \in 1 .. Len(q[c]) : q[c][m] = t) <=> (K[t] # None /\ BucketOf[K[t]] = c)
    BY <1>1 DEF Placed
  <2>2. CASE c # b
    <3>1. p[c] = q[c]
      BY <1>6, <2>2
    <3>2. t = s => ~ \E m \in 1 .. Len(q[c]) : q[c][m] = t
      BY <1>10, <2>2
    <3> QED BY <1>7, <2>1, <3>1, <3>2
  <2>3. CASE c = b
    <3>1. t = s => ~ \E j \in 1 .. Len(p[b]) : p[b][j] = t
      BY <1>8, <1>9
    <3>2. t # s => ((\E j \in 1 .. Len(p[b]) : p[b][j] = t) <=> (\E m \in 1 .. Len(q[b]) : q[b][m] = t))
      BY <1>3, <1>8
    <3> QED BY <1>7, <2>1, <2>3, <3>1, <3>2
  <2> QED BY <2>2, <2>3
<1>12. Good(M, N)
  BY <1>4, <1>7, <1>11 DEF Good
<1>13. ASSUME NEW k \in Keys
       PROVE  /\ On(K, k) \in SUBSET Threads /\ On(N, k) \in SUBSET Threads
              /\ View(L, K, k) = Among(q[BucketOf[k]], Len(q[BucketOf[k]]), On(K, k))
              /\ View(M, N, k) = Among(p[BucketOf[k]], Len(p[BucketOf[k]]), On(N, k))
  <2>1. BucketOf[k] \in Buckets /\ On(K, k) \in SUBSET Threads /\ On(N, k) \in SUBSET Threads
    BY <1>2 DEF On
  <2> QED BY <1>1, <1>2, <1>4, <2>1, WalkFindsQueue DEF View
<1>14. ASSUME NEW k \in Keys, k # h
       PROVE  View(M, N, k) = View(L, K, k)
  <2>1. On(N, k) = On(K, k) /\ s \notin On(K, k)
    BY <1>2, <1>7, <1>14 DEF On
  <2>2. CASE BucketOf[k] # b
    BY <1>2, <1>6, <1>13, <2>1, <2>2
  <2>3. CASE BucketOf[k] = b
    <3>1. q[b] \in Seq(Threads) /\ q[b][i] \notin On(K, k)
      BY <1>2, <1>3, <1>5, <2>1
    <3>2. Among(Cut(q[b], i), Len(Cut(q[b], i)), On(K, k)) = Among(q[b], Len(q[b]), On(K, k))
      BY <3>1, AmongCut
    <3> QED BY <1>6, <1>13, <2>1, <2>3, <3>2
  <2> QED BY <2>2, <2>3
<1>15. \E j \in 1 .. Len(View(L, K, h)) :
         /\ View(L, K, h)[j] = s
         /\ View(M, N, h) = Cut(View(L, K, h), j)
         /\ View(L, K, h)[1] = s => j = 1
  <2>1. q[b] \in Seq(Threads) /\ q[b][i] \in On(K, h) /\ BucketOf[h] = b
    BY <1>2, <1>3, <1>5 DEF On, b
  <2> DEFINE w == Among(q[b], Len(q[b]), On(K, h))
  <2>2. PICK j \in 1 .. Len(w) :
          /\ w[j] = q[b][i]
          /\ Among(Cut(q[b], i), Len(Cut(q[b], i)), On(K, h)) = Cut(w, j)
          /\ (\A m \in 1 .. Len(q[b]) : q[b][m] = q[b][i] => m = i) /\ w[1] = q[b][i] => j = 1
    BY <2>1, AmongCut
  <2>3. Among(p[b], Len(p[b]), On(N, h)) = Among(p[b], Len(p[b]), On(K, h))
    <3>1. \A n \in 1 .. Len(p[b]) : p[b][n] # s
      BY <1>8, <1>9
    <3>2. \A x : x # s => (x \in On(N, h) <=> x \in On(K, h))
      BY <1>7 DEF On
    <3>3. \A n \in 1 .. Len(p[b]) : (p[b][n] \in On(N, h) <=> p[b][n] \in On(K, h))
      BY <3>1, <3>2
    <3> DEFINE n == Len(p[b])
               x == p[b]
               S == On(N, h)
               T == On(K, h)
    <3>4. n \in Nat /\ \A m \in 1 .. n : x[m] \in S <=> x[m] \in T
      BY <1>8, <3>3
    <3> HIDE DEF n, x, S, T
    <3>5. Among(x, n, S) = Among(x, n, T)
      BY <3>4, AmongSame
    <3> QED BY <3>5 DEF n, x, S, T
  <2>4. View(L, K, h) = w /\ View(M, N, h) = Among(p[b], Len(p[b]), On(N, h))
    BY <1>2, <1>13, <2>1
  <2> HIDE DEF w
  <2>5. View(M, N, h) = Cut(w, j)
    BY <1>6, <2>2, <2>3, <2>4
  <2>6. w[1] = s => j = 1
    BY <1>3, <1>9, <2>2
  <2>7. w[j] = s
    BY <1>3, <2>2
  <2> QED BY <2>4, <2>5, <2>6, <2>7
<1> QED BY <1>12, <1>14, <1>15 DEF M, N, b, LeavesView

\* When s is pushed it is the last in the view of its key, and in no other.
JoinsView(L, K, s, k) ==
  /\ Good(Pushed(L, BucketOf[k], s), [K EXCEPT ![s] = k])
  /\ \A l \in Keys : View(Pushed(L, BucketOf[k], s), [K EXCEPT ![s] = k], l) =
                       IF l = k THEN Append(View(L, K, l), s) ELSE View(L, K, l)

\* A slot that has no key can be pushed.
LEMMA PushStep ==
  ASSUME NEW L, NEW K, Good(L, K), NEW s \in Threads, K[s] = None, NEW k \in Keys
  PROVE  JoinsView(L, K, s, k)
<1> DEFINE b == BucketOf[k]
           M == Pushed(L, b, s)
           N == [K EXCEPT ![s] = k]
<1>1. PICK q : Chained(L, q) /\ Placed(q, K)
  BY DEF Good
<1>2. /\ L \in AllLinks /\ K \in AllKeys /\ b \in Buckets /\ None \notin Keys
      /\ \A l \in Keys : BucketOf[l] \in Buckets
  BY ParkingLotAssumption DEF Good
<1>3. \A c \in Buckets : \A i \in 1 .. Len(q[c]) : q[c][i] # s
  BY <1>1 DEF Placed
<1> DEFINE p == [q EXCEPT ![b] = Append(@, s)]
           len == Len(q[b])
<1>4. M \in AllLinks /\ Chained(M, p)
  BY <1>1, <1>2, <1>3, PushChains
<1>5. q \in [Buckets -> Seq(Threads)] /\ q[b] \in Seq(Threads) /\ len \in Nat
  BY <1>1, <1>2 DEF Chained
<1>6. /\ \A c \in Buckets : c # b => p[c] = q[c]
      /\ Len(p[b]) = len + 1 /\ p[b][len + 1] = s
      /\ \A i \in 1 .. len : p[b][i] = q[b][i]
  <2>1. p[b] = Append(q[b], s) /\ \A c \in Buckets : c # b => p[c] = q[c]
    BY <1>2, <1>5
  <2> QED BY <1>5, <2>1, AppendProperties
<1>7. /\ N \in AllKeys /\ N[s] = k
      /\ \A t \in Threads : t # s => N[t] = K[t]
  BY <1>2 DEF AllKeys
<1> HIDE DEF p, M, N, len, b
<1>8. Placed(p, N)
  <2> SUFFICES ASSUME NEW c \in Buckets, NEW t \in Threads
               PROVE  (\E j \in 1 .. Len(p[c]) : p[c][j] = t) <=> (N[t] # None /\ BucketOf[N[t]] = c)
    BY DEF Placed
  <2>1. (\E m \in 1 .. Len(q[c]) : q[c][m] = t) <=> (K[t] # None /\ BucketOf[K[t]] = c)
    BY <1>1 DEF Placed
  <2>2. CASE c # b
    <3>1. t = s => ~ (\E m \in 1 .. Len(q[c]) : q[c][m] = t) /\ BucketOf[N[t]] = b
      BY <1>3, <1>7 DEF b
    <3> QED BY <1>6, <1>7, <2>1, <2>2, <3>1
  <2>3. CASE c = b
    <3>1. (\E j \in 1 .. Len(p[b]) : p[b][j] = t) <=> t = s \/ \E m \in 1 .. len : q[b][m] = t
      <4>1. \A j : j \in 1 .. len + 1 <=> j \in 1 .. len \/ j = len + 1
        BY <1>5
      <4> QED BY <1>6, <4>1
    <3>2. t = s => N[t] # None /\ BucketOf[N[t]] = b
      BY <1>2, <1>7 DEF b
    <3> QED BY <1>7, <2>1, <2>3, <3>1, <3>2 DEF len
  <2> QED BY <2>2, <2>3
<1>9. Good(M, N)
  BY <1>4, <1>7, <1>8 DEF Good
<1>10. ASSUME NEW l \in Keys
       PROVE  View(M, N, l) = IF l = k THEN Append(View(L, K, l), s) ELSE View(L, K, l)
  <2> DEFINE S == On(K, l)
             T == On(N, l)
             c == BucketOf[l]
  <2>1. /\ c \in Buckets /\ S \in SUBSET Threads /\ T \in SUBSET Threads
        /\ \A x : x # s => (x \in T <=> x \in S)
        /\ s \in T <=> l = k
    BY <1>2, <1>7 DEF On
  <2>2. View(L, K, l) = Among(q[c], Len(q[c]), S) /\ View(M, N, l) = Among(p[c], Len(p[c]), T)
    <3> HIDE DEF S, T, c
    <3>1. Walk(L, c, S) = Among(q[c], Len(q[c]), S) /\ Walk(M, c, T) = Among(p[c], Len(p[c]), T)
      BY <1>1, <1>2, <1>4, <2>1, WalkFindsQueue
    <3> QED BY <3>1 DEF View, S, T, c
  <2>3. q[c] \in Seq(Threads) /\ Len(q[c]) \in Nat
    BY <1>5, <2>1
  <2> HIDE DEF S, T
  <2>4. Among(q[c], Len(q[c]), T) = Among(q[c], Len(q[c]), S)
    <3>1. \A i \in 1 .. Len(q[c]) : q[c][i] \in T <=> q[c][i] \in S
      BY <1>3, <2>1
    <3> QED BY <2>3, <3>1, AmongSame
  <2>5. CASE c # b
    BY <1>6, <2>1, <2>2, <2>4, <2>5 DEF b
  <2>6. CASE c = b
    <3>1. Among(p[b], len + 1, T) = IF p[b][len + 1] \in T THEN Append(Among(p[b], len, T), p[b][len + 1])
                                                             ELSE Among(p[b], len, T)
      BY <1>5, AmongSteps
    <3>2. Among(p[b], len, T) = Among(q[b], len, T)
      BY <1>5, <1>6, AmongSame
    <3> QED BY <1>6, <2>1, <2>2, <2>4, <2>6, <3>1, <3>2 DEF len
  <2> QED BY <2>5, <2>6
<1> QED BY <1>9, <1>10 DEF M, N, b, JoinsView

\* Without its first element a sequence is its tail.
LEMMA CutFirst ==
  ASSUME NEW S, NEW w \in Seq(S), w # <<>>
  PROVE  1 \in 1 .. Len(w) /\ Head(w) = w[1] /\ Cut(w, 1) = Tail(w)
<1>1. Len(w) \in Nat /\ Len(w) # 0 /\ 1 \in 1 .. Len(w)
  BY EmptySeq
<1>2. Tail(w) \in Seq(S) /\ Len(Tail(w)) = Len(w) - 1 /\ \A i \in 1 .. Len(w) - 1 : Tail(w)[i] = w[i + 1]
  BY HeadTailProperties
<1>3. Cut(w, 1) \in Seq(S) /\ Len(Cut(w, 1)) = Len(w) - 1 /\ \A i \in 1 .. Len(w) - 1 : Cut(w, 1)[i] = w[i + 1]
  <2> DEFINE v == Cut(w, 1)
             n == Len(w)
  <2>1. v \in Seq(S) /\ Len(v) = n - 1 /\ \A i \in 1 .. n - 1 : v[i] = IF i < 1 THEN w[i] ELSE w[i + 1]
    BY <1>1, CutMovesUp
  <2>2. \A i \in 1 .. n - 1 : ~ (i < 1)
    BY <1>1
  <2> HIDE DEF v, n
  <2>3. \A i \in 1 .. n - 1 : v[i] = w[i + 1]
    BY <2>1, <2>2
  <2> QED BY <2>1, <2>3 DEF v, n
<1>4. Cut(w, 1) = Tail(w)
  <2> DEFINE v == Cut(w, 1)
             u == Tail(w)
  <2>1. v \in Seq(S) /\ u \in Seq(S) /\ Len(v) = Len(u) /\ \A i \in 1 .. Len(v) : v[i] = u[i]
    BY <1>2, <1>3
  <2> HIDE DEF u, v
  <2>2. v = u
    BY <2>1, SeqEqual
  <2> QED BY <2>2 DEF u, v
<1> QED BY <1>1, <1>4

\* When the first slot parked on k leaves its queue, the others move up.
HeadLeaves(L, K, k, s) ==
  /\ s \in Threads /\ K[s] = k
  /\ Good(Removed(L, BucketOf[k], s), [K EXCEPT ![s] = None])
  /\ \A l \in Keys : View(Removed(L, BucketOf[k], s), [K EXCEPT ![s] = None], l) =
                       IF l = k THEN Tail(View(L, K, l)) ELSE View(L, K, l)

\* The first slot parked on a key can leave its queue.
LEMMA FirstLeaves ==
  ASSUME NEW L, NEW K, Good(L, K), NEW k \in Keys, View(L, K, k) # <<>>,
         NEW s, s = Head(View(L, K, k))
  PROVE  HeadLeaves(L, K, k, s)
<1> DEFINE w == View(L, K, k)
           M == Removed(L, BucketOf[k], s)
           N == [K EXCEPT ![s] = None]
<1>1. w \in Seq(Threads) /\ \A i \in 1 .. Len(w) : w[i] \in Threads /\ K[w[i]] = k
  BY ViewFacts
<1>2. w # <<>> /\ s = Head(w)
  OBVIOUS
<1> HIDE DEF w
<1>3. 1 \in 1 .. Len(w) /\ Head(w) = w[1] /\ Cut(w, 1) = Tail(w)
  BY <1>1, <1>2, CutFirst
<1>4. s \in Threads /\ K[s] = k /\ s = w[1]
  BY <1>1, <1>2, <1>3
<1>5. k # None
  BY ParkingLotAssumption
<1>6. /\ Good(M, N)
      /\ \A l \in Keys : l # k => View(M, N, l) = View(L, K, l)
      /\ \E j \in 1 .. Len(w) : w[j] = s /\ View(M, N, k) = Cut(w, j) /\ (w[1] = s => j = 1)
  <2>1. LeavesView(L, K, s)
    BY <1>4, <1>5, RemoveStep
  <2> QED BY <1>4, <2>1 DEF LeavesView, w
<1> HIDE DEF M, N
<1>7. View(M, N, k) = Tail(w)
  BY <1>3, <1>4, <1>6
<1> QED BY <1>4, <1>6, <1>7 DEF M, N, w, HeadLeaves

\* When the first slot parked on k is moved, it is the last of those parked on l.
HeadMoves(L, K, k, l, s) ==
  /\ s \in Threads
  /\ Good(Pushed(Removed(L, BucketOf[k], s), BucketOf[l], s), [K EXCEPT ![s] = l])
  /\ \A h \in Keys : View(Pushed(Removed(L, BucketOf[k], s), BucketOf[l], s), [K EXCEPT ![s] = l], h) =
       IF h = k THEN Tail(View(L, K, k))
       ELSE IF h = l THEN Append(View(L, K, l), s)
       ELSE View(L, K, h)

\* The first slot parked on k can be moved to another key.
LEMMA FirstMoves ==
  ASSUME NEW L, NEW K, Good(L, K), NEW k \in Keys, NEW l \in Keys, k # l, View(L, K, k) # <<>>,
         NEW s, s = Head(View(L, K, k))
  PROVE  HeadMoves(L, K, k, l, s)
<1> DEFINE M == Removed(L, BucketOf[k], s)
           N == [K EXCEPT ![s] = None]
           c == BucketOf[l]
<1>1. /\ s \in Threads /\ Good(M, N)
      /\ \A h \in Keys : View(M, N, h) = IF h = k THEN Tail(View(L, K, h)) ELSE View(L, K, h)
  <2>1. HeadLeaves(L, K, k, s)
    BY FirstLeaves
  <2> QED BY <2>1 DEF HeadLeaves
<1>2. N[s] = None /\ [N EXCEPT ![s] = l] = [K EXCEPT ![s] = l]
  BY <1>1 DEF Good, AllKeys
<1> HIDE DEF M, N
<1>3. /\ Good(Pushed(M, c, s), [N EXCEPT ![s] = l])
      /\ \A h \in Keys : View(Pushed(M, c, s), [N EXCEPT ![s] = l], h) =
                           IF h = l THEN Append(View(M, N, h), s) ELSE View(M, N, h)
  <2>1. JoinsView(M, N, s, l)
    BY <1>1, <1>2, PushStep
  <2> QED BY <2>1 DEF JoinsView
<1> QED BY <1>1, <1>2, <1>3 DEF M, HeadMoves

\* f[m] are the links after the first m slots of ss have moved.
Moves(f, L, b, c, ss, n) ==
  f = [m \in 0 .. n |-> IF m = 0 THEN L ELSE Pushed(Removed(f[m - 1], b, ss[m]), c, ss[m])]

\* There is such a function.
LEMMA MovesExist ==
  ASSUME NEW L, NEW b, NEW c, NEW ss, NEW n \in Nat
  PROVE  \E f : Moves(f, L, b, c, ss, n)
<1> DEFINE B == {m \in 0 .. n : \A f : ~Moves(f, L, b, c, ss, m)}
<1>1. B = {}
  <2>1. SUFFICES ASSUME B # {} PROVE FALSE
    OBVIOUS
  <2>2. PICK m \in B : \A k \in B : m <= k
    <3>1. B \in SUBSET Nat
      OBVIOUS
    <3> HIDE DEF B
    <3> QED BY <2>1, <3>1, LeastNatural
  <2>3. m \in 0 .. n /\ \A f : ~Moves(f, L, b, c, ss, m)
    OBVIOUS
  <2>4. m # 0
    <3>1. Moves([k \in 0 .. 0 |-> L], L, b, c, ss, 0)
      BY DEF Moves
    <3> QED BY <2>3, <3>1
  <2>5. PICK f : Moves(f, L, b, c, ss, m - 1)
    <3>1. m - 1 \in 0 .. n /\ ~ (m <= m - 1)
      BY <2>3, <2>4
    <3> QED BY <2>2, <3>1
  <2> DEFINE g == [k \in 0 .. m |-> IF k < m THEN f[k] ELSE Pushed(Removed(f[m - 1], b, ss[m]), c, ss[m])]
  <2>6. Moves(g, L, b, c, ss, m)
    <3>1. ASSUME NEW k \in 0 .. m
          PROVE  g[k] = IF k = 0 THEN L ELSE Pushed(Removed(g[k - 1], b, ss[k]), c, ss[k])
      <4>1. CASE k < m
        <5>1. k \in 0 .. m - 1 /\ g[k] = f[k]
          BY <2>3, <4>1
        <5>2. k # 0 => k - 1 \in 0 .. m /\ g[k - 1] = f[k - 1]
          BY <2>3, <4>1
        <5> QED BY <2>5, <5>1, <5>2 DEF Moves
      <4>2. CASE k = m
        <5>1. m - 1 \in 0 .. m /\ g[m - 1] = f[m - 1]
          BY <2>3, <2>4
        <5> QED BY <2>4, <4>2, <5>1
      <4> QED BY <2>3, <4>1, <4>2
    <3> QED BY <3>1 DEF Moves
  <2> QED BY <2>3, <2>6
<1> QED BY <1>1

\* The keys once the first n slots of ss are parked on l.
Rekeyed(K, l, ss, n) == [s \in Threads |-> IF \E i \in 1 .. n : ss[i] = s THEN l ELSE K[s]]

\* When the slots ss are moved from k to l, they follow those parked on l.
PrefixMoves(L, K, k, l, ss) ==
  /\ Good(Moved(L, BucketOf[k], BucketOf[l], ss), Rekeyed(K, l, ss, Len(ss)))
  /\ \A h \in Keys : View(Moved(L, BucketOf[k], BucketOf[l], ss), Rekeyed(K, l, ss, Len(ss)), h) =
       IF h = k THEN SubSeq(View(L, K, k), Len(ss) + 1, Len(View(L, K, k)))
       ELSE IF h = l THEN View(L, K, l) \o ss
       ELSE View(L, K, h)

\* The first slots parked on k can be moved, in their order.
LEMMA AllMove ==
  ASSUME NEW L, NEW K, Good(L, K), NEW k \in Keys, NEW l \in Keys, k # l,
         NEW ss \in Seq(Threads), Len(ss) <= Len(View(L, K, k)),
         \A i \in 1 .. Len(ss) : ss[i] = View(L, K, k)[i]
  PROVE  PrefixMoves(L, K, k, l, ss)
<1> DEFINE b == BucketOf[k]
           c == BucketOf[l]
           top == Len(ss)
           w == View(L, K, k)
           x == View(L, K, l)
           f == CHOOSE f : Moves(f, L, b, c, ss, top)
           Views(M, X, n) ==
             \A h \in Keys : View(M, X, h) =
               IF h = k THEN SubSeq(w, n + 1, Len(w))
               ELSE IF h = l THEN x \o SubSeq(ss, 1, n)
               ELSE View(L, K, h)
           Right(n) == Good(f[n], Rekeyed(K, l, ss, n)) /\ Views(f[n], Rekeyed(K, l, ss, n), n)
           B == {n \in 0 .. top : ~Right(n)}
<1>1. /\ w \in Seq(Threads) /\ x \in Seq(Threads) /\ Len(w) \in Nat /\ top \in Nat /\ top <= Len(w)
      /\ \A i \in 1 .. top : ss[i] = w[i] /\ ss[i] \in Threads
  BY ViewFacts
<1>2. Moves(f, L, b, c, ss, top) /\ Moved(L, b, c, ss) = f[top]
  <2>1. Moved(L, b, c, ss) = f[top]
    BY DEF Moved, Moves
  <2>2. \E g : Moves(g, L, b, c, ss, top)
    BY <1>1, MovesExist
  <2> QED BY <2>1, <2>2
<1> HIDE DEF f
<1>3. Right(0)
  <2>1. f[0] = L
    BY <1>1, <1>2 DEF Moves
  <2>2. Rekeyed(K, l, ss, 0) = K
    BY DEF Rekeyed, Good, AllKeys
  <2>3. SubSeq(w, 0 + 1, Len(w)) = w
    BY <1>1
  <2>4. x \o SubSeq(ss, 1, 0) = x
    <3>1. SubSeq(ss, 1, 0) = <<>>
      BY SubSeqEmpty
    <3> QED BY <1>1, <3>1, ConcatEmptySeq
  <2> QED BY <2>1, <2>2, <2>3, <2>4 DEF w, x
<1> HIDE DEF w, x
<1>4. ASSUME NEW n \in Nat, n < top, Right(n) PROVE Right(n + 1)
  <2> DEFINE X == Rekeyed(K, l, ss, n)
             s == ss[n + 1]
             v == SubSeq(w, n + 1, Len(w))
  <2>1. Good(f[n], X) /\ Views(f[n], X, n)
    BY <1>4
  <2>2. v \in Seq(Threads) /\ v # <<>> /\ Head(v) = s /\ Tail(v) = SubSeq(w, n + 1 + 1, Len(w))
    <3> DEFINE m == n + 1
               top2 == Len(w)
    <3>1. m \in 1 .. Len(w) /\ top2 \in m .. Len(w) /\ ss[m] = w[m]
      BY <1>1, <1>4
    <3> HIDE DEF m, top2
    <3>2. Head(SubSeq(w, m, top2)) = w[m] /\ Tail(SubSeq(w, m, top2)) = SubSeq(w, m + 1, top2)
      BY <1>1, <3>1, HeadTailOfSubSeq
    <3>3. \A i \in m .. top2 : w[i] \in Threads
      BY <1>1, <3>1
    <3>4. SubSeq(w, m, top2) \in Seq(Threads) /\ SubSeq(w, m, top2) # <<>>
      BY <1>1, <3>1, <3>3, SubSeqProperties, SubSeqEmpty
    <3> QED BY <3>1, <3>2, <3>4 DEF m, top2
  <2>3. f[n + 1] = Pushed(Removed(f[n], b, s), c, s)
    <3>1. n + 1 \in 0 .. top /\ n + 1 # 0 /\ n + 1 - 1 = n
      BY <1>1, <1>4
    <3> DEFINE m == n + 1
    <3>2. m \in 0 .. top /\ m # 0 /\ m - 1 = n
      BY <3>1
    <3> HIDE DEF m
    <3>3. f[m] = Pushed(Removed(f[n], b, ss[m]), c, ss[m])
      BY <1>2, <3>2 DEF Moves
    <3> QED BY <3>3 DEF m
  <2>4. View(f[n], X, k) = v /\ View(f[n], X, l) = x \o SubSeq(ss, 1, n)
    BY <2>1
  <2> HIDE DEF X, s, v, Views
  <2>5. /\ s \in Threads
        /\ Good(f[n + 1], [X EXCEPT ![s] = l])
        /\ \A h \in Keys : View(f[n + 1], [X EXCEPT ![s] = l], h) =
              IF h = k THEN Tail(v)
              ELSE IF h = l THEN Append(x \o SubSeq(ss, 1, n), s)
              ELSE View(f[n], X, h)
    <3>1. HeadMoves(f[n], X, k, l, s)
      BY <2>1, <2>2, <2>4, FirstMoves
    <3> QED BY <2>3, <2>4, <3>1 DEF HeadMoves
  <2>6. [X EXCEPT ![s] = l] = Rekeyed(K, l, ss, n + 1)
    <3>1. \A i : i \in 1 .. n + 1 <=> i \in 1 .. n \/ i = n + 1
      BY <1>4
    <3> QED BY <2>5, <3>1 DEF X, s, Rekeyed
  <2>7. Append(x \o SubSeq(ss, 1, n), s) = x \o SubSeq(ss, 1, n + 1)
    <3> DEFINE u == SubSeq(ss, 1, n)
    <3>1. SubSeq(ss, 1, n + 1) = Append(u, s) /\ u \in Seq(Threads)
      BY <1>1, <1>4 DEF s
    <3> HIDE DEF u
    <3>2. Append(x \o u, s) = (x \o u) \o <<s>> /\ Append(u, s) = u \o <<s>> /\ <<s>> \in Seq(Threads)
      <4>1. x \o u \in Seq(Threads)
        BY <1>1, <3>1, ConcatProperties
      <4> QED BY <2>5, <3>1, <4>1, AppendIsConcat
    <3>3. (x \o u) \o <<s>> = x \o (u \o <<s>>)
      BY <1>1, <3>1, <3>2, ConcatAssociative
    <3> QED BY <3>1, <3>2, <3>3 DEF u
  <2>8. Views(f[n + 1], Rekeyed(K, l, ss, n + 1), n + 1)
    BY <2>1, <2>2, <2>5, <2>6, <2>7 DEF Views
  <2> QED BY <2>5, <2>6, <2>8
<1> HIDE DEF Right
<1>5. B = {}
  <2>1. SUFFICES ASSUME B # {} PROVE FALSE
    OBVIOUS
  <2>2. PICK n \in B : \A m \in B : n <= m
    <3>1. B \in SUBSET Nat
      BY <1>1
    <3> HIDE DEF B
    <3> QED BY <2>1, <3>1, LeastNatural
  <2>3. n \in 0 .. top /\ ~Right(n) /\ n # 0
    BY <1>3
  <2>4. n - 1 \in Nat /\ ~ (n <= n - 1) /\ n - 1 + 1 = n /\ n - 1 < top /\ n - 1 \in 0 .. top
    BY <1>1, <2>3
  <2>5. Right(n - 1)
    BY <2>2, <2>4
  <2> QED BY <1>4, <2>3, <2>4, <2>5
<1>6. Right(top)
  BY <1>1, <1>5
<1>7. SubSeq(ss, 1, top) = ss
  OBVIOUS
<1> QED BY <1>2, <1>6, <1>7 DEF Right, w, x, PrefixMoves

-----------------------------------------------------------------------------
(* The inductive invariant.                                                *)

Locking == {"unlink", "commit", "lockTo", "requeue"}

Requeueing == {"lockTo", "requeue", "commit"}

\* The values the variables have.
LotTypes ==
  /\ parker \in [Threads -> {0, 1}]
  /\ lock \in [Buckets -> Threads \cup {None}]
  /\ pc \in [Threads -> {"idle"} \cup Slept \cup Locking]
  /\ target \in [Threads -> Keys \cup {None}]
  /\ requeueTo \in [Threads -> Keys \cup {None}]
  /\ victim \in [Threads -> Threads \cup {None}]
  /\ timed \in [Threads -> BOOLEAN]
  /\ all \in [Threads -> BOOLEAN]

\* Only a thread in park() has a key, and none that has been let go.
OnlySleepersHaveKeys ==
  \A s \in Threads :
    /\ key[s] # None => pc[s] \in Slept
    /\ pc[s] \in Slept /\ parker[s] = 0 => key[s] = None

\* An unparker names what it unparks, and holds its bucket's lock until the end.
UnparkersHoldLocks ==
  \A t \in Threads :
    /\ pc[t] \in Locking => target[t] \in Keys /\ lock[BucketOf[target[t]]] = t
    /\ pc[t] = "timedOut" => target[t] \in Keys
    /\ pc[t] \in {"lockTo", "requeue"} => requeueTo[t] # None
    /\ requeueTo[t] # None => pc[t] \in Requeueing /\ <<target[t], requeueTo[t]>> \in Requeues

\* The slot it has unlinked and not let go yet has no key.
VictimsHaveNoKey ==
  \A t \in Threads :
    /\ pc[t] = "commit" => victim[t] # None
    /\ victim[t] # None => pc[t] = "commit" /\ key[victim[t]] = None

\* A thread in park() that has no key has been let go or will be.
UnlinkedAreLetGo ==
  \A s \in Threads : pc[s] \in Slept /\ key[s] = None =>
    parker[s] = 0 \/ \E t \in Threads : victim[t] = s

LotInv ==
  /\ LotTypes
  /\ Good(Links, key)
  /\ OnlySleepersHaveKeys
  /\ UnparkersHoldLocks
  /\ VictimsHaveNoKey
  /\ UnlinkedAreLetGo

-----------------------------------------------------------------------------
(* What the steps do to the queues.                                        *)

\* The view of a key is what an unpark of it meets, before a step and after.
LEMMA Seen ==
  ASSUME NEW k \in Keys
  PROVE  WaitersOn(k) = View(Links, key, k) /\ WaitersOn(k)' = View(Links', key', k)
BY DEF WaitersOn, View, On

\* The links are what they were set to.
LEMMA Relinked ==
  ASSUME NEW M, M \in AllLinks, Relink(M)
  PROVE  Links' = M
BY DEF Relink, Links, AllLinks

\* Those an unpark meets are threads.
LEMMA WaitersAreThreads ==
  ASSUME LotInv, NEW k \in Keys
  PROVE  WaitersOn(k) \in Seq(Threads)
<1>1. View(Links, key, k) \in Seq(Threads)
  BY ViewFacts DEF LotInv
<1> QED BY <1>1, Seen

\* A step that touches no link and no key leaves the queues as they are.
LEMMA QueuesStay ==
  ASSUME Good(Links, key), UNCHANGED <<key, links>>
  PROVE  Good(Links', key') /\ \A l \in Keys : WaitersOn(l)' = WaitersOn(l)
<1>1. Links' = Links /\ key' = key
  BY DEF links, Links
<1> QED BY <1>1, Seen

\* A thread that parks is the last to wait on its key.
LEMMA ParkJoins ==
  ASSUME LotInv, NEW t \in Threads, Park(t)
  PROVE  \E k \in Keys :
           /\ key[t] = None /\ key' = [key EXCEPT ![t] = k]
           /\ Good(Links', key')
           /\ \A l \in Keys : WaitersOn(l)' = IF l = k THEN Append(WaitersOn(l), t) ELSE WaitersOn(l)
<1>1. PICK k \in Keys : key' = [key EXCEPT ![t] = k] /\ Relink(Pushed(Links, BucketOf[k], t))
  BY DEF Park
<1>2. key[t] = None /\ Good(Links, key)
  BY DEF LotInv, OnlySleepersHaveKeys, Park, Slept
<1>3. JoinsView(Links, key, t, k)
  BY <1>2, PushStep
<1> DEFINE M == Pushed(Links, BucketOf[k], t)
           N == [key EXCEPT ![t] = k]
<1>4. Good(M, N) /\ \A l \in Keys : View(M, N, l) = IF l = k THEN Append(View(Links, key, l), t) ELSE View(Links, key, l)
  BY <1>3 DEF JoinsView
<1>5. Relink(M) /\ key' = N
  BY <1>1
<1> HIDE DEF M, N
<1>6. Links' = M
  BY <1>4, <1>5, Relinked DEF Good
<1>7. Good(Links', key')
  BY <1>4, <1>5, <1>6
<1>8. \A l \in Keys : WaitersOn(l)' = IF l = k THEN Append(WaitersOn(l), t) ELSE WaitersOn(l)
  BY <1>4, <1>5, <1>6, Seen
<1> QED BY <1>1, <1>2, <1>7, <1>8

\* The thread t has left the queue of k, from where it stood.
LeaverHasLeft(t, k) ==
  /\ k \in Keys /\ key[t] = k /\ key' = [key EXCEPT ![t] = None]
  /\ Good(Links', key')
  /\ \A l \in Keys : l # k => WaitersOn(l)' = WaitersOn(l)
  /\ \E j \in 1 .. Len(WaitersOn(k)) :
       WaitersOn(k)[j] = t /\ WaitersOn(k)' = Cut(WaitersOn(k), j)

\* A thread that gives up leaves the queue of its key.
LEMMA LeaverLeaves ==
  ASSUME LotInv, NEW t \in Threads, LeaveQueue(t), NEW k, k = target[t]
  PROVE  LeaverHasLeft(t, k)
<1>1. /\ k \in Keys /\ key[t] = k /\ k # None
      /\ key' = [key EXCEPT ![t] = None] /\ Relink(Removed(Links, BucketOf[k], t))
  BY ParkingLotAssumption DEF LotInv, UnparkersHoldLocks, LeaveQueue
<1>2. Good(Links, key)
  BY DEF LotInv
<1>3. LeavesView(Links, key, t)
  BY <1>1, <1>2, RemoveStep
<1> DEFINE M == Removed(Links, BucketOf[k], t)
           N == [key EXCEPT ![t] = None]
           w == View(Links, key, k)
<1>4. /\ Good(M, N)
      /\ \A l \in Keys : l # k => View(M, N, l) = View(Links, key, l)
      /\ \E j \in 1 .. Len(w) : w[j] = t /\ View(M, N, k) = Cut(w, j)
  BY <1>1, <1>3 DEF LeavesView
<1>5. Relink(M) /\ key' = N
  BY <1>1
<1> HIDE DEF M, N, w
<1>6. Links' = M
  BY <1>4, <1>5, Relinked DEF Good
<1>7. Good(Links', key')
  BY <1>4, <1>5, <1>6
<1>8. \A l \in Keys : l # k => WaitersOn(l)' = WaitersOn(l)
  BY <1>4, <1>5, <1>6, Seen
<1>9. WaitersOn(k) = w /\ WaitersOn(k)' = View(M, N, k)
  BY <1>1, <1>5, <1>6, Seen DEF w
<1> QED BY <1>1, <1>4, <1>7, <1>8, <1>9 DEF LeaverHasLeft

\* The thread that is unlinked is the first that waits on its key.
LEMMA FirstIsUnlinked ==
  ASSUME LotInv, NEW t \in Threads, Unlink(t), NEW k, k = target[t], NEW s, s = Head(WaitersOn(k))
  PROVE  /\ k \in Keys /\ WaitersOn(k) # <<>>
         /\ s \in Threads /\ key[s] = k /\ key' = [key EXCEPT ![s] = None]
         /\ Good(Links', key')
         /\ \A l \in Keys : WaitersOn(l)' = IF l = k THEN Tail(WaitersOn(l)) ELSE WaitersOn(l)
<1>1. /\ k \in Keys /\ WaitersOn(k) # <<>>
      /\ key' = [key EXCEPT ![s] = None] /\ Relink(Removed(Links, BucketOf[k], s))
  BY DEF LotInv, UnparkersHoldLocks, Unlink, Take, Locking
<1>2. Good(Links, key)
  BY DEF LotInv
<1>3. HeadLeaves(Links, key, k, s)
  <2>1. View(Links, key, k) # <<>> /\ s = Head(View(Links, key, k))
    BY <1>1, Seen
  <2> QED BY <1>1, <1>2, <2>1, FirstLeaves
<1> DEFINE M == Removed(Links, BucketOf[k], s)
           N == [key EXCEPT ![s] = None]
<1>4. /\ s \in Threads /\ key[s] = k /\ Good(M, N)
      /\ \A l \in Keys : View(M, N, l) = IF l = k THEN Tail(View(Links, key, l)) ELSE View(Links, key, l)
  BY <1>3 DEF HeadLeaves
<1>5. Relink(M) /\ key' = N
  BY <1>1
<1> HIDE DEF M, N
<1>6. Links' = M
  BY <1>4, <1>5, Relinked DEF Good
<1>7. Good(Links', key')
  BY <1>4, <1>5, <1>6
<1>8. \A l \in Keys : WaitersOn(l)' = IF l = k THEN Tail(WaitersOn(l)) ELSE WaitersOn(l)
  BY <1>4, <1>5, <1>6, Seen
<1> QED BY <1>1, <1>4, <1>7, <1>8

\* The threads a sequence names.
LEMMA ThreadsNamed ==
  \A ss \in Seq(Threads) : ToSet(ss) = {ss[i] : i \in 1 .. Len(ss)}
BY DEF ToSet

\* A sequence of one thread.
LEMMA SequenceOfOne ==
  \A x \in Threads : <<x>> \in Seq(Threads) /\ Len(<<x>>) = 1 /\ <<x>>[1] = x
OBVIOUS

\* The threads ss, the first or all that wait on k, have moved to h.
HaveMoved(t, k, h, ss) ==
  /\ k \in Keys /\ h \in Keys /\ k # h /\ WaitersOn(k) # <<>>
  /\ key' = [s \in Threads |-> IF s \in ToSet(ss) THEN h ELSE key[s]]
  /\ \A s \in ToSet(ss) : s \in Threads /\ key[s] = k
  /\ Good(Links', key')
  /\ \A l \in Keys : WaitersOn(l)' =
       IF l = k THEN IF all[t] THEN <<>> ELSE Tail(WaitersOn(k))
       ELSE IF l = h THEN WaitersOn(l) \o ss
       ELSE WaitersOn(l)

\* shouldRequeue says yes: this is what happens.
LEMMA RequeueMoves ==
  ASSUME LotInv, NEW t \in Threads, Requeue(t), NEW k, k = target[t], NEW h, h = requeueTo[t],
         NEW ss, ss = IF all[t] THEN WaitersOn(k) ELSE <<Head(WaitersOn(k))>>
  PROVE  HaveMoved(t, k, h, ss)
<1> DEFINE w == View(Links, key, k)
<1>1. /\ k \in Keys /\ h \in Keys /\ k # h
      /\ key' = [s \in Threads |-> IF s \in ToSet(ss) THEN h ELSE key[s]]
      /\ Relink(Moved(Links, BucketOf[k], BucketOf[h], ss))
  BY ParkingLotAssumption DEF LotInv, UnparkersHoldLocks, Requeue, Locking
<1>2. Good(Links, key) /\ WaitersOn(k) = w /\ w # <<>>
  BY <1>1, Seen DEF LotInv, Requeue
<1>3. w \in Seq(Threads) /\ \A i \in 1 .. Len(w) : w[i] \in Threads /\ key[w[i]] = k
  BY <1>1, <1>2, ViewFacts
<1> HIDE DEF w
<1>4. Len(w) \in Nat /\ 1 \in 1 .. Len(w) /\ Head(w) = w[1] /\ Tail(w) = SubSeq(w, 2, Len(w))
  BY <1>2, <1>3, CutFirst, TailIsSubSeq
<1>5. /\ ss \in Seq(Threads) /\ Len(ss) <= Len(w)
      /\ \A i \in 1 .. Len(ss) : ss[i] = w[i]
      /\ SubSeq(w, Len(ss) + 1, Len(w)) = IF all[t] THEN <<>> ELSE Tail(w)
  <2>1. CASE all[t]
    <3>1. ss = w
      BY <1>2, <2>1
    <3>2. SubSeq(w, Len(w) + 1, Len(w)) = <<>>
      BY <1>4, SubSeqEmpty
    <3> QED BY <1>3, <1>4, <2>1, <3>1, <3>2
  <2>2. CASE ~all[t]
    <3>1. ss = <<w[1]>>
      BY <1>2, <1>4, <2>2
    <3> DEFINE x == w[1]
    <3>2. x \in Threads /\ ss = <<x>>
      BY <1>3, <1>4, <3>1
    <3> HIDE DEF x
    <3>3. ss \in Seq(Threads) /\ Len(ss) = 1 /\ ss[1] = x
      BY <3>2, SequenceOfOne
    <3>4. \A i \in 1 .. 1 : i = 1
      OBVIOUS
    <3>5. \A i \in 1 .. Len(ss) : ss[i] = w[i]
      BY <3>3, <3>4 DEF x
    <3>6. Len(ss) + 1 = 2
      <4>1. Len(ss) = 1
        BY <3>3
      <4>2. 1 + 1 = 2
        OBVIOUS
      <4> QED BY <4>1, <4>2
    <3> QED BY <1>4, <2>2, <3>3, <3>5, <3>6
  <2> QED BY <2>1, <2>2
<1>6. \A s \in ToSet(ss) : s \in Threads /\ key[s] = k
  <2>1. \A i \in 1 .. Len(ss) : i \in 1 .. Len(w) /\ ss[i] = w[i]
    BY <1>4, <1>5
  <2> QED BY <1>3, <1>5, <2>1 DEF ToSet
<1>7. PrefixMoves(Links, key, k, h, ss)
  BY <1>1, <1>2, <1>5, AllMove DEF w
<1> DEFINE M == Moved(Links, BucketOf[k], BucketOf[h], ss)
           N == Rekeyed(key, h, ss, Len(ss))
<1>8. /\ Good(M, N)
      /\ \A l \in Keys : View(M, N, l) =
           IF l = k THEN SubSeq(w, Len(ss) + 1, Len(w))
           ELSE IF l = h THEN View(Links, key, l) \o ss
           ELSE View(Links, key, l)
  BY <1>7 DEF PrefixMoves, w
<1>9. Relink(M) /\ key' = N
  <2>1. key' = [s \in Threads |-> IF s \in ToSet(ss) THEN h ELSE key[s]] /\ ss \in Seq(Threads)
    BY <1>1, <1>5
  <2>2. N = [s \in Threads |-> IF s \in ToSet(ss) THEN h ELSE key[s]]
    BY <2>1 DEF Rekeyed, ToSet
  <2> QED BY <1>1, <2>1, <2>2
<1> HIDE DEF M, N
<1>10. Links' = M
  BY <1>8, <1>9, Relinked DEF Good
<1>11. Good(Links', key')
  BY <1>8, <1>9, <1>10
<1>12. ASSUME NEW l \in Keys
       PROVE  WaitersOn(l)' = IF l = k THEN IF all[t] THEN <<>> ELSE Tail(WaitersOn(k))
                              ELSE IF l = h THEN WaitersOn(l) \o ss
                              ELSE WaitersOn(l)
  <2>1. WaitersOn(l) = View(Links, key, l) /\ WaitersOn(l)' = View(M, N, l)
    BY <1>9, <1>10, Seen
  <2> QED BY <1>2, <1>5, <1>8, <2>1
<1> QED BY <1>1, <1>2, <1>6, <1>11, <1>12 DEF HaveMoved

\* The first thread s that waits on k is unlinked, and the others ss move to h.
OthersHaveMoved(t, k, h, s, ss) ==
  /\ k \in Keys /\ h \in Keys /\ k # h /\ WaitersOn(k) # <<>>
  /\ s \in Threads /\ key[s] = k /\ key'[s] = None
  /\ \A u \in Threads : u # s => key'[u] = key[u] \/ (key[u] = k /\ key'[u] = h)
  /\ Good(Links', key')
  /\ \A l \in Keys : WaitersOn(l)' =
       IF l = k THEN IF all[t] THEN <<>> ELSE Tail(WaitersOn(k))
       ELSE IF l = h THEN WaitersOn(l) \o ss
       ELSE WaitersOn(l)

\* shouldRequeue says no: this is what happens.
LEMMA OthersMove ==
  ASSUME LotInv, NEW t \in Threads, RequeueButFirst(t), NEW k, k = target[t], NEW h, h = requeueTo[t],
         NEW s, s = Head(WaitersOn(k)), NEW ss, ss = IF all[t] THEN Tail(WaitersOn(k)) ELSE <<>>
  PROVE  OthersHaveMoved(t, k, h, s, ss)
<1> DEFINE w == View(Links, key, k)
           M == Removed(Links, BucketOf[k], s)
           N == [key EXCEPT ![s] = None]
           v == View(M, N, k)
<1>1. /\ k \in Keys /\ h \in Keys /\ k # h /\ None \notin Keys
      /\ key' = [u \in Threads |-> IF u = s THEN None ELSE IF u \in ToSet(ss) THEN h ELSE key[u]]
      /\ Relink(Moved(M, BucketOf[k], BucketOf[h], ss))
  BY ParkingLotAssumption DEF LotInv, UnparkersHoldLocks, RequeueButFirst, Locking
<1>2. Good(Links, key) /\ WaitersOn(k) = w /\ w # <<>> /\ s = Head(w)
  BY <1>1, Seen DEF LotInv, RequeueButFirst
<1>3. HeadLeaves(Links, key, k, s)
  BY <1>1, <1>2, FirstLeaves
<1>4. /\ s \in Threads /\ key[s] = k /\ Good(M, N)
      /\ v = Tail(w)
      /\ \A l \in Keys : l # k => View(M, N, l) = View(Links, key, l)
  BY <1>1, <1>3 DEF HeadLeaves
<1>5. key \in AllKeys /\ N[s] = None /\ \A u \in Threads : u # s => N[u] = key[u]
  BY <1>2, <1>4 DEF Good, AllKeys
<1> HIDE DEF w, M, N
<1>6. v \in Seq(Threads) /\ \A i \in 1 .. Len(v) : v[i] \in Threads /\ N[v[i]] = k
  <2>1. Good(M, N) /\ k \in Keys
    BY <1>1, <1>4
  <2> QED BY <2>1, ViewFacts
<1> HIDE DEF v
<1>7. /\ ss \in Seq(Threads) /\ Len(ss) <= Len(v) /\ Len(v) \in Nat
      /\ \A i \in 1 .. Len(ss) : ss[i] = v[i]
      /\ SubSeq(v, Len(ss) + 1, Len(v)) = IF all[t] THEN <<>> ELSE v
  <2>1. CASE all[t]
    <3>1. ss = v
      BY <1>2, <1>4, <2>1
    <3>2. SubSeq(v, Len(v) + 1, Len(v)) = <<>>
      BY <1>6, SubSeqEmpty
    <3>3. v \in Seq(Threads) /\ Len(v) \in Nat /\ Len(v) <= Len(v)
      BY <1>6
    <3>4. SubSeq(v, Len(ss) + 1, Len(v)) = <<>>
      BY <3>1, <3>2
    <3> QED BY <2>1, <3>1, <3>3, <3>4
  <2>2. CASE ~all[t]
    <3>1. ss = <<>> /\ ss \in Seq(Threads) /\ Len(ss) = 0
      BY <2>2, EmptySeq
    <3>2. SubSeq(v, 1, Len(v)) = v
      BY <1>6, SubSeqFull
    <3>3. Len(v) \in Nat /\ \A i : i \notin 1 .. 0
      BY <1>6
    <3> QED BY <2>2, <3>1, <3>2, <3>3
  <2> QED BY <2>1, <2>2
<1>8. \A u \in ToSet(ss) : u \in Threads /\ N[u] = k
  <2>1. \A i \in 1 .. Len(ss) : i \in 1 .. Len(v) /\ ss[i] = v[i]
    BY <1>6, <1>7
  <2> QED BY <1>6, <1>7, <2>1 DEF ToSet
<1>9. PrefixMoves(M, N, k, h, ss)
  BY <1>1, <1>4, <1>7, AllMove DEF v
<1> DEFINE MM == Moved(M, BucketOf[k], BucketOf[h], ss)
           NN == Rekeyed(N, h, ss, Len(ss))
<1>10. /\ Good(MM, NN)
       /\ \A l \in Keys : View(MM, NN, l) =
            IF l = k THEN SubSeq(v, Len(ss) + 1, Len(v))
            ELSE IF l = h THEN View(M, N, l) \o ss
            ELSE View(M, N, l)
  BY <1>9 DEF PrefixMoves, v
<1>11. NN = [u \in Threads |-> IF u \in ToSet(ss) THEN h ELSE N[u]]
  <2>1. ss \in Seq(Threads)
    BY <1>7
  <2>2. ToSet(ss) = {ss[i] : i \in 1 .. Len(ss)}
    BY <2>1, ThreadsNamed
  <2> QED BY <2>2 DEF Rekeyed
<1>12. s \notin ToSet(ss)
  BY <1>1, <1>5, <1>8
<1>13. key' = NN
  BY <1>1, <1>5, <1>11, <1>12
<1>14. Relink(MM)
  BY <1>1
<1> HIDE DEF MM, NN
<1>15. Links' = MM
  BY <1>10, <1>14, Relinked DEF Good
<1>16. Good(Links', key')
  BY <1>10, <1>13, <1>15
<1>17. ASSUME NEW l \in Keys
       PROVE  WaitersOn(l)' = IF l = k THEN IF all[t] THEN <<>> ELSE Tail(WaitersOn(k))
                              ELSE IF l = h THEN WaitersOn(l) \o ss
                              ELSE WaitersOn(l)
  <2>1. WaitersOn(l) = View(Links, key, l) /\ WaitersOn(l)' = View(MM, NN, l)
    BY <1>13, <1>15, Seen
  <2> QED BY <1>2, <1>4, <1>7, <1>10, <2>1
<1>18. key'[s] = None /\ \A u \in Threads : u # s => key'[u] = key[u] \/ (key[u] = k /\ key'[u] = h)
  BY <1>4, <1>5, <1>8, <1>11, <1>12, <1>13
<1> QED BY <1>1, <1>2, <1>4, <1>16, <1>17, <1>18 DEF OthersHaveMoved

-----------------------------------------------------------------------------
(* The invariant.                                                          *)

\* It holds at first.
LEMMA LotInvInit == Init => LotInv
<1> SUFFICES ASSUME Init PROVE LotInv
  OBVIOUS
<1>1. Good(Links, key)
  <2> DEFINE q == [b \in Buckets |-> <<>>]
  <2>1. Links \in AllLinks /\ key \in AllKeys
    BY DEF Init, Links, AllLinks, AllKeys
  <2>2. Chained(Links, q)
    <3>1. q \in [Buckets -> Seq(Threads)] /\ \A b \in Buckets : q[b] = <<>> /\ \A i : i \notin 1 .. Len(q[b])
      <4>1. <<>> \in Seq(Threads) /\ Len(<<>>) = 0 /\ \A i : i \notin 1 .. 0
        OBVIOUS
      <4> QED BY <4>1
    <3>2. \A b \in Buckets : Links.head[b] = None /\ Links.tail[b] = None
      BY DEF Init, Links
    <3> HIDE DEF q
    <3> QED BY <3>1, <3>2 DEF Chained
  <2>3. Placed(q, key)
    <3>1. \A b \in Buckets : \A i : i \notin 1 .. Len(q[b])
      <4>1. Len(<<>>) = 0 /\ \A i : i \notin 1 .. 0
        OBVIOUS
      <4> QED BY <4>1
    <3>2. \A s \in Threads : key[s] = None
      BY DEF Init
    <3> HIDE DEF q
    <3> QED BY <3>1, <3>2 DEF Placed
  <2> QED BY <2>1, <2>2, <2>3 DEF Good
<1>2. LotTypes
  BY DEF Init, LotTypes, Slept, Locking
<1>3. OnlySleepersHaveKeys /\ UnparkersHoldLocks /\ VictimsHaveNoKey /\ UnlinkedAreLetGo
  BY DEF Init, OnlySleepersHaveKeys, UnparkersHoldLocks, VictimsHaveNoKey, UnlinkedAreLetGo,
         Slept, Locking, Requeueing
<1> QED BY <1>1, <1>2, <1>3 DEF LotInv

\* It holds after a thread parks.
LEMMA LotInvPark ==
  ASSUME ~LateCommits, LotInv, NEW t \in Threads, Park(t)
  PROVE  LotInv'
<1>0. /\ LotTypes /\ OnlySleepersHaveKeys /\ UnparkersHoldLocks /\ VictimsHaveNoKey /\ UnlinkedAreLetGo
      /\ key \in AllKeys /\ None \notin Threads \cup Keys /\ \A k \in Keys : BucketOf[k] \in Buckets
  BY ParkingLotAssumption DEF LotInv, Good
<1>1. \E k \in Keys : key[t] = None /\ key' = [key EXCEPT ![t] = k]
  BY ParkJoins
<1>2. Good(Links', key') /\ key' \in AllKeys
  BY ParkJoins DEF Good
<1>3. LotTypes'
  BY <1>0, <1>1, <1>2 DEF Park, LotTypes, Slept, Locking
<1>4. OnlySleepersHaveKeys'
  BY <1>0, <1>1, <1>2 DEF Park, OnlySleepersHaveKeys, LotTypes, AllKeys, Slept
<1>5. UnparkersHoldLocks'
  BY <1>0, <1>1, <1>2 DEF Park, UnparkersHoldLocks, LotTypes, Slept, Locking, Requeueing
<1>6. VictimsHaveNoKey'
  BY <1>0, <1>1, <1>2 DEF Park, VictimsHaveNoKey, OnlySleepersHaveKeys, LotTypes, AllKeys, Slept
<1>7. UnlinkedAreLetGo'
  BY <1>0, <1>1, <1>2 DEF Park, UnlinkedAreLetGo, VictimsHaveNoKey, OnlySleepersHaveKeys, LotTypes, AllKeys, Slept
<1> QED BY <1>2, <1>3, <1>4, <1>5, <1>6, <1>7 DEF LotInv

\* It holds after a thread starts an unpark.
LEMMA LotInvUnpark ==
  ASSUME LotInv, NEW t \in Threads, Unpark(t)
  PROVE  LotInv'
<1>0. /\ LotTypes /\ OnlySleepersHaveKeys /\ UnparkersHoldLocks /\ VictimsHaveNoKey /\ UnlinkedAreLetGo
      /\ key \in AllKeys /\ None \notin Threads \cup Keys /\ \A k \in Keys : BucketOf[k] \in Buckets
  BY ParkingLotAssumption DEF LotInv, Good
<1>1. key' = key /\ links' = links
  BY DEF Unpark
<1>2. Good(Links', key') /\ key' \in AllKeys
  BY <1>1, QueuesStay DEF LotInv, Good
<1>3. LotTypes'
  BY <1>0, <1>1, <1>2 DEF Unpark, Free, LotTypes, Slept, Locking
<1>4. OnlySleepersHaveKeys'
  BY <1>0, <1>1, <1>2 DEF Unpark, Free, OnlySleepersHaveKeys, LotTypes, AllKeys, Slept
<1>5. UnparkersHoldLocks'
  <2>1. PICK k \in Keys : /\ Free(BucketOf[k])
                         /\ lock' = [lock EXCEPT ![BucketOf[k]] = t]
                         /\ target' = [target EXCEPT ![t] = k]
    BY DEF Unpark
  <2>2. /\ pc[t] = "idle" /\ pc' = [pc EXCEPT ![t] = "unlink"] /\ requeueTo' = requeueTo
        /\ requeueTo[t] = None
    BY <1>0 DEF Unpark, UnparkersHoldLocks, Requeueing
  <2>3. ASSUME NEW u \in Threads, u # t
        PROVE  /\ pc'[u] = pc[u] /\ target'[u] = target[u] /\ requeueTo'[u] = requeueTo[u]
               /\ pc[u] \in Locking => lock'[BucketOf[target[u]]] = u
    BY <1>0, <2>1, <2>2, <2>3 DEF UnparkersHoldLocks, LotTypes, Free
  <2>4. pc'[t] = "unlink" /\ target'[t] = k /\ requeueTo'[t] = None /\ lock'[BucketOf[k]] = t
    BY <1>0, <2>1, <2>2 DEF LotTypes
  <2> QED BY <1>0, <2>1, <2>3, <2>4 DEF UnparkersHoldLocks, Locking, Slept, Requeueing
<1>6. VictimsHaveNoKey'
  BY <1>0, <1>1, <1>2 DEF Unpark, Free, VictimsHaveNoKey, OnlySleepersHaveKeys, LotTypes, AllKeys, Slept
<1>7. UnlinkedAreLetGo'
  BY <1>0, <1>1, <1>2 DEF Unpark, Free, UnlinkedAreLetGo, VictimsHaveNoKey, OnlySleepersHaveKeys, LotTypes, AllKeys, Slept
<1> QED BY <1>2, <1>3, <1>4, <1>5, <1>6, <1>7 DEF LotInv

\* It holds after a thread starts an unpark that requeues.
LEMMA LotInvUnparkRequeue ==
  ASSUME LotInv, NEW t \in Threads, UnparkRequeue(t)
  PROVE  LotInv'
<1>0. /\ LotTypes /\ OnlySleepersHaveKeys /\ UnparkersHoldLocks /\ VictimsHaveNoKey /\ UnlinkedAreLetGo
      /\ key \in AllKeys /\ None \notin Threads \cup Keys /\ \A k \in Keys : BucketOf[k] \in Buckets
  BY ParkingLotAssumption DEF LotInv, Good
<1>1. key' = key /\ links' = links
  BY DEF UnparkRequeue
<1>2. Good(Links', key') /\ key' \in AllKeys
  BY <1>1, QueuesStay DEF LotInv, Good
<1>3. LotTypes'
  BY <1>0, <1>1, <1>2, ParkingLotAssumption DEF UnparkRequeue, Free, LotTypes, Slept, Locking
<1>4. OnlySleepersHaveKeys'
  BY <1>0, <1>1, <1>2 DEF UnparkRequeue, Free, OnlySleepersHaveKeys, LotTypes, AllKeys, Slept
<1>5. UnparkersHoldLocks'
  BY <1>0, <1>1, <1>2, ParkingLotAssumption DEF UnparkRequeue, Free, UnparkersHoldLocks, LotTypes, Slept, Locking, Requeueing
<1>6. VictimsHaveNoKey'
  BY <1>0, <1>1, <1>2 DEF UnparkRequeue, Free, VictimsHaveNoKey, OnlySleepersHaveKeys, LotTypes, AllKeys, Slept
<1>7. UnlinkedAreLetGo'
  BY <1>0, <1>1, <1>2 DEF UnparkRequeue, Free, UnlinkedAreLetGo, VictimsHaveNoKey, OnlySleepersHaveKeys, LotTypes, AllKeys, Slept
<1> QED BY <1>2, <1>3, <1>4, <1>5, <1>6, <1>7 DEF LotInv

\* It holds after a thread that was let go returns.
LEMMA LotInvUnparked ==
  ASSUME LotInv, NEW t \in Threads, Unparked(t)
  PROVE  LotInv'
<1>0. /\ LotTypes /\ OnlySleepersHaveKeys /\ UnparkersHoldLocks /\ VictimsHaveNoKey /\ UnlinkedAreLetGo
      /\ key \in AllKeys /\ None \notin Threads \cup Keys /\ \A k \in Keys : BucketOf[k] \in Buckets
  BY ParkingLotAssumption DEF LotInv, Good
<1>1. key' = key /\ links' = links
  BY <1>0 DEF Unparked, LotInv, OnlySleepersHaveKeys, AllKeys, Slept
<1>2. Good(Links', key') /\ key' \in AllKeys
  BY <1>1, QueuesStay DEF LotInv, Good
<1>3. LotTypes'
  BY <1>0, <1>1, <1>2 DEF Unparked, Return, LotTypes, Slept, Locking
<1>4. OnlySleepersHaveKeys'
  BY <1>0, <1>1, <1>2 DEF Unparked, Return, OnlySleepersHaveKeys, LotTypes, AllKeys, Slept
<1>5. UnparkersHoldLocks'
  BY <1>0, <1>1, <1>2 DEF Unparked, Return, UnparkersHoldLocks, LotTypes, Slept, Locking, Requeueing
<1>6. VictimsHaveNoKey'
  BY <1>0, <1>1, <1>2 DEF Unparked, Return, VictimsHaveNoKey, OnlySleepersHaveKeys, LotTypes, AllKeys, Slept
<1>7. UnlinkedAreLetGo'
  BY <1>0, <1>1, <1>2 DEF Unparked, Return, UnlinkedAreLetGo, VictimsHaveNoKey, OnlySleepersHaveKeys, LotTypes, AllKeys, Slept
<1> QED BY <1>2, <1>3, <1>4, <1>5, <1>6, <1>7 DEF LotInv

\* It holds after a timeout passes.
LEMMA LotInvTimeOut ==
  ASSUME LotInv, NEW t \in Threads, TimeOut(t)
  PROVE  LotInv'
<1>0. /\ LotTypes /\ OnlySleepersHaveKeys /\ UnparkersHoldLocks /\ VictimsHaveNoKey /\ UnlinkedAreLetGo
      /\ key \in AllKeys /\ None \notin Threads \cup Keys /\ \A k \in Keys : BucketOf[k] \in Buckets
  BY ParkingLotAssumption DEF LotInv, Good
<1>1. key' = key /\ links' = links
  BY DEF TimeOut
<1>2. Good(Links', key') /\ key' \in AllKeys
  BY <1>1, QueuesStay DEF LotInv, Good
<1>3. LotTypes'
  BY <1>0, <1>1, <1>2 DEF TimeOut, ExpiresOrRetries, LotTypes, AllKeys, Slept, Locking
<1>4. OnlySleepersHaveKeys'
  BY <1>0, <1>1, <1>2 DEF TimeOut, ExpiresOrRetries, OnlySleepersHaveKeys, LotTypes, AllKeys, Slept
<1>5. UnparkersHoldLocks'
  BY <1>0, <1>1, <1>2 DEF TimeOut, ExpiresOrRetries, UnparkersHoldLocks, LotTypes, AllKeys, Slept, Locking, Requeueing
<1>6. VictimsHaveNoKey'
  BY <1>0, <1>1, <1>2 DEF TimeOut, ExpiresOrRetries, VictimsHaveNoKey, OnlySleepersHaveKeys, LotTypes, AllKeys, Slept
<1>7. UnlinkedAreLetGo'
  BY <1>0, <1>1, <1>2 DEF TimeOut, ExpiresOrRetries, UnlinkedAreLetGo, VictimsHaveNoKey, OnlySleepersHaveKeys, LotTypes, AllKeys, Slept
<1> QED BY <1>2, <1>3, <1>4, <1>5, <1>6, <1>7 DEF LotInv

\* It holds after a timeout passes too late.
LEMMA LotInvTimeOutUnparked ==
  ASSUME LotInv, NEW t \in Threads, TimeOutUnparked(t)
  PROVE  LotInv'
<1>0. /\ LotTypes /\ OnlySleepersHaveKeys /\ UnparkersHoldLocks /\ VictimsHaveNoKey /\ UnlinkedAreLetGo
      /\ key \in AllKeys /\ None \notin Threads \cup Keys /\ \A k \in Keys : BucketOf[k] \in Buckets
  BY ParkingLotAssumption DEF LotInv, Good
<1>1. key' = key /\ links' = links
  BY DEF TimeOutUnparked
<1>2. Good(Links', key') /\ key' \in AllKeys
  BY <1>1, QueuesStay DEF LotInv, Good
<1>3. LotTypes'
  BY <1>0, <1>1, <1>2 DEF TimeOutUnparked, ExpiresOrRetries, Return, LotTypes, Slept, Locking
<1>4. OnlySleepersHaveKeys'
  BY <1>0, <1>1, <1>2 DEF TimeOutUnparked, ExpiresOrRetries, Return, OnlySleepersHaveKeys, LotTypes, AllKeys, Slept
<1>5. UnparkersHoldLocks'
  BY <1>0, <1>1, <1>2 DEF TimeOutUnparked, ExpiresOrRetries, Return, UnparkersHoldLocks, LotTypes, Slept, Locking, Requeueing
<1>6. VictimsHaveNoKey'
  BY <1>0, <1>1, <1>2 DEF TimeOutUnparked, ExpiresOrRetries, Return, VictimsHaveNoKey, OnlySleepersHaveKeys, LotTypes, AllKeys, Slept
<1>7. UnlinkedAreLetGo'
  BY <1>0, <1>1, <1>2 DEF TimeOutUnparked, ExpiresOrRetries, Return, UnlinkedAreLetGo, VictimsHaveNoKey, OnlySleepersHaveKeys, LotTypes, AllKeys, Slept
<1> QED BY <1>2, <1>3, <1>4, <1>5, <1>6, <1>7 DEF LotInv

\* It holds after a thread gives up.
LEMMA LotInvLeaveQueue ==
  ASSUME LotInv, NEW t \in Threads, LeaveQueue(t)
  PROVE  LotInv'
<1>0. /\ LotTypes /\ OnlySleepersHaveKeys /\ UnparkersHoldLocks /\ VictimsHaveNoKey /\ UnlinkedAreLetGo
      /\ key \in AllKeys /\ None \notin Threads \cup Keys /\ \A k \in Keys : BucketOf[k] \in Buckets
  BY ParkingLotAssumption DEF LotInv, Good
<1>1. key[t] = target[t] /\ target[t] \in Keys /\ key' = [key EXCEPT ![t] = None]
  BY LeaverLeaves DEF LeaverHasLeft
<1>2. Good(Links', key') /\ key' \in AllKeys
  BY LeaverLeaves DEF LeaverHasLeft, Good
<1>3. LotTypes'
  BY <1>0, <1>1, <1>2 DEF LeaveQueue, Return, LotTypes, Slept, Locking
<1>4. OnlySleepersHaveKeys'
  BY <1>0, <1>1, <1>2 DEF LeaveQueue, Return, OnlySleepersHaveKeys, LotTypes, AllKeys, Slept
<1>5. UnparkersHoldLocks'
  BY <1>0, <1>1, <1>2 DEF LeaveQueue, Return, UnparkersHoldLocks, LotTypes, Slept, Locking, Requeueing
<1>6. VictimsHaveNoKey'
  BY <1>0, <1>1, <1>2 DEF LeaveQueue, Return, VictimsHaveNoKey, OnlySleepersHaveKeys, LotTypes, AllKeys, Slept
<1>7. UnlinkedAreLetGo'
  BY <1>0, <1>1, <1>2 DEF LeaveQueue, Return, UnlinkedAreLetGo, VictimsHaveNoKey, OnlySleepersHaveKeys, LotTypes, AllKeys, Slept
<1> QED BY <1>2, <1>3, <1>4, <1>5, <1>6, <1>7 DEF LotInv

\* It holds after a thread is unlinked.
LEMMA LotInvUnlink ==
  ASSUME LotInv, NEW t \in Threads, Unlink(t)
  PROVE  LotInv'
<1>0. /\ LotTypes /\ OnlySleepersHaveKeys /\ UnparkersHoldLocks /\ VictimsHaveNoKey /\ UnlinkedAreLetGo
      /\ key \in AllKeys /\ None \notin Threads \cup Keys /\ \A k \in Keys : BucketOf[k] \in Buckets
  BY ParkingLotAssumption DEF LotInv, Good
<1> DEFINE s == Head(WaitersOn(target[t]))
<1>1. /\ s \in Threads /\ key[s] = target[t] /\ target[t] \in Keys
      /\ key' = [key EXCEPT ![s] = None] /\ victim' = [victim EXCEPT ![t] = s]
  BY FirstIsUnlinked DEF Unlink, Take
<1>2. Good(Links', key') /\ key' \in AllKeys
  BY FirstIsUnlinked DEF Good
<1> HIDE DEF s
<1>3. LotTypes'
  BY <1>0, <1>1, <1>2 DEF Unlink, Take, LotTypes, Slept, Locking
<1>4. OnlySleepersHaveKeys'
  BY <1>0, <1>1, <1>2 DEF Unlink, Take, OnlySleepersHaveKeys, LotTypes, AllKeys, Slept
<1>5. UnparkersHoldLocks'
  BY <1>0, <1>1, <1>2 DEF Unlink, Take, UnparkersHoldLocks, LotTypes, Slept, Locking, Requeueing
<1>6. VictimsHaveNoKey'
  BY <1>0, <1>1, <1>2 DEF Unlink, Take, VictimsHaveNoKey, OnlySleepersHaveKeys, LotTypes, AllKeys, Slept
<1>7. UnlinkedAreLetGo'
  BY <1>0, <1>1, <1>2 DEF Unlink, Take, UnlinkedAreLetGo, VictimsHaveNoKey, OnlySleepersHaveKeys, LotTypes, AllKeys, Slept
<1> QED BY <1>2, <1>3, <1>4, <1>5, <1>6, <1>7 DEF LotInv

\* It holds after a thread is let go.
LEMMA LotInvCommitUnpark ==
  ASSUME LotInv, NEW t \in Threads, CommitUnpark(t)
  PROVE  LotInv'
<1>0. /\ LotTypes /\ OnlySleepersHaveKeys /\ UnparkersHoldLocks /\ VictimsHaveNoKey /\ UnlinkedAreLetGo
      /\ key \in AllKeys /\ None \notin Threads \cup Keys /\ \A k \in Keys : BucketOf[k] \in Buckets
  BY ParkingLotAssumption DEF LotInv, Good
<1>1. key' = key /\ links' = links
  BY DEF CommitUnpark
<1>2. Good(Links', key') /\ key' \in AllKeys
  BY <1>1, QueuesStay DEF LotInv, Good
<1>3. LotTypes'
  <2>1. victim[t] \in Threads
    BY <1>0 DEF CommitUnpark, VictimsHaveNoKey, LotTypes
  <2>2. /\ parker' \in [Threads -> {0, 1}] /\ victim' \in [Threads -> Threads \cup {None}]
        /\ lock' \in [Buckets -> Threads \cup {None}]
    BY <1>0, <2>1 DEF CommitUnpark, Unlock, LotTypes
  <2>3. /\ pc' \in [Threads -> {"idle"} \cup Slept \cup Locking]
        /\ target' \in [Threads -> Keys \cup {None}] /\ requeueTo' \in [Threads -> Keys \cup {None}]
        /\ timed' \in [Threads -> BOOLEAN] /\ all' \in [Threads -> BOOLEAN]
    BY <1>0 DEF CommitUnpark, Return, LotTypes, Slept, Locking
  <2> QED BY <2>2, <2>3 DEF LotTypes
<1>4. OnlySleepersHaveKeys'
  <2>1. victim[t] \in Threads /\ key[victim[t]] = None
    BY <1>0 DEF CommitUnpark, VictimsHaveNoKey, LotTypes
  <2>2. ASSUME NEW u \in Threads
        PROVE  /\ pc'[u] \in Slept <=> pc[u] \in Slept
               /\ parker'[u] = IF u = victim[t] THEN 0 ELSE parker[u]
    <3>1. parker'[u] = IF u = victim[t] THEN 0 ELSE parker[u]
      BY <1>0, <2>1 DEF CommitUnpark, LotTypes
    <3>2. pc'[u] \in Slept <=> pc[u] \in Slept
      BY <1>0 DEF CommitUnpark, Return, LotTypes, Slept
    <3> QED BY <3>1, <3>2
  <2> QED BY <1>0, <1>1, <2>1, <2>2 DEF OnlySleepersHaveKeys
<1>5. UnparkersHoldLocks'
  BY <1>0, <1>1, <1>2 DEF CommitUnpark, Unlock, Return, UnparkersHoldLocks, LotTypes, Slept, Locking, Requeueing
<1>6. VictimsHaveNoKey'
  BY <1>0, <1>1, <1>2 DEF CommitUnpark, Unlock, Return, VictimsHaveNoKey, OnlySleepersHaveKeys, LotTypes, AllKeys, Slept
<1>7. UnlinkedAreLetGo'
  BY <1>0, <1>1, <1>2 DEF CommitUnpark, Unlock, Return, UnlinkedAreLetGo, VictimsHaveNoKey, OnlySleepersHaveKeys, LotTypes, AllKeys, Slept
<1> QED BY <1>2, <1>3, <1>4, <1>5, <1>6, <1>7 DEF LotInv

\* It holds after nobody is left to unpark.
LEMMA LotInvNoMoreMatches ==
  ASSUME LotInv, NEW t \in Threads, NoMoreMatches(t)
  PROVE  LotInv'
<1>0. /\ LotTypes /\ OnlySleepersHaveKeys /\ UnparkersHoldLocks /\ VictimsHaveNoKey /\ UnlinkedAreLetGo
      /\ key \in AllKeys /\ None \notin Threads \cup Keys /\ \A k \in Keys : BucketOf[k] \in Buckets
  BY ParkingLotAssumption DEF LotInv, Good
<1>1. key' = key /\ links' = links
  BY DEF NoMoreMatches
<1>2. Good(Links', key') /\ key' \in AllKeys
  BY <1>1, QueuesStay DEF LotInv, Good
<1>3. LotTypes'
  BY <1>0, <1>1, <1>2 DEF NoMoreMatches, Unlock, Return, LotTypes, Slept, Locking
<1>4. OnlySleepersHaveKeys'
  BY <1>0, <1>1, <1>2 DEF NoMoreMatches, Unlock, Return, OnlySleepersHaveKeys, LotTypes, AllKeys, Slept
<1>5. UnparkersHoldLocks'
  BY <1>0, <1>1, <1>2 DEF NoMoreMatches, Unlock, Return, UnparkersHoldLocks, LotTypes, Slept, Locking, Requeueing
<1>6. VictimsHaveNoKey'
  BY <1>0, <1>1, <1>2 DEF NoMoreMatches, Unlock, Return, VictimsHaveNoKey, OnlySleepersHaveKeys, LotTypes, AllKeys, Slept
<1>7. UnlinkedAreLetGo'
  BY <1>0, <1>1, <1>2 DEF NoMoreMatches, Unlock, Return, UnlinkedAreLetGo, VictimsHaveNoKey, OnlySleepersHaveKeys, LotTypes, AllKeys, Slept
<1> QED BY <1>2, <1>3, <1>4, <1>5, <1>6, <1>7 DEF LotInv

\* It holds after the second bucket is locked.
LEMMA LotInvLockTo ==
  ASSUME LotInv, NEW t \in Threads, LockTo(t)
  PROVE  LotInv'
<1>0. /\ LotTypes /\ OnlySleepersHaveKeys /\ UnparkersHoldLocks /\ VictimsHaveNoKey /\ UnlinkedAreLetGo
      /\ key \in AllKeys /\ None \notin Threads \cup Keys /\ \A k \in Keys : BucketOf[k] \in Buckets
  BY ParkingLotAssumption DEF LotInv, Good
<1>1. key' = key /\ links' = links
  BY DEF LockTo
<1>2. Good(Links', key') /\ key' \in AllKeys
  BY <1>1, QueuesStay DEF LotInv, Good
<1>3. LotTypes'
  BY <1>0, <1>1, <1>2 DEF LockTo, Free, LotTypes, Slept, Locking
<1>4. OnlySleepersHaveKeys'
  BY <1>0, <1>1, <1>2 DEF LockTo, Free, OnlySleepersHaveKeys, LotTypes, AllKeys, Slept
<1>5. UnparkersHoldLocks'
  BY <1>0, <1>1, <1>2 DEF LockTo, Free, UnparkersHoldLocks, LotTypes, Slept, Locking, Requeueing
<1>6. VictimsHaveNoKey'
  BY <1>0, <1>1, <1>2 DEF LockTo, Free, VictimsHaveNoKey, OnlySleepersHaveKeys, LotTypes, AllKeys, Slept
<1>7. UnlinkedAreLetGo'
  BY <1>0, <1>1, <1>2 DEF LockTo, Free, UnlinkedAreLetGo, VictimsHaveNoKey, OnlySleepersHaveKeys, LotTypes, AllKeys, Slept
<1> QED BY <1>2, <1>3, <1>4, <1>5, <1>6, <1>7 DEF LotInv

\* It holds after nobody is there to move.
LEMMA LotInvRequeueNobody ==
  ASSUME LotInv, NEW t \in Threads, RequeueNobody(t)
  PROVE  LotInv'
<1>0. /\ LotTypes /\ OnlySleepersHaveKeys /\ UnparkersHoldLocks /\ VictimsHaveNoKey /\ UnlinkedAreLetGo
      /\ key \in AllKeys /\ None \notin Threads \cup Keys /\ \A k \in Keys : BucketOf[k] \in Buckets
  BY ParkingLotAssumption DEF LotInv, Good
<1>1. key' = key /\ links' = links
  BY DEF RequeueNobody
<1>2. Good(Links', key') /\ key' \in AllKeys
  BY <1>1, QueuesStay DEF LotInv, Good
<1>3. LotTypes'
  BY <1>0, <1>1, <1>2 DEF RequeueNobody, Unlock, Return, LotTypes, Slept, Locking
<1>4. OnlySleepersHaveKeys'
  BY <1>0, <1>1, <1>2 DEF RequeueNobody, Unlock, Return, OnlySleepersHaveKeys, LotTypes, AllKeys, Slept
<1>5. UnparkersHoldLocks'
  BY <1>0, <1>1, <1>2 DEF RequeueNobody, Unlock, Return, UnparkersHoldLocks, LotTypes, Slept, Locking, Requeueing
<1>6. VictimsHaveNoKey'
  BY <1>0, <1>1, <1>2 DEF RequeueNobody, Unlock, Return, VictimsHaveNoKey, OnlySleepersHaveKeys, LotTypes, AllKeys, Slept
<1>7. UnlinkedAreLetGo'
  BY <1>0, <1>1, <1>2 DEF RequeueNobody, Unlock, Return, UnlinkedAreLetGo, VictimsHaveNoKey, OnlySleepersHaveKeys, LotTypes, AllKeys, Slept
<1> QED BY <1>2, <1>3, <1>4, <1>5, <1>6, <1>7 DEF LotInv

\* It holds after threads move.
LEMMA LotInvRequeue ==
  ASSUME LotInv, NEW t \in Threads, Requeue(t)
  PROVE  LotInv'
<1>0. /\ LotTypes /\ OnlySleepersHaveKeys /\ UnparkersHoldLocks /\ VictimsHaveNoKey /\ UnlinkedAreLetGo
      /\ key \in AllKeys /\ None \notin Threads \cup Keys /\ \A k \in Keys : BucketOf[k] \in Buckets
  BY ParkingLotAssumption DEF LotInv, Good
<1>1. /\ target[t] \in Keys /\ requeueTo[t] \in Keys
      /\ \A u \in Threads : key'[u] = key[u] \/ (key[u] = target[t] /\ key'[u] = requeueTo[t])
  <2> DEFINE k == target[t]
             h == requeueTo[t]
             ss == IF all[t] THEN WaitersOn(k) ELSE <<Head(WaitersOn(k))>>
  <2>1. /\ k \in Keys /\ h \in Keys
        /\ key' = [s \in Threads |-> IF s \in ToSet(ss) THEN h ELSE key[s]]
        /\ \A s \in ToSet(ss) : s \in Threads /\ key[s] = k
    BY RequeueMoves DEF HaveMoved
  <2> HIDE DEF ss
  <2> QED BY <2>1
<1>2. Good(Links', key') /\ key' \in AllKeys
  BY RequeueMoves DEF HaveMoved, Good
<1>3. LotTypes'
  BY <1>0, <1>1, <1>2 DEF Requeue, Unlock, Return, LotTypes, Slept, Locking
<1>4. OnlySleepersHaveKeys'
  BY <1>0, <1>1, <1>2 DEF Requeue, Unlock, Return, OnlySleepersHaveKeys, LotTypes, AllKeys, Slept
<1>5. UnparkersHoldLocks'
  BY <1>0, <1>1, <1>2 DEF Requeue, Unlock, Return, UnparkersHoldLocks, LotTypes, Slept, Locking, Requeueing
<1>6. VictimsHaveNoKey'
  BY <1>0, <1>1, <1>2 DEF Requeue, Unlock, Return, VictimsHaveNoKey, OnlySleepersHaveKeys, LotTypes, AllKeys, Slept
<1>7. UnlinkedAreLetGo'
  BY <1>0, <1>1, <1>2 DEF Requeue, Unlock, Return, UnlinkedAreLetGo, VictimsHaveNoKey, OnlySleepersHaveKeys, LotTypes, AllKeys, Slept
<1> QED BY <1>2, <1>3, <1>4, <1>5, <1>6, <1>7 DEF LotInv

\* It holds after one is unlinked and the others move.
LEMMA LotInvRequeueButFirst ==
  ASSUME LotInv, NEW t \in Threads, RequeueButFirst(t)
  PROVE  LotInv'
<1>0. /\ LotTypes /\ OnlySleepersHaveKeys /\ UnparkersHoldLocks /\ VictimsHaveNoKey /\ UnlinkedAreLetGo
      /\ key \in AllKeys /\ None \notin Threads \cup Keys /\ \A k \in Keys : BucketOf[k] \in Buckets
  BY ParkingLotAssumption DEF LotInv, Good
<1> DEFINE s == Head(WaitersOn(target[t]))
<1>1. /\ s \in Threads /\ key[s] = target[t] /\ key'[s] = None
      /\ target[t] \in Keys /\ requeueTo[t] \in Keys /\ victim' = [victim EXCEPT ![t] = s]
      /\ \A u \in Threads : u # s => key'[u] = key[u] \/ (key[u] = target[t] /\ key'[u] = requeueTo[t])
  <2> DEFINE k == target[t]
             h == requeueTo[t]
             ss == IF all[t] THEN Tail(WaitersOn(k)) ELSE <<>>
  <2>0. OthersHaveMoved(t, k, h, s, ss)
    BY OthersMove
  <2> HIDE DEF ss
  <2>1. /\ k \in Keys /\ h \in Keys /\ s \in Threads /\ key[s] = k /\ key'[s] = None
        /\ \A u \in Threads : u # s => key'[u] = key[u] \/ (key[u] = k /\ key'[u] = h)
    BY <2>0 DEF OthersHaveMoved
  <2>2. victim' = [victim EXCEPT ![t] = s]
    BY DEF RequeueButFirst
  <2> QED BY <2>1, <2>2
<1>2. Good(Links', key') /\ key' \in AllKeys
  BY OthersMove DEF OthersHaveMoved, Good
<1> HIDE DEF s
<1>3. LotTypes'
  BY <1>0, <1>1, <1>2 DEF RequeueButFirst, LotTypes, Slept, Locking
<1>4. OnlySleepersHaveKeys'
  BY <1>0, <1>1, <1>2 DEF RequeueButFirst, OnlySleepersHaveKeys, LotTypes, AllKeys, Slept
<1>5. UnparkersHoldLocks'
  BY <1>0, <1>1, <1>2 DEF RequeueButFirst, UnparkersHoldLocks, LotTypes, Slept, Locking, Requeueing
<1>6. VictimsHaveNoKey'
  BY <1>0, <1>1, <1>2 DEF RequeueButFirst, VictimsHaveNoKey, OnlySleepersHaveKeys, LotTypes, AllKeys, Slept
<1>7. UnlinkedAreLetGo'
  BY <1>0, <1>1, <1>2 DEF RequeueButFirst, UnlinkedAreLetGo, VictimsHaveNoKey, OnlySleepersHaveKeys, LotTypes, AllKeys, Slept
<1> QED BY <1>2, <1>3, <1>4, <1>5, <1>6, <1>7 DEF LotInv

\* It holds after any step, unless a thread may park before the commit of its
\* last unpark.
LEMMA LotInvNext ==
  ASSUME ~LateCommits, LotInv, [Next]_vars
  PROVE  LotInv'
<1>1. ASSUME NEW t \in Threads, Park(t) \/ Unpark(t) \/ UnparkRequeue(t) \/ Step(t)
      PROVE  LotInv'
  BY <1>1, LotInvPark, LotInvUnpark, LotInvUnparkRequeue, LotInvUnparked, LotInvTimeOut, LotInvTimeOutUnparked,
     LotInvLeaveQueue, LotInvUnlink, LotInvCommitUnpark, LotInvNoMoreMatches, LotInvLockTo,
     LotInvRequeueNobody, LotInvRequeue, LotInvRequeueButFirst DEF Step
<1>2. CASE UNCHANGED vars
  <2>1. Links' = Links /\ key' = key
    BY <1>2 DEF vars, links, Links
  <2> QED BY <1>2, <2>1 DEF vars, LotInv, LotTypes, OnlySleepersHaveKeys, UnparkersHoldLocks,
                            VictimsHaveNoKey, UnlinkedAreLetGo
<1> QED BY <1>1, <1>2 DEF Next

\* The invariant holds in every state.
LEMMA LotInvHolds ==
  ASSUME ~LateCommits
  PROVE  Spec => []LotInv
<1>1. LotInv /\ [Next]_vars => LotInv'
  BY LotInvNext
<1> QED BY <1>1, LotInvInit, PTL DEF Spec

\* A slot that has a key is in the queue of its key's bucket.
LEMMA KeysAreInSlots ==
  ASSUME Good(Links, key), NEW s \in Threads, key[s] # None
  PROVE  s \in Slots(BucketOf[key[s]])
<1>1. key[s] \in Keys
  BY DEF Good, AllKeys
<1>2. s \in ToSet(Walk(Links, BucketOf[key[s]], Threads))
  BY <1>1, ViewFacts
<1> QED BY <1>2 DEF Slots

\* A thread that sleeps in park() is in the queue an unpark of its key walks, or
\* was unlinked by a thread that has let it go or still holds that bucket's lock
\* (parking_lot.h: park, commitUnpark).
THEOREM SleepersAreReachable ==
  ASSUME ~LateCommits
  PROVE  Spec => []SleeperIsReachable
<1>1. LotInv => SleeperIsReachable
  <2> SUFFICES ASSUME LotInv, NEW s \in Threads, pc[s] \in Slept
               PROVE  \/ key[s] # None /\ s \in Slots(BucketOf[key[s]])
                      \/ key[s] = None /\ parker[s] = 0
                      \/ /\ key[s] = None
                         /\ \E t \in Threads :
                              pc[t] = "commit" /\ victim[t] = s /\ lock[BucketOf[target[t]]] = t
    BY DEF SleeperIsReachable
  <2>1. CASE key[s] # None
    BY <2>1, KeysAreInSlots DEF LotInv
  <2>2. CASE key[s] = None /\ parker[s] # 0
    <3>1. PICK t \in Threads : victim[t] = s
      BY <2>2 DEF LotInv, UnlinkedAreLetGo
    <3>2. pc[t] = "commit"
      BY <3>1, ParkingLotAssumption DEF LotInv, VictimsHaveNoKey
    <3>3. lock[BucketOf[target[t]]] = t
      BY <3>2 DEF LotInv, UnparkersHoldLocks, Locking
    <3> QED BY <2>2, <3>1, <3>2, <3>3
  <2> QED BY <2>1, <2>2
<1> QED BY <1>1, LotInvHolds, PTL

\* A thread whose timeout has passed and whose key is unchanged under the lock
\* is in the queue it then leaves, as parkFor verifies (parking_lot.h:149).
THEOREM TimedOutFindTheirSlot ==
  ASSUME ~LateCommits
  PROVE  Spec => []RemovalFindsSlot
<1>1. LotInv => RemovalFindsSlot
  <2> SUFFICES ASSUME LotInv, NEW t \in Threads, pc[t] = "timedOut", key[t] = target[t]
               PROVE  t \in Slots(BucketOf[target[t]])
    BY DEF RemovalFindsSlot
  <2>1. key[t] # None
    BY ParkingLotAssumption DEF LotInv, UnparkersHoldLocks
  <2> QED BY <2>1, KeysAreInSlots DEF LotInv
<1> QED BY <1>1, LotInvHolds, PTL

-----------------------------------------------------------------------------
(* The queues of WaitQueues.                                               *)

\* What Lifted takes for its variables.
Waiting == [k \in Keys |-> WaitersOn(k)]

Place == [t \in Threads |->
           IF pc[t] \notin Slept THEN "out" ELSE IF key[t] = None THEN "woken" ELSE "in"]

\* Nobody waits at first.
LEMMA StartsAsQueues == Init => Lifted!Init
<1> SUFFICES ASSUME Init PROVE Lifted!Init
  OBVIOUS
<1>1. \A t \in Threads : Place[t] = "out"
  BY DEF Init, Place, Slept
<1>2. ASSUME NEW k \in Keys PROVE WaitersOn(k) = <<>>
  <2>1. /\ View(Links, key, k) \in Seq(Threads)
        /\ \A i \in 1 .. Len(View(Links, key, k)) : key[View(Links, key, k)[i]] = k
    BY LotInvInit, ViewFacts DEF LotInv
  <2> DEFINE w == View(Links, key, k)
  <2>2. w \in Seq(Threads) /\ \A i \in 1 .. Len(w) : w[i] \in Threads /\ key[w[i]] = k
    BY <2>1
  <2> HIDE DEF w
  <2>3. \A s \in Threads : key[s] # k
    BY ParkingLotAssumption DEF Init
  <2>4. w = <<>>
    <3>1. SUFFICES ASSUME w # <<>> PROVE FALSE
      OBVIOUS
    <3>2. 1 \in 1 .. Len(w)
      BY <2>2, <3>1, CutFirst
    <3> QED BY <2>2, <2>3, <3>2
  <2> QED BY <2>4, Seen DEF w
<1>3. Waiting = [k \in Keys |-> <<>>] /\ Place = [t \in Threads |-> "out"]
  BY <1>1, <1>2 DEF Waiting, Place
<1> QED BY <1>3 DEF Lifted!Init, Waiting, Place

\* A step that moves no thread is none of WaitQueues.
LEMMA StaysAsItIs ==
  ASSUME Good(Links, key), UNCHANGED <<key, links>>,
         \A t \in Threads : pc'[t] \in Slept <=> pc[t] \in Slept
  PROVE  UNCHANGED Lifted!vars
<1>1. Waiting' = Waiting
  BY QueuesStay DEF Waiting
<1>2. key' = key
  OBVIOUS
<1>3. Place' = Place
  BY <1>2 DEF Place
<1> QED BY <1>1, <1>3 DEF Lifted!vars, Waiting, Place

\* Parking is joining.
LEMMA ParkIsJoin ==
  ASSUME LotInv, NEW t \in Threads, Park(t)
  PROVE  \E k \in Keys : Lifted!Join(t, k)
<1>1. PICK k \in Keys :
        /\ key[t] = None /\ key' = [key EXCEPT ![t] = k]
        /\ \A l \in Keys : WaitersOn(l)' = IF l = k THEN Append(WaitersOn(l), t) ELSE WaitersOn(l)
  BY ParkJoins
<1>2. Waiting' = [Waiting EXCEPT ![k] = Append(@, t)]
  BY <1>1 DEF Waiting
<1>3. /\ LotTypes /\ key \in AllKeys /\ k # None
      /\ pc[t] = "idle" /\ pc' = [pc EXCEPT ![t] = "parked"]
  BY ParkingLotAssumption DEF LotInv, Good, Park
<1>4. Place[t] = "out" /\ Place' = [Place EXCEPT ![t] = "in"]
  BY <1>1, <1>3 DEF Place, LotTypes, AllKeys, Slept
<1>5. Lifted!Join(t, k)
  BY <1>2, <1>4 DEF Lifted!Join, Waiting, Place
<1> QED BY <1>5

\* Leaving the queue is giving up.
LEMMA LeavingIsGivingUp ==
  ASSUME LotInv, NEW t \in Threads, LeaveQueue(t)
  PROVE  \E k \in Keys : Lifted!GiveUp(t, k)
<1>0. PICK k \in Keys : k = target[t]
  BY DEF LotInv, UnparkersHoldLocks, LeaveQueue
<1>1. /\ k \in Keys /\ key[t] = k /\ key' = [key EXCEPT ![t] = None]
      /\ \A l \in Keys : l # k => WaitersOn(l)' = WaitersOn(l)
      /\ \E j \in 1 .. Len(WaitersOn(k)) :
           WaitersOn(k)[j] = t /\ WaitersOn(k)' = Cut(WaitersOn(k), j)
  <2>1. LeaverHasLeft(t, k)
    BY <1>0, LeaverLeaves
  <2> QED BY <2>1 DEF LeaverHasLeft
<1>2. /\ LotTypes /\ key \in AllKeys /\ k # None
      /\ pc[t] = "timedOut" /\ pc' = [pc EXCEPT ![t] = "idle"]
  BY <1>1, ParkingLotAssumption DEF LotInv, Good, LeaveQueue, Return
<1>3. PICK j \in 1 .. Len(WaitersOn(k)) :
        WaitersOn(k)[j] = t /\ WaitersOn(k)' = Cut(WaitersOn(k), j)
  BY <1>1
<1>4. WaitersOn(k) \in Seq(Threads)
  BY <1>1, Seen, ViewFacts DEF LotInv
<1>5. j \in DOMAIN Waiting[k] /\ Waiting[k][j] = t
  BY <1>1, <1>3, <1>4 DEF Waiting
<1>6. Waiting' = [Waiting EXCEPT ![k] = SubSeq(@, 1, j - 1) \o SubSeq(@, j + 1, Len(@))]
  <2>1. Waiting[k] = WaitersOn(k)
    BY <1>1 DEF Waiting
  <2> DEFINE v == Cut(Waiting[k], j)
  <2>2. \A l \in Keys : WaitersOn(l)' = IF l = k THEN v ELSE WaitersOn(l)
    <3>1. WaitersOn(k)' = v
      BY <1>3, <2>1
    <3>2. \A l \in Keys : l # k => WaitersOn(l)' = WaitersOn(l)
      BY <1>1
    <3> HIDE DEF v
    <3> QED BY <3>1, <3>2
  <2> HIDE DEF v
  <2>3. Waiting' = [Waiting EXCEPT ![k] = v]
    BY <1>1, <2>2 DEF Waiting
  <2> QED BY <2>3 DEF Cut, v
<1>7. Place[t] = "in" /\ Place' = [Place EXCEPT ![t] = "out"]
  BY <1>1, <1>2 DEF Place, LotTypes, AllKeys, Slept
<1>8. Lifted!GiveUp(t, k)
  BY <1>5, <1>6, <1>7 DEF Lifted!GiveUp, Waiting, Place
<1> QED BY <1>8

\* Unlinking is waking the first.
LEMMA UnlinkIsWaking ==
  ASSUME LotInv, NEW t \in Threads, Unlink(t)
  PROVE  \E k \in Keys : Lifted!WakeFirst(k)
<1>0. PICK k \in Keys : k = target[t]
  BY DEF LotInv, UnparkersHoldLocks, Unlink, Locking
<1> DEFINE s == Head(WaitersOn(k))
<1>1. /\ k \in Keys /\ WaitersOn(k) # <<>>
      /\ s \in Threads /\ key[s] = k /\ key' = [key EXCEPT ![s] = None]
      /\ \A l \in Keys : WaitersOn(l)' = IF l = k THEN Tail(WaitersOn(l)) ELSE WaitersOn(l)
  BY <1>0, FirstIsUnlinked
<1>2. /\ LotTypes /\ OnlySleepersHaveKeys /\ key \in AllKeys /\ k # None
      /\ pc[t] = "unlink" /\ pc' = [pc EXCEPT ![t] = "commit"]
  BY <1>1, ParkingLotAssumption DEF LotInv, Good, Unlink, Take
<1>3. Waiting[k] # <<>> /\ Head(Waiting[k]) = s /\ Waiting' = [Waiting EXCEPT ![k] = Tail(@)]
  BY <1>1 DEF Waiting
<1> HIDE DEF s
<1>4. Place' = [Place EXCEPT ![s] = "woken"]
  BY <1>1, <1>2 DEF Place, LotTypes, AllKeys, Slept, OnlySleepersHaveKeys
<1>5. Lifted!WakeFirst(k)
  BY <1>3, <1>4 DEF Lifted!WakeFirst, Waiting, Place
<1> QED BY <1>5

\* Coming back from park() is returning.
LEMMA UnparkedIsReturning ==
  ASSUME LotInv, NEW t \in Threads, Unparked(t) \/ TimeOutUnparked(t)
  PROVE  Lifted!Return(t)
<1>1. /\ LotTypes /\ OnlySleepersHaveKeys /\ key \in AllKeys /\ Good(Links, key)
      /\ pc[t] \in Slept /\ key[t] = None /\ links' = links /\ pc' = [pc EXCEPT ![t] = "idle"]
  BY DEF LotInv, Good, Unparked, TimeOutUnparked, ExpiresOrRetries, Return, OnlySleepersHaveKeys, Slept
<1>2. key' = key
  BY <1>1 DEF Unparked, TimeOutUnparked, AllKeys
<1>3. Waiting' = Waiting
  BY <1>1, <1>2, QueuesStay DEF Waiting
<1>4. Place[t] = "woken" /\ Place' = [Place EXCEPT ![t] = "out"]
  BY <1>1, <1>2 DEF Place, LotTypes, AllKeys, Slept
<1> QED BY <1>3, <1>4 DEF Lifted!Return, Waiting, Place

\* Moving waiters without waking one is moving the first of them, or all.
LEMMA RequeueIsMoving ==
  ASSUME LotInv, NEW t \in Threads, Requeue(t)
  PROVE  \E k, h \in Keys : k # h /\ (Lifted!MoveFirst(k, h) \/ Lifted!MoveAll(k, h))
<1>0. PICK k \in Keys, h \in Keys : k = target[t] /\ h = requeueTo[t]
  BY ParkingLotAssumption DEF LotInv, UnparkersHoldLocks, Requeue, Locking
<1> DEFINE w == WaitersOn(k)
           ss == IF all[t] THEN WaitersOn(k) ELSE <<Head(WaitersOn(k))>>
<1>1. /\ k \in Keys /\ h \in Keys /\ k # h /\ WaitersOn(k) # <<>>
      /\ key' = [s \in Threads |-> IF s \in ToSet(ss) THEN h ELSE key[s]]
      /\ \A s \in ToSet(ss) : s \in Threads /\ key[s] = k
      /\ \A l \in Keys : WaitersOn(l)' =
           IF l = k THEN IF all[t] THEN <<>> ELSE Tail(WaitersOn(k))
           ELSE IF l = h THEN WaitersOn(l) \o ss
           ELSE WaitersOn(l)
  <2>1. HaveMoved(t, k, h, ss)
    BY <1>0, RequeueMoves
  <2> QED BY <2>1 DEF HaveMoved
<1>2. /\ LotTypes /\ key \in AllKeys /\ None \notin Keys
      /\ pc[t] = "requeue" /\ pc' = [pc EXCEPT ![t] = "idle"]
  BY ParkingLotAssumption DEF LotInv, Good, Requeue, Return
<1>3. WaitersOn(h) \in Seq(Threads) /\ w \in Seq(Threads)
  BY <1>1, WaitersAreThreads
<1>4. Waiting[k] = WaitersOn(k) /\ Waiting[h] = WaitersOn(h)
  BY <1>1 DEF Waiting
<1> HIDE DEF ss
<1>5. Place' = Place
  <2>1. \A u \in Threads : key'[u] = None <=> key[u] = None
    BY <1>1, <1>2
  <2>2. \A u \in Threads : pc'[u] \in Slept <=> pc[u] \in Slept
    BY <1>2 DEF LotTypes, Slept
  <2> QED BY <2>1, <2>2 DEF Place
<1>6. CASE all[t]
  <2>1. ss = w
    BY <1>6 DEF ss
  <2>2. Waiting' = [Waiting EXCEPT ![k] = <<>>, ![h] = @ \o Waiting[k]]
    BY <1>1, <1>4, <1>6, <2>1 DEF Waiting
  <2>3. Lifted!MoveAll(k, h)
    BY <1>1, <1>4, <1>5, <2>2 DEF Lifted!MoveAll, Waiting, Place
  <2> QED BY <1>1, <2>3
<1>7. CASE ~all[t]
  <2>1. ss = <<Head(WaitersOn(k))>> /\ Head(w) \in Threads
    <3>1. w # <<>>
      BY <1>1 DEF w
    <3> HIDE DEF w
    <3>2. Head(w) \in Threads
      BY <1>3, <3>1, CutFirst
    <3> QED BY <1>7, <3>2 DEF ss, w
  <2>2. WaitersOn(h) \o ss = Append(WaitersOn(h), Head(WaitersOn(k)))
    BY <1>3, <2>1, AppendIsConcat
  <2>3. Waiting' = [Waiting EXCEPT ![k] = Tail(@), ![h] = Append(@, Head(Waiting[k]))]
    BY <1>1, <1>4, <1>7, <2>2 DEF Waiting
  <2>4. Lifted!MoveFirst(k, h)
    BY <1>1, <1>4, <1>5, <2>3 DEF Lifted!MoveFirst, Waiting, Place
  <2> QED BY <1>1, <2>4
<1> QED BY <1>6, <1>7

\* Moving the others while the first is unlinked is waking the first, and moving
\* the rest or nobody.
LEMMA RequeueButFirstIsWaking ==
  ASSUME LotInv, NEW t \in Threads, RequeueButFirst(t)
  PROVE  \E k, h \in Keys : k # h /\ (Lifted!WakeFirst(k) \/ Lifted!WakeFirstMoveRest(k, h))
<1>0. PICK k \in Keys, h \in Keys : k = target[t] /\ h = requeueTo[t]
  BY ParkingLotAssumption DEF LotInv, UnparkersHoldLocks, RequeueButFirst, Locking
<1> DEFINE s == Head(WaitersOn(k))
           ss == IF all[t] THEN Tail(WaitersOn(k)) ELSE <<>>
<1>1. OthersHaveMoved(t, k, h, s, ss)
  BY <1>0, OthersMove
<1> HIDE DEF s, ss
<1>2. /\ k \in Keys /\ h \in Keys /\ k # h /\ WaitersOn(k) # <<>>
      /\ s \in Threads /\ key[s] = k /\ key'[s] = None
      /\ \A u \in Threads : u # s => key'[u] = key[u] \/ (key[u] = k /\ key'[u] = h)
      /\ \A l \in Keys : WaitersOn(l)' =
           IF l = k THEN IF all[t] THEN <<>> ELSE Tail(WaitersOn(k))
           ELSE IF l = h THEN WaitersOn(l) \o ss
           ELSE WaitersOn(l)
  BY <1>1 DEF OthersHaveMoved
<1>3. /\ LotTypes /\ OnlySleepersHaveKeys /\ None \notin Keys
      /\ pc[t] = "requeue" /\ pc' = [pc EXCEPT ![t] = "commit"]
  BY ParkingLotAssumption DEF LotInv, RequeueButFirst
<1>4. WaitersOn(h) \in Seq(Threads)
  BY <1>2, WaitersAreThreads
<1>5. Waiting[k] = WaitersOn(k) /\ Waiting[h] = WaitersOn(h) /\ Head(Waiting[k]) = s
  BY <1>2 DEF Waiting, s
<1>6. Place' = [Place EXCEPT ![s] = "woken"]
  <2>1. \A u \in Threads : u # s => (key'[u] = None <=> key[u] = None)
    BY <1>2, <1>3
  <2>2. \A u \in Threads : pc'[u] \in Slept <=> pc[u] \in Slept
    BY <1>3 DEF LotTypes, Slept
  <2>3. pc[s] \in Slept
    BY <1>2, <1>3 DEF OnlySleepersHaveKeys
  <2> QED BY <1>2, <2>1, <2>2, <2>3 DEF Place
<1>7. CASE all[t]
  <2>1. ss = Tail(Waiting[k])
    BY <1>5, <1>7 DEF ss
  <2>2. Waiting' = [Waiting EXCEPT ![k] = <<>>, ![h] = @ \o Tail(Waiting[k])]
    BY <1>2, <1>5, <1>7, <2>1 DEF Waiting
  <2>3. Lifted!WakeFirstMoveRest(k, h)
    BY <1>2, <1>5, <1>6, <2>2 DEF Lifted!WakeFirstMoveRest, Waiting, Place
  <2> QED BY <1>2, <2>3
<1>8. CASE ~all[t]
  <2>1. WaitersOn(h) \o ss = WaitersOn(h)
    BY <1>4, <1>8, ConcatEmptySeq DEF ss
  <2>2. Waiting' = [Waiting EXCEPT ![k] = Tail(@)]
    BY <1>2, <1>5, <1>8, <2>1 DEF Waiting
  <2>3. Lifted!WakeFirst(k)
    BY <1>2, <1>5, <1>6, <2>2 DEF Lifted!WakeFirst, Waiting, Place
  <2> QED BY <1>2, <2>3
<1> QED BY <1>7, <1>8

\* Every step is one of WaitQueues, or moves no thread.
LEMMA StepsAsQueues ==
  ASSUME LotInv, [Next]_vars
  PROVE  Lifted!Next \/ UNCHANGED Lifted!vars
<1>1. ASSUME NEW t \in Threads, Park(t) PROVE Lifted!Next
  BY <1>1, ParkIsJoin DEF Lifted!Next
<1>2. ASSUME NEW t \in Threads, LeaveQueue(t) PROVE Lifted!Next
  BY <1>2, LeavingIsGivingUp DEF Lifted!Next
<1>3. ASSUME NEW t \in Threads, Unlink(t) PROVE Lifted!Next
  BY <1>3, UnlinkIsWaking DEF Lifted!Next
<1>4. ASSUME NEW t \in Threads, Unparked(t) \/ TimeOutUnparked(t) PROVE Lifted!Next
  BY <1>4, UnparkedIsReturning DEF Lifted!Next
<1>5. ASSUME NEW t \in Threads, Requeue(t) PROVE Lifted!Next
  BY <1>5, RequeueIsMoving DEF Lifted!Next
<1>6. ASSUME NEW t \in Threads, RequeueButFirst(t) PROVE Lifted!Next
  BY <1>6, RequeueButFirstIsWaking DEF Lifted!Next
<1>7. ASSUME NEW t \in Threads,
             Unpark(t) \/ UnparkRequeue(t) \/ TimeOut(t) \/ CommitUnpark(t) \/ NoMoreMatches(t)
               \/ LockTo(t) \/ RequeueNobody(t)
      PROVE  UNCHANGED Lifted!vars
  <2>1. LotTypes /\ Good(Links, key)
    BY DEF LotInv
  <2>2. UNCHANGED <<key, links>>
    BY <1>7 DEF Unpark, UnparkRequeue, TimeOut, CommitUnpark, NoMoreMatches, LockTo, RequeueNobody
  <2>3. ASSUME NEW u \in Threads PROVE pc'[u] \in Slept <=> pc[u] \in Slept
    BY <1>7, <2>1 DEF LotTypes, Slept, Unpark, UnparkRequeue, TimeOut, ExpiresOrRetries, CommitUnpark,
                      NoMoreMatches, LockTo, RequeueNobody, Return
  <2> QED BY <2>1, <2>2, <2>3, StaysAsItIs
<1>8. CASE UNCHANGED vars
  <2>1. UNCHANGED <<key, links>> /\ \A u \in Threads : pc'[u] \in Slept <=> pc[u] \in Slept
    BY <1>8 DEF vars
  <2> QED BY <2>1, StaysAsItIs DEF LotInv
<1> QED BY <1>1, <1>2, <1>3, <1>4, <1>5, <1>6, <1>7, <1>8 DEF Next, Step

\* Per key the parking lot is a first-in first-out queue, whatever keys share a
\* bucket with it: it implements WaitQueues (parking_lot.h: park, parkFor,
\* unparkOne, unparkAll, unparkOneRequeue, unparkAllRequeue).
THEOREM LotImplementsWaitQueues ==
  ASSUME ~LateCommits
  PROVE  Spec => ImplementsWaitQueues
<1>1. LotInv /\ [Next]_vars => [Lifted!Next]_Lifted!vars
  BY StepsAsQueues
<1> QED BY <1>1, StartsAsQueues, LotInvHolds, PTL DEF Spec, ImplementsWaitQueues, Lifted!Spec
=============================================================================
