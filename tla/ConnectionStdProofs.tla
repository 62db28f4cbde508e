------------------------ MODULE ConnectionStdProofs ------------------------
(***************************************************************************)
(* Proofs about ConnectionStd: what readLoop delivers is what the client   *)
(* sent, what writeLoop writes is what Send has taken, the lengths         *)
(* reported are right, and nothing keeps the loops from leaving when the   *)
(* connection is closed, for every number of users, every sequence of      *)
(* messages and every way of cutting the stream.                           *)
(***************************************************************************)
EXTENDS ConnectionStd, SequenceTheorems, WellFoundedInduction, TLAPS

-----------------------------------------------------------------------------
(* Induction and recursion over the numbers *)

\* A non-empty set of numbers has a least element.
LEMMA NatMin ==
    ASSUME NEW T \in SUBSET Nat, T # {}
    PROVE  \E n \in T : \A m \in T : n <= m
<1> DEFINE R == OpToRel(<, Nat)
<1>1. IsWellFoundedOn(R, Nat)
  BY NatLessThanWellFounded, Zenon
<1>2. \A x, y \in Nat : y < x => <<y, x>> \in R
  BY DEF OpToRel
<1> HIDE DEF R
<1>3. PICK x \in T : \A y \in T : ~(<<y, x>> \in R)
  BY <1>1, WFMin, Zenon
<1>4. ASSUME NEW y \in T PROVE x <= y
  <2>1. x \in Nat /\ y \in Nat
    OBVIOUS
  <2>2. ~(y < x)
    BY <1>2, <1>3, <2>1, Zenon
  <2> QED BY <2>1, <2>2
<1> QED BY <1>4

\* Induction up to N: G is the set of the numbers for which the claim holds.
LEMMA UpTo ==
    ASSUME NEW N \in Nat, NEW G, 0 \in G, \A k \in 1..N : k - 1 \in G => k \in G
    PROVE  \A k \in 0..N : k \in G
<1> DEFINE T == (0..N) \ G
<1> SUFFICES ASSUME T # {} PROVE FALSE
  OBVIOUS
<1>1. T \in SUBSET Nat
  OBVIOUS
<1>2. PICK k \in T : \A m \in T : k <= m
  <2> HIDE DEF T
  <2> QED BY <1>1, NatMin
<1>3. k \in 1..N /\ k - 1 \in 0..N
  OBVIOUS
<1>4. k - 1 \notin T
  BY <1>2, <1>3
<1> QED BY <1>3, <1>4

\* A function can be defined by recursion up to N.
Recurs(f, N, base, step) == f[0] = base /\ \A n \in 1..N : f[n] = step[n][f[n - 1]]

\* Such a function exists for every base and every step.
LEMMA Recursion ==
    ASSUME NEW S, NEW N \in Nat, NEW base \in S, NEW step \in [1..N -> [S -> S]]
    PROVE  \E f \in [0..N -> S] : Recurs(f, N, base, step)
<1> USE DEF Recurs
<1> DEFINE Runs(f, k) == Recurs(f, k, base, step)
           G == {k \in 0..N : \E f \in [0..N -> S] : Runs(f, k)}
<1>1. 0 \in G
  <2>1. [n \in 0..N |-> base] \in [0..N -> S]
    OBVIOUS
  <2>2. Runs([n \in 0..N |-> base], 0)
    OBVIOUS
  <2>3. 0 \in 0..N
    OBVIOUS
  <2> HIDE DEF Runs
  <2> QED BY <2>1, <2>2, <2>3, Zenon
<1>2. ASSUME NEW k \in 1..N, k - 1 \in G PROVE k \in G
  <2>1. PICK f \in [0..N -> S] : Runs(f, k - 1)
    BY <1>2
  <2> DEFINE g == [f EXCEPT ![k] = step[k][f[k - 1]]]
  <2>2. step[k][f[k - 1]] \in S
    OBVIOUS
  <2>3. g \in [0..N -> S] /\ g[0] = base
    BY <2>1, <2>2
  <2>4. \A n \in 1..k : g[n] = step[n][g[n - 1]]
    BY <2>1
  <2>5. Runs(g, k) /\ k \in 0..N
    BY <2>3, <2>4
  <2> HIDE DEF Runs, g
  <2> QED BY <2>3, <2>5, Zenon
<1>3. N \in G
  <2> HIDE DEF G
  <2>1. \A k \in 0..N : k \in G
    BY <1>1, <1>2, UpTo, Zenon
  <2> QED BY <2>1
<1> QED BY <1>3

-----------------------------------------------------------------------------
(* Joining sequences *)

\* Concatenation is associative.
Associative(S) == \A a, b, c \in Seq(S) : (a \o b) \o c = a \o (b \o c)

\* This holds of the sequences over every set.
LEMMA Assoc == ASSUME NEW S PROVE Associative(S)
BY DEF Associative

\* Functions that start alike and step alike agree.
LEMMA Agree ==
    ASSUME NEW N \in Nat, NEW g, NEW h, g[0] = h[0],
           \A k \in 1..N : g[k - 1] = h[k - 1] => g[k] = h[k]
    PROVE  g[N] = h[N]
<1> DEFINE G == {k \in 0..N : g[k] = h[k]}
<1>1. 0 \in G
  OBVIOUS
<1>2. ASSUME NEW k \in 1..N, k - 1 \in G PROVE k \in G
  <2>1. k \in 0..N
    OBVIOUS
  <2> QED BY <1>2, <2>1, Zenon
<1> HIDE DEF G
<1>3. \A k \in 0..N : k \in G
  BY <1>1, <1>2, UpTo
<1> USE DEF G
<1>4. N \in 0..N
  OBVIOUS
<1> QED BY <1>3, <1>4, Zenon

\* Concat joins the sequences one by one; g holds what it has after each.
Joins(g, q) == g[0] = <<>> /\ \A n \in 1..Len(q) : g[n] = g[n - 1] \o q[n]

\* Such a g exists for every sequence of sequences.
LEMMA ConcatJoins ==
    ASSUME NEW S, NEW q \in Seq(Seq(S))
    PROVE  \E g \in [0..Len(q) -> Seq(S)] : Joins(g, q) /\ Concat(q) = g[Len(q)]
<1> DEFINE N == Len(q)
           step == [n \in 1..N |-> [x \in Seq(S) |-> x \o q[n]]]
           F(f) == [n \in 0..N |-> IF n = 0 THEN <<>> ELSE f[n - 1] \o q[n]]
           run == CHOOSE f : f = F(f)
<1>1. N \in Nat /\ <<>> \in Seq(S) /\ \A n \in 1..N : q[n] \in Seq(S)
  BY LenProperties, ElementOfSeq, EmptySeq
<1>2. step \in [1..N -> [Seq(S) -> Seq(S)]]
  BY <1>1, ConcatProperties
<1>3. PICK g \in [0..N -> Seq(S)] : Recurs(g, N, <<>>, step)
  <2> HIDE DEF step, N
  <2> QED BY <1>1, <1>2, Recursion, Zenon
<1>4. ASSUME NEW n \in 1..N PROVE g[n] = g[n - 1] \o q[n]
  <2>1. n - 1 \in 0..N
    BY <1>1
  <2>2. g[n - 1] \in Seq(S)
    BY <2>1, Zenon
  <2>3. step[n][g[n - 1]] = g[n - 1] \o q[n]
    BY <2>2, Zenon
  <2>4. g[n] = step[n][g[n - 1]]
    BY Zenon, <1>3 DEF Recurs
  <2> QED BY <2>3, <2>4, Zenon
<1>5. g[0] = <<>>
  BY <1>3, Zenon DEF Recurs
<1>6. g = F(g)
  <2>1. ASSUME NEW n \in 0..N PROVE g[n] = IF n = 0 THEN <<>> ELSE g[n - 1] \o q[n]
    <3>1. n = 0 \/ n \in 1..N
      BY <1>1
    <3> QED BY <1>4, <1>5, <3>1, Zenon
  <2> QED BY <2>1, Zenon
<1>7. run = F(run)
  <2> HIDE DEF F
  <2> QED BY <1>6, Zenon
<1>8. Concat(q) = run[N]
  BY Zenon DEF Concat
<1>9. run[0] = <<>> /\ \A n \in 1..N : run[n] = run[n - 1] \o q[n]
  <2> HIDE DEF run
  <2>1. \A n \in 1..N : n \in 0..N /\ n # 0
    BY <1>1
  <2>2. 0 \in 0..N
    BY <1>1
  <2> QED BY <1>7, <2>1, <2>2, Zenon
<1>10. run[N] = g[N]
  <2> HIDE DEF run, N
  <2>1. run[0] = g[0] /\ \A k \in 1..N : run[k - 1] = g[k - 1] => run[k] = g[k]
    BY <1>4, <1>5, <1>9, Zenon
  <2> QED BY <1>1, <2>1, Agree, Zenon
<1> HIDE DEF run
<1> QED BY <1>4, <1>5, <1>8, <1>10, Zenon DEF Joins

\* Nothing joined is nothing.
LEMMA ConcatEmpty == Concat(<<>>) = <<>>
<1>1. Len(<<>>) = 0 /\ <<>> \in Seq(Seq({}))
  OBVIOUS
<1>2. PICK g \in [0..Len(<<>>) -> Seq({})] : Joins(g, <<>>) /\ Concat(<<>>) = g[Len(<<>>)]
  BY <1>1, ConcatJoins, Zenon
<1> QED BY <1>1, <1>2, Zenon DEF Joins

\* What Concat joins is over the same set.
LEMMA ConcatType ==
    ASSUME NEW S, NEW q \in Seq(Seq(S)) PROVE Concat(q) \in Seq(S)
<1>1. Len(q) \in 0..Len(q)
  OBVIOUS
<1>2. PICK g \in [0..Len(q) -> Seq(S)] : Concat(q) = g[Len(q)]
  BY ConcatJoins, Zenon
<1> QED BY <1>1, <1>2, Zenon

\* Concat joins the last sequence at the end.
LEMMA ConcatAppend ==
    ASSUME NEW S, NEW q \in Seq(Seq(S)), NEW x \in Seq(S)
    PROVE  Concat(Append(q, x)) = Concat(q) \o x
<1> DEFINE N == Len(q)
<1>1. PICK p : p = Append(q, x)
  BY Zenon
<1>2. p \in Seq(Seq(S)) /\ Len(p) = N + 1 /\ p[N + 1] = x /\ N \in Nat
      /\ \A i \in 1..N : q[i] = p[i]
  BY <1>1
<1>3. PICK g \in [0..N -> Seq(S)] : Joins(g, q) /\ Concat(q) = g[N]
  BY ConcatJoins, Zenon
<1>4. PICK h \in [0..Len(p) -> Seq(S)] : Joins(h, p) /\ Concat(p) = h[Len(p)]
  BY <1>2, ConcatJoins, Zenon
<1> HIDE DEF N
<1>5. h[N + 1] = h[N] \o x
  <2>1. N + 1 \in 1..Len(p) /\ (N + 1) - 1 = N
    BY <1>2
  <2> QED BY <1>2, <1>4, <2>1, Zenon DEF Joins
<1>6. g[N] = h[N]
  <2>1. g[0] = h[0]
    BY <1>3, <1>4, Zenon DEF Joins
  <2>2. ASSUME NEW k \in 1..N, g[k - 1] = h[k - 1] PROVE g[k] = h[k]
    <3>1. k \in 1..Len(q) /\ k \in 1..Len(p)
      BY <1>2 DEF N
    <3> QED BY <1>2, <1>3, <1>4, <2>2, <3>1, Zenon DEF Joins
  <2> QED BY <1>2, <2>1, <2>2, Agree, Zenon
<1> QED BY <1>1, <1>2, <1>3, <1>4, <1>5, <1>6, Zenon

\* Concat joins the first sequence at the beginning.
LEMMA ConcatTail ==
    ASSUME NEW S, NEW q \in Seq(Seq(S)), q # <<>>
    PROVE  Concat(q) = Head(q) \o Concat(Tail(q))
<1>1. PICK p : p = Tail(q)
  BY Zenon
<1>0. p \in Seq(Seq(S))
  BY <1>1, HeadTailProperties, Zenon
<1>2. PICK N \in Nat : N = Len(p)
  BY <1>0
<1>3. p \in Seq(Seq(S)) /\ Len(q) = N + 1 /\ Head(q) = q[1] /\ q[1] \in Seq(S)
      /\ \A i \in 1..N : p[i] = q[i + 1] /\ q[i + 1] \in Seq(S)
  BY <1>0, <1>1, <1>2
<1>4. PICK g \in [0..N + 1 -> Seq(S)] : Joins(g, q) /\ Concat(q) = g[N + 1]
  <2>1. PICK g \in [0..Len(q) -> Seq(S)] : Joins(g, q) /\ Concat(q) = g[Len(q)]
    BY ConcatJoins, Zenon
  <2> QED BY <1>3, <2>1, Zenon
<1>5. PICK h \in [0..N -> Seq(S)] : Joins(h, p) /\ Concat(p) = h[N]
  BY <1>2, <1>3, ConcatJoins, Zenon
<1> DEFINE G == {k \in 0..N : g[k + 1] = q[1] \o h[k]}
<1>6. 0 \in G
  <2>1. 1 \in 1..Len(q) /\ 1 - 1 = 0 /\ 0 \in 0..N /\ 0 + 1 = 1
    BY <1>3
  <2>2. g[1] = <<>> \o q[1] /\ h[0] = <<>>
    BY <1>4, <1>5, <2>1, Zenon DEF Joins
  <2>3. g[1] = q[1] \o h[0]
    BY <1>3, <2>2, ConcatEmptySeq
  <2> QED BY <2>1, <2>3, Zenon
<1>7. ASSUME NEW k \in 1..N, k - 1 \in G PROVE k \in G
  <2>1. k \in 0..N /\ (k - 1) + 1 = k /\ k + 1 \in 1..Len(q) /\ (k + 1) - 1 = k
        /\ k \in 1..Len(p) /\ k - 1 \in 0..N
    BY <1>2, <1>3
  <2>2. g[k + 1] = g[k] \o q[k + 1] /\ g[k] = q[1] \o h[k - 1] /\ h[k] = h[k - 1] \o p[k]
    BY <1>4, <1>5, <1>7, <2>1, Zenon DEF Joins
  <2>3. h[k - 1] \in Seq(S) /\ p[k] \in Seq(S) /\ q[1] \in Seq(S) /\ p[k] = q[k + 1]
    BY <1>3, <1>5, <2>1, Zenon
  <2>4. (q[1] \o h[k - 1]) \o p[k] = q[1] \o (h[k - 1] \o p[k])
    <3>1. Associative(S)
      BY Assoc, Zenon
    <3> QED BY <2>3, <3>1, Zenon DEF Associative
  <2>5. g[k + 1] = q[1] \o h[k]
    BY <2>2, <2>3, <2>4, Zenon
  <2> QED BY <2>1, <2>5, Zenon
<1> HIDE DEF G
<1>8. \A k \in 0..N : k \in G
  BY <1>6, <1>7, UpTo, Zenon
<1> USE DEF G
<1>9. N \in 0..N
  OBVIOUS
<1> QED BY <1>1, <1>3, <1>4, <1>5, <1>8, <1>9, Zenon

\* What the first k sequences are joined to grows by the k-th.
LEMMA PreStep ==
    ASSUME NEW S, NEW q \in Seq(Seq(S)), NEW k \in 1..Len(q)
    PROVE  /\ SubSeq(q, 1, k - 1) \in Seq(Seq(S))
           /\ Concat(SubSeq(q, 1, k)) = Concat(SubSeq(q, 1, k - 1)) \o q[k]
<1>1. PICK p : p = SubSeq(q, 1, k - 1)
  BY Zenon
<1>2. p \in Seq(Seq(S)) /\ q[k] \in Seq(S)
  BY <1>1
<1>3. SubSeq(q, 1, k) = Append(p, q[k])
  BY <1>1
<1>4. Concat(Append(p, q[k])) = Concat(p) \o q[k]
  BY <1>2, ConcatAppend, Zenon
<1> QED BY <1>1, <1>2, <1>3, <1>4, Zenon

\* They are joined to the beginning of what all are joined to.
LEMMA PrePrefix ==
    ASSUME NEW S, NEW q \in Seq(Seq(S)), NEW k \in 0..Len(q)
    PROVE  \E t \in Seq(S) : Concat(q) = Concat(SubSeq(q, 1, k)) \o t
<1> DEFINE Pre(i) == Concat(SubSeq(q, 1, i))
           G == {j \in 0..Len(q) : \E t \in Seq(S) : Concat(q) = Pre(Len(q) - j) \o t}
<1>1. PICK N \in Nat : N = Len(q)
  OBVIOUS
<1>2. 0 \in G
  <2>1. SubSeq(q, 1, Len(q) - 0) = q /\ 0 \in 0..Len(q)
    OBVIOUS
  <2>2. <<>> \in Seq(S) /\ Concat(q) \in Seq(S)
    BY ConcatType, EmptySeq, Zenon
  <2>3. Concat(q) = Concat(q) \o <<>>
    BY <2>2
  <2> QED BY <2>1, <2>2, <2>3, Zenon
<1>3. ASSUME NEW j \in 1..N, j - 1 \in G PROVE j \in G
  <2>1. PICK i \in 1..Len(q) : i = Len(q) - (j - 1)
    <3>1. N - (j - 1) \in 1..N
      OBVIOUS
    <3> QED BY <1>1, <3>1, Zenon
  <2>2. PICK t \in Seq(S) : Concat(q) = Pre(i) \o t
    BY <1>3, <2>1, Zenon
  <2>3. Len(q) - j = i - 1 /\ j \in 0..Len(q) /\ q[i] \in Seq(S)
    BY <1>1, <2>1
  <2>4. SubSeq(q, 1, i - 1) \in Seq(Seq(S)) /\ Pre(i) = Pre(i - 1) \o q[i]
    BY PreStep, Zenon
  <2>5. Pre(i - 1) \in Seq(S)
    BY <2>4, ConcatType, Zenon
  <2>6. Concat(q) = Pre(i - 1) \o (q[i] \o t) /\ q[i] \o t \in Seq(S)
    <3> HIDE DEF Pre
    <3>1. q[i] \o t \in Seq(S)
      BY <2>3
    <3>2. (Pre(i - 1) \o q[i]) \o t = Pre(i - 1) \o (q[i] \o t)
      <4>1. Associative(S)
        BY Assoc, Zenon
      <4> QED BY <2>3, <2>5, <4>1, Zenon DEF Associative
    <3> QED BY <2>2, <2>4, <3>1, <3>2, Zenon
  <2> QED BY <2>3, <2>6, Zenon
<1>4. \A j \in 0..N : j \in G
  <2> HIDE DEF G
  <2> QED BY <1>2, <1>3, UpTo, Zenon
<1>5. Len(q) - k \in 0..N /\ Len(q) - (Len(q) - k) = k
  BY <1>1
<1> QED BY <1>4, <1>5, Zenon

\* Joining more sequences gives no less.
LEMMA PreMono ==
    ASSUME NEW S, NEW q \in Seq(Seq(S)), NEW j \in 0..Len(q), NEW i \in 0..j
    PROVE  Len(Concat(SubSeq(q, 1, i))) <= Len(Concat(SubSeq(q, 1, j)))
<1>1. PICK p : p = SubSeq(q, 1, j)
  BY Zenon
<1>2. p \in Seq(Seq(S)) /\ i \in 0..Len(p)
  BY <1>1
<1>3. SubSeq(p, 1, i) = SubSeq(q, 1, i) /\ SubSeq(p, 1, i) \in Seq(Seq(S))
  BY <1>1
<1>4. PICK t \in Seq(S) : Concat(p) = Concat(SubSeq(p, 1, i)) \o t
  BY <1>2, PrePrefix, Zenon
<1>5. Concat(SubSeq(p, 1, i)) \in Seq(S)
  BY <1>3, ConcatType, Zenon
<1>6. ASSUME NEW s \in Seq(S) PROVE Len(s) <= Len(s \o t)
  OBVIOUS
<1> QED BY <1>1, <1>3, <1>4, <1>5, <1>6, Zenon

\* Joining sequences of one element counts them.
LEMMA PreLen ==
    ASSUME NEW S, NEW q \in Seq(Seq(S)), \A i \in 1..Len(q) : Len(q[i]) = 1,
           NEW k \in 0..Len(q)
    PROVE  Len(Concat(SubSeq(q, 1, k))) = k
<1> DEFINE G == {j \in 0..Len(q) : Len(Concat(SubSeq(q, 1, j))) = j}
<1>1. PICK N \in Nat : N = Len(q)
  OBVIOUS
<1>2. 0 \in G
  <2>1. SubSeq(q, 1, 0) = <<>> /\ 0 \in 0..Len(q) /\ Len(<<>>) = 0
    BY SubSeqEmpty
  <2> QED BY <2>1, ConcatEmpty, Zenon
<1>3. ASSUME NEW j \in 1..N, j - 1 \in G PROVE j \in G
  <2>1. j \in 1..Len(q) /\ j \in 0..Len(q) /\ q[j] \in Seq(S) /\ Len(q[j]) = 1
    BY <1>1
  <2>2. PICK p : p = Concat(SubSeq(q, 1, j - 1))
    OBVIOUS
  <2>3. p \in Seq(S) /\ Concat(SubSeq(q, 1, j)) = p \o q[j]
    BY <2>1, <2>2, PreStep, ConcatType, Zenon
  <2>4. Len(p) = j - 1
    BY <1>3, <2>2, Zenon
  <2>5. Len(p \o q[j]) = j
    <3>1. \A a, b \in Seq(S) : Len(a \o b) = Len(a) + Len(b)
      OBVIOUS
    <3>2. Len(p \o q[j]) = (j - 1) + 1
      BY <2>1, <2>3, <2>4, <3>1, Zenon
    <3> QED BY <3>2
  <2> QED BY <2>1, <2>3, <2>5, Zenon
<1>4. \A j \in 0..N : j \in G
  <2> HIDE DEF G
  <2> QED BY <1>2, <1>3, UpTo
<1> QED BY <1>1, <1>4, Zenon

\* A sequence is a prefix of what begins with it, and of what is longer still.
LEMMA PrefixConcat ==
    ASSUME NEW S, NEW s \in Seq(S), NEW t \in Seq(S)
    PROVE  IsPrefix(s, s \o t)
BY DEF IsPrefix

\* A prefix stays one when something is added at the end.
LEMMA PrefixLonger ==
    ASSUME NEW S, NEW s \in Seq(S), NEW t \in Seq(S), NEW u \in Seq(S), IsPrefix(s, t)
    PROVE  IsPrefix(s, t \o u)
BY DEF IsPrefix

\* The beginning of a prefix is a prefix.
LEMMA PrefixShorter ==
    ASSUME NEW S, NEW s \in Seq(S), NEW t \in Seq(S), NEW u \in Seq(S), IsPrefix(s \o t, u)
    PROVE  IsPrefix(s, u)
BY SMTT(30) DEF IsPrefix

-----------------------------------------------------------------------------
(* Framing: what UnPacket makes of a buffer that begins with a message *)

Octets   == Seq(Nat)
Messages == {m \in [type : Octets, data : Octets] : Fits(m)}

\* Bytes joined to bytes are bytes.
LEMMA OctetsJoin ==
    ASSUME NEW a \in Octets, NEW b \in Octets
    PROVE  a \o b \in Octets
BY DEF Octets

Reassociate(a, b, c) == (a \o b) \o c = a \o (b \o c)

\* Bytes may be joined in either order.
LEMMA OctetsAssociate ==
    ASSUME NEW a \in Octets, NEW b \in Octets, NEW c \in Octets
    PROVE  Reassociate(a, b, c)
<1>1. Associative(Nat)
  BY Assoc, Zenon
<1> QED BY <1>1, Zenon DEF Associative, Octets, Reassociate

\* A field of any width holds some numbers.
LEMMA ModulusType == ASSUME NEW w \in Nat PROVE Modulus(w) \in Nat \ {0}
<1> DEFINE S == Nat \ {0}
           step == [n \in 1..w |-> [x \in S |-> 256 * x]]
           F(f) == [n \in 0..w |-> IF n = 0 THEN 1 ELSE 256 * f[n - 1]]
           run == CHOOSE f : f = F(f)
<1>1. 1 \in S /\ (\A x \in S : 256 * x \in S) /\ w \in 0..w
  OBVIOUS
<1>2. step \in [1..w -> [S -> S]]
  <2> HIDE DEF S
  <2> QED BY <1>1, Zenon
<1>3. PICK g \in [0..w -> S] : Recurs(g, w, 1, step)
  <2> HIDE DEF S, step
  <2> QED BY <1>1, <1>2, Recursion, Zenon
<1>4. ASSUME NEW n \in 1..w PROVE g[n] = 256 * g[n - 1]
  <2> HIDE DEF S
  <2>1. n - 1 \in 0..w
    OBVIOUS
  <2>2. g[n - 1] \in S
    BY <2>1, Zenon
  <2>3. step[n][g[n - 1]] = 256 * g[n - 1]
    BY <2>2, Zenon
  <2>4. g[n] = step[n][g[n - 1]]
    BY <1>3, Zenon DEF Recurs
  <2> QED BY <2>3, <2>4, Zenon
<1>5. g[0] = 1
  BY <1>3, Zenon DEF Recurs
<1>6. g = F(g)
  <2> HIDE DEF S
  <2>1. ASSUME NEW n \in 0..w PROVE g[n] = IF n = 0 THEN 1 ELSE 256 * g[n - 1]
    <3>1. n = 0 \/ n \in 1..w
      OBVIOUS
    <3> QED BY <1>4, <1>5, <3>1, Zenon
  <2> QED BY <2>1, Zenon
<1>7. run = F(run)
  <2> HIDE DEF F
  <2> QED BY <1>6, Zenon
<1>8. Modulus(w) = run[w]
  BY Zenon DEF Modulus
<1>9. run[0] = 1 /\ \A n \in 1..w : run[n] = 256 * run[n - 1]
  <2> HIDE DEF run
  <2>1. \A n \in 1..w : n \in 0..w /\ n # 0
    OBVIOUS
  <2>2. 0 \in 0..w
    OBVIOUS
  <2> QED BY <1>7, <2>1, <2>2, Zenon
<1>10. run[w] = g[w]
  <2> HIDE DEF run, S
  <2>1. run[0] = g[0]
    BY <1>5, <1>9, Zenon
  <2>2. ASSUME NEW k \in 1..w, run[k - 1] = g[k - 1] PROVE run[k] = g[k]
    <3>1. run[k] = 256 * run[k - 1] /\ g[k] = 256 * g[k - 1]
      BY <1>4, <1>9, Zenon
    <3> QED BY <2>2, <3>1, Zenon
  <2> QED BY <2>1, <2>2, Agree, Zenon
<1> HIDE DEF run, S
<1>11. Modulus(w) \in S
  BY <1>1, <1>8, <1>10, Zenon
<1> QED BY <1>11 DEF S

\* An encoded number is a sequence of bytes, and decodes to itself if it fits.
LEMMA PutUintType ==
    ASSUME NEW n \in Nat, NEW w \in Nat
    PROVE  /\ PutUint(n, w) \in Octets /\ Len(PutUint(n, w)) = w
           /\ n < Modulus(w) => \A i \in 1..w : PutUint(n, w)[i] = n
<1>1. PICK k \in Nat \ {0} : k = Modulus(w)
  BY ModulusType, Zenon
<1>2. PICK x \in Nat : x = n % k /\ (n < k => x = n)
  OBVIOUS
<1>3. PutUint(n, w) = [i \in 1..w |-> x]
  BY <1>1, <1>2, Zenon DEF PutUint
<1> QED BY <1>1, <1>2, <1>3 DEF Octets

\* Packets and encoded messages are sequences of bytes.
LEMMA PacketType ==
    ASSUME NEW p, NEW d \in Octets
    PROVE  Packet(p, d) \in Octets
<1>1. Len(d) \in Nat /\ LengthWidth \in Nat
  BY WidthAssumption DEF Octets
<1>2. PICK h \in Octets : h = PutUint(Len(d), LengthWidth)
  BY <1>1, PutUintType
<1>3. h \o d \in Octets
  BY DEF Octets
<1> QED BY <1>2, <1>3, Zenon DEF Packet

\* A packed message of the protobuf plug-in: two numbers, the type and the data.
LEMMA PackMessageShape ==
    ASSUME NEW m \in Messages
    PROVE  \E h, y \in Octets :
              /\ PackMessage(m) = ((h \o y) \o m.type) \o m.data
              /\ Len(h) = LengthWidth
              /\ \A i \in 1..LengthWidth : h[i] = Len(m.data) + Len(m.type) + TypeLenWidth
              /\ Len(y) = TypeLenWidth /\ \A i \in 1..TypeLenWidth : y[i] = Len(m.type)
<1>1. /\ m.data \in Octets /\ m.type \in Octets
      /\ Len(m.type) \in Nat /\ Len(m.data) + Len(m.type) + TypeLenWidth \in Nat
      /\ LengthWidth \in Nat /\ TypeLenWidth \in Nat
  BY WidthAssumption DEF Messages, Octets
<1>0. /\ Len(m.type) < Modulus(TypeLenWidth)
      /\ Len(m.data) + Len(m.type) + TypeLenWidth < Modulus(LengthWidth)
  BY Zenon DEF Messages, Fits
<1>2. PICK h \in Octets : h = PutUint(Len(m.data) + Len(m.type) + TypeLenWidth, LengthWidth)
  BY <1>1, PutUintType, Zenon
<1>3. PICK y \in Octets : y = PutUint(Len(m.type), TypeLenWidth)
  BY <1>1, PutUintType, Zenon
<1>4. Len(h) = LengthWidth
      /\ \A i \in 1..LengthWidth : h[i] = Len(m.data) + Len(m.type) + TypeLenWidth
  <2>1. PICK k, w \in Nat : k = Len(m.data) + Len(m.type) + TypeLenWidth /\ w = LengthWidth
    BY <1>1, Zenon
  <2>2. k < Modulus(w)
    BY <1>0, <2>1, Zenon
  <2>3. Len(PutUint(k, w)) = w /\ \A i \in 1..w : PutUint(k, w)[i] = k
    BY <2>2, PutUintType, Zenon
  <2> QED BY <1>2, <2>1, <2>3, Zenon
<1>5. Len(y) = TypeLenWidth /\ \A i \in 1..TypeLenWidth : y[i] = Len(m.type)
  <2>1. PICK k, w \in Nat : k = Len(m.type) /\ w = TypeLenWidth
    BY <1>1, Zenon
  <2>2. k < Modulus(w)
    BY <1>0, <2>1, Zenon
  <2>3. Len(PutUint(k, w)) = w /\ \A i \in 1..w : PutUint(k, w)[i] = k
    BY <2>2, PutUintType, Zenon
  <2> QED BY <1>3, <2>1, <2>3, Zenon
<1>6. PackMessage(m) = ((h \o y) \o m.type) \o m.data
  BY <1>2, <1>3, Zenon DEF PackMessage
<1> QED BY <1>4, <1>5, <1>6, Zenon

\* What a client sends for a message is a sequence of bytes.
LEMMA EncodeType ==
    ASSUME NEW p, NEW m \in Messages
    PROVE  Encode(p, m) \in Octets
<1>1. m.data \in Octets /\ m.type \in Octets
  BY DEF Messages
<1>2. PackMessage(m) \in Octets
  <2>1. PICK h, y \in Octets : PackMessage(m) = ((h \o y) \o m.type) \o m.data
    BY PackMessageShape, Zenon
  <2>2. ((h \o y) \o m.type) \o m.data \in Octets
    BY <1>1 DEF Octets
  <2> QED BY <2>1, <2>2, Zenon
<1> QED BY <1>1, <1>2, PacketType, Zenon DEF Encode

\* A piece of a sequence is known from its elements.
LEMMA Piece ==
    ASSUME NEW s \in Octets, NEW x \in Octets, NEW m \in Nat, NEW n \in Nat,
           n = m + Len(x), n <= Len(s), \A i \in 1..Len(x) : s[m + i] = x[i]
    PROVE  SubSeq(s, m + 1, n) = x
<1>1. PICK p : p = SubSeq(s, m + 1, n)
  BY Zenon
<1>2. p \in Octets /\ Len(p) = Len(x) /\ Len(x) \in Nat
  BY <1>1, SMTT(30) DEF Octets
<1>3. ASSUME NEW i \in 1..Len(p) PROVE p[i] = x[i]
  <2>1. p[i] = s[m + i] /\ i \in 1..Len(x)
    BY <1>1, <1>2 DEF Octets
  <2> QED BY <2>1, Zenon
<1>4. p = x
  BY <1>2, <1>3, SeqEqual, Zenon DEF Octets
<1> QED BY <1>1, <1>4, Zenon

\* z is what is left of s, of length n, when m bytes have been retrieved.
Left(z, s, n, m) ==
    z \in Octets /\ Len(z) = n - m /\ \A i \in 1..(n - m) : z[i] = s[m + i]

\* Retrieve leaves the bytes after the first m.
LEMMA RetrievedLen ==
    ASSUME NEW s \in Octets, NEW m \in Nat, m <= Len(s)
    PROVE  Left(Retrieve(s, m), s, Len(s), m)
BY DEF Octets, Retrieve, Left

\* The same, for a buffer whose length is known as n.
LEMMA Retrieved ==
    ASSUME NEW s \in Octets, NEW n, n = Len(s), NEW m \in Nat, m <= n
    PROVE  \E z \in Octets : z = Retrieve(s, m) /\ Left(z, s, n, m)
<1>1. Left(Retrieve(s, m), s, n, m)
  BY RetrievedLen, Zenon
<1> QED BY <1>1, Zenon DEF Left

\* Retrieving twice retrieves the sum.
LEMMA RetrieveTwice ==
    ASSUME NEW s \in Octets, NEW m \in Nat, NEW n \in Nat, m + n <= Len(s)
    PROVE  Retrieve(Retrieve(s, m), n) = Retrieve(s, m + n)
BY DEF Octets, Retrieve

\* c is a, of length m, followed by b, of length n.
Follows(c, a, m, b, n) ==
    /\ c \in Octets /\ Len(c) = m + n
    /\ \A i \in 1..m : c[i] = a[i]
    /\ \A i \in 1..n : c[m + i] = b[i]

\* Concatenation is described by Follows.
LEMMA JoinedLen ==
    ASSUME NEW a \in Octets, NEW b \in Octets
    PROVE  Follows(a \o b, a, Len(a), b, Len(b))
BY DEF Octets, Follows

\* The same, for sequences whose lengths are known as m and n.
LEMMA Joined ==
    ASSUME NEW a \in Octets, NEW b \in Octets, NEW m, NEW n, Len(a) = m, Len(b) = n
    PROVE  Follows(a \o b, a, m, b, n)
BY JoinedLen, Zenon

\* What is retrieved and what is peeked make up the buffer.
LEMMA PeekRetrieve ==
    ASSUME NEW s \in Octets, NEW n \in 0..Len(s)
    PROVE  /\ Peek(s, n) \in Octets /\ Retrieve(s, n) \in Octets
           /\ Peek(s, n) \o Retrieve(s, n) = s
<1>0. PICK l \in Nat : l = Len(s)
  BY DEF Octets
<1>1. PICK a \in Octets : a = Peek(s, n) /\ Len(a) = n /\ \A i \in 1..n : a[i] = s[i]
  <2>1. Peek(s, n) \in Octets /\ Len(Peek(s, n)) = n /\ \A i \in 1..n : Peek(s, n)[i] = s[i]
    BY DEF Peek, Octets
  <2> QED BY <2>1, Zenon
<1>2. PICK b \in Octets : b = Retrieve(s, n) /\ Left(b, s, l, n)
  <2>1. n \in Nat /\ n <= l
    BY <1>0
  <2> QED BY <1>0, <2>1, Retrieved, Zenon
<1>3. Follows(a \o b, a, n, b, l - n)
  BY <1>1, <1>2, Joined, Zenon DEF Left
<1>4. ASSUME NEW i \in 1..l PROVE (a \o b)[i] = s[i]
  <2>1. CASE i <= n
    <3>1. i \in 1..n
      BY <1>0, <2>1
    <3> QED BY <1>1, <1>3, <3>1, Zenon DEF Follows
  <2>2. CASE ~(i <= n)
    <3>1. PICK j \in 1..(l - n) : i = n + j
      <4>1. i - n \in 1..(l - n) /\ i = n + (i - n)
        BY <1>0, <2>2
      <4> QED BY <4>1, Zenon
    <3> QED BY <1>2, <1>3, <3>1, Zenon DEF Follows, Left
  <2> QED BY <2>1, <2>2, Zenon
<1>5. a \o b \in Octets /\ Len(a \o b) = l
  BY <1>0, <1>3 DEF Follows
<1>6. a \o b = s
  BY <1>0, <1>4, <1>5, SeqEqual, Zenon DEF Octets
<1> QED BY <1>1, <1>2, <1>6, Zenon

\* A buffer b of length n begins with e, of length k, as far as it goes; if it
\* holds all of e, what then is left, with what is still to come, r, is t.
Begins(b, n, r, e, k, t) ==
    /\ \A i \in 1..n : i <= k => b[i] = e[i]
    /\ n >= k => Retrieve(b, k) \in Octets /\ Retrieve(b, k) \o r = t

\* When b and then r are the same stream as e and then t, b begins with e.
LEMMA Beginning ==
    ASSUME NEW b \in Octets, NEW r \in Octets, NEW e \in Octets, NEW t \in Octets,
           b \o r = e \o t
    PROVE  Begins(b, Len(b), r, e, Len(e), t)
<1>1. ASSUME NEW i \in 1..Len(b), i <= Len(e) PROVE b[i] = e[i]
  <2>1. (b \o r)[i] = b[i] /\ (e \o t)[i] = e[i]
    BY <1>1 DEF Octets
  <2> QED BY <2>1
<1>2. ASSUME Len(b) >= Len(e)
      PROVE  Retrieve(b, Len(e)) \in Octets /\ Retrieve(b, Len(e)) \o r = t
  <2>1. PICK l, m, n, o \in Nat : l = Len(b) /\ m = Len(r) /\ n = Len(e) /\ o = Len(t)
    BY DEF Octets
  <2>2. l + m = n + o /\ n <= l
    <3>1. Follows(b \o r, b, l, r, m) /\ Follows(e \o t, e, n, t, o)
      BY <2>1, Joined, Zenon
    <3>2. Len(b \o r) = l + m /\ Len(e \o t) = n + o
      BY <3>1, Zenon DEF Follows
    <3> QED BY <1>2, <2>1, <3>2
  <2>3. PICK a \in Octets : a = Retrieve(b, n) /\ Left(a, b, l, n)
    BY <2>1, <2>2, Retrieved, Zenon
  <2>4. Follows(a \o r, a, l - n, r, m)
    BY <2>1, <2>3, Joined, Zenon DEF Left
  <2>5. Follows(b \o r, b, l, r, m) /\ Follows(e \o t, e, n, t, o)
    BY <2>1, Joined, Zenon
  <2>6. ASSUME NEW i \in 1..o PROVE (a \o r)[i] = t[i]
    <3>1. CASE i <= l - n
      <4>1. i \in 1..(l - n) /\ n + i \in 1..l
        BY <2>2, <3>1
      <4>2. (a \o r)[i] = b[n + i]
        BY <2>3, <2>4, <4>1, Zenon DEF Follows, Left
      <4>3. (b \o r)[n + i] = b[n + i] /\ (e \o t)[n + i] = t[i]
        BY <2>5, <4>1, Zenon DEF Follows
      <4> QED BY <4>2, <4>3, Zenon
    <3>2. CASE ~(i <= l - n)
      <4>1. PICK j \in 1..m : i = (l - n) + j /\ n + i = l + j
        <5>1. i - (l - n) \in 1..m /\ i = (l - n) + (i - (l - n))
              /\ n + i = l + (i - (l - n))
          BY <2>2, <3>2
        <5> QED BY <5>1, Zenon
      <4> QED BY <2>4, <2>5, <4>1, Zenon DEF Follows
    <3> QED BY <3>1, <3>2, Zenon
  <2>7. a \o r \in Octets /\ Len(a \o r) = o
    <3>1. a \o r \in Octets /\ Len(a \o r) = (l - n) + m
      BY <2>4, Zenon DEF Follows
    <3> QED BY <2>2, <3>1
  <2>8. a \o r = t
    BY <2>1, <2>6, <2>7, SeqEqual, Zenon DEF Octets
  <2> QED BY <2>1, <2>3, <2>8, Zenon
<1> QED BY <1>1, <1>2, Zenon DEF Begins

\* What UnPacket makes of a buffer b, followed by r, that begin with message m:
\* nothing yet, or m, and then what is left, with r, is the rest t of the stream.
Unpacks(p, b, r, m, t) ==
    \/ /\ UnPacket(p, b) = NotYet(b)
       /\ m.data # <<>> => Len(b) < Len(Encode(p, m))
    \/ /\ UnPacket(p, b).ctx = IF p = "protobuf" THEN m.type ELSE NoCtx
       /\ UnPacket(p, b).data = m.data
       /\ UnPacket(p, b).rest \in Octets /\ UnPacket(p, b).rest \o r = t

\* The example protocol's UnPacket finds the next message once it is there.
LEMMA ExampleUnpacks ==
    ASSUME NEW m \in Messages, NEW b \in Octets, NEW r \in Octets, NEW t \in Octets,
           b \o r = Encode("example", m) \o t
    PROVE  Unpacks("example", b, r, m, t)
<1>1. PICK d \in Octets : d = m.data
  BY DEF Messages
<1>2. PICK w, l, n \in Nat : w = LengthWidth /\ w > 0 /\ l = Len(d) /\ n = Len(b)
  <2>1. LengthWidth \in Nat /\ LengthWidth > 0 /\ Len(d) \in Nat /\ Len(b) \in Nat
    BY WidthAssumption DEF Octets
  <2> QED BY <2>1, Zenon
<1>3. PICK h \in Octets : h = PutUint(l, w) /\ Len(h) = w /\ \A i \in 1..w : h[i] = l
  <2>0. Modulus(w) \in Nat
    BY ModulusType
  <2>1. Len(m.type) \in Nat
    BY DEF Messages, Octets
  <2>2. l + Len(m.type) + TypeLenWidth < Modulus(w)
    BY <1>1, <1>2, Zenon DEF Messages, Fits
  <2>3. l < Modulus(w)
    BY <2>0, <2>1, <2>2, WidthAssumption
  <2> QED BY <2>3, PutUintType, Zenon
<1>4. PICK e \in Octets : e = h \o d /\ Follows(e, h, w, d, l)
  <2>1. Follows(h \o d, h, w, d, l)
    BY <1>2, <1>3, Joined, Zenon
  <2> QED BY <2>1, Zenon DEF Follows
<1>5. Encode("example", m) = e
  BY <1>1, <1>2, <1>3, <1>4, Zenon DEF Encode, Packet
<1>6. Len(e) = w + l
  BY <1>4, Zenon DEF Follows
<1>7. Begins(b, n, r, e, w + l, t)
  BY <1>2, <1>5, <1>6, Beginning, Zenon
<1>8. UnPacket("example", b) = ExampleUnPacket(b)
  BY DEF UnPacket
<1>9. CASE n > w /\ n - w >= l
  <2>1. PICK body \in Octets : body = Retrieve(b, w) /\ Left(body, b, n, w)
    <3>1. w <= n
      BY <1>9
    <3> QED BY <1>2, <3>1, Retrieved, Zenon
  <2>2. PeekUint(b) = l
    <3>1. 1 \in 1..n /\ 1 <= w + l /\ 1 \in 1..w
      BY <1>2, <1>9
    <3>2. b[1] = l
      BY <1>3, <1>4, <1>7, <3>1, Zenon DEF Follows, Begins
    <3>3. Head(b) = b[1]
      BY <1>2, <1>9 DEF Octets
    <3> QED BY <3>2, <3>3, Zenon DEF PeekUint
  <2>3. Peek(body, l) = d
    <3>1. ASSUME NEW i \in 1..Len(d) PROVE body[0 + i] = d[i]
      <4>1. /\ i \in 1..l /\ i \in 1..(n - w) /\ w + i \in 1..n
            /\ w + i <= w + l /\ 0 + i = i
        BY <1>2, <1>9
      <4> QED BY <1>4, <1>7, <2>1, <4>1, Zenon DEF Follows, Begins, Left
    <3>2. l = 0 + Len(d) /\ l <= Len(body) /\ 0 \in Nat
      BY <1>2, <1>9, <2>1 DEF Left
    <3>3. SubSeq(body, 0 + 1, l) = d
      BY <1>2, <3>1, <3>2, Piece, Zenon
    <3> QED BY <3>3 DEF Peek
  <2>4. ExampleUnPacket(b) = [ctx |-> NoCtx, data |-> d, rest |-> Retrieve(b, w + l)]
    <3>1. w + l <= Len(b) /\ Len(body) = n - w
      BY <1>2, <1>9, <2>1 DEF Left
    <3>2. Retrieve(body, l) = Retrieve(b, w + l)
      BY <2>1, <3>1, RetrieveTwice, Zenon
    <3> QED BY <1>2, <1>9, <2>1, <2>2, <2>3, <3>1, <3>2, Zenon DEF ExampleUnPacket
  <2>5. n >= w + l
    BY <1>9
  <2>6. UnPacket("example", b) = [ctx |-> NoCtx, data |-> d, rest |-> Retrieve(b, w + l)]
    BY <1>8, <2>4, Zenon
  <2>7. UnPacket("example", b).ctx = NoCtx /\ UnPacket("example", b).data = m.data
        /\ UnPacket("example", b).rest = Retrieve(b, w + l)
    BY <1>1, <2>6
  <2>8. UnPacket("example", b).rest \in Octets /\ UnPacket("example", b).rest \o r = t
    BY <1>7, <2>5, <2>7, Zenon DEF Begins
  <2>9. NoCtx = IF "example" = "protobuf" THEN m.type ELSE NoCtx
    OBVIOUS
  <2> QED BY <2>7, <2>8, <2>9, Zenon DEF Unpacks
<1>10. CASE ~(n > w /\ n - w >= l)
  <2>1. ExampleUnPacket(b) = NotYet(b)
    <3>1. CASE ~(n > w)
      BY <1>2, <3>1, Zenon DEF ExampleUnPacket
    <3>2. CASE n > w /\ ~(n - w >= l)
      <4>1. 1 \in 1..n /\ 1 <= w + l /\ 1 \in 1..w /\ w <= n
        BY <1>2, <3>2
      <4>2. b[1] = l
        BY <1>3, <1>4, <1>7, <4>1, Zenon DEF Follows, Begins
      <4>3. Head(b) = b[1]
        BY <1>2, <3>2 DEF Octets
      <4>4. PeekUint(b) = l
        BY <4>2, <4>3, Zenon DEF PeekUint
      <4>5. Len(Retrieve(b, w)) = n - w
        <5>1. PICK z \in Octets : z = Retrieve(b, w) /\ Left(z, b, n, w)
          BY <1>2, <4>1, Retrieved, Zenon
        <5> QED BY <5>1, Zenon DEF Left
      <4> QED BY <1>2, <3>2, <4>4, <4>5, Zenon DEF ExampleUnPacket
    <3> QED BY <1>10, <3>1, <3>2, Zenon
  <2>2. ASSUME d # <<>> PROVE Len(b) < Len(e)
    <3>1. l > 0
      BY <1>2, <2>2 DEF Octets
    <3> QED BY <1>2, <1>6, <1>10, <3>1
  <2> QED BY <1>1, <1>5, <1>8, <2>1, <2>2, Zenon DEF Unpacks
<1> QED BY <1>9, <1>10, Zenon

\* So does the protobuf plug-in's.
LEMMA ProtobufUnpacks ==
    ASSUME NEW m \in Messages, NEW b \in Octets, NEW r \in Octets, NEW t \in Octets,
           b \o r = Encode("protobuf", m) \o t
    PROVE  Unpacks("protobuf", b, r, m, t)
<1>1. PICK d, y \in Octets : d = m.data /\ y = m.type
  BY DEF Messages
<1>2. PICK w, v, l, q, n \in Nat :
         /\ w = LengthWidth /\ w > 0 /\ v = TypeLenWidth /\ v > 0
         /\ l = Len(d) /\ q = Len(y) /\ n = Len(b)
  <2>1. /\ LengthWidth \in Nat /\ LengthWidth > 0 /\ TypeLenWidth \in Nat /\ TypeLenWidth > 0
        /\ Len(d) \in Nat /\ Len(y) \in Nat /\ Len(b) \in Nat
    BY WidthAssumption DEF Octets
  <2> QED BY <2>1, Zenon
<1>3. PICK k \in Nat : k = l + q + v
  OBVIOUS
<1>4. PICK g, h \in Octets :
         /\ PackMessage(m) = ((g \o h) \o y) \o d
         /\ Len(g) = w /\ \A i \in 1..w : g[i] = k
         /\ Len(h) = v /\ \A i \in 1..v : h[i] = q
  <2>1. PICK g, h \in Octets :
              /\ PackMessage(m) = ((g \o h) \o m.type) \o m.data
              /\ Len(g) = LengthWidth
              /\ \A i \in 1..LengthWidth : g[i] = Len(m.data) + Len(m.type) + TypeLenWidth
              /\ Len(h) = TypeLenWidth /\ \A i \in 1..TypeLenWidth : h[i] = Len(m.type)
    BY PackMessageShape, Zenon
  <2> QED BY <1>1, <1>2, <1>3, <2>1, Zenon
<1>5. PICK a \in Octets : a = g \o h /\ Follows(a, g, w, h, v)
  <2>1. Follows(g \o h, g, w, h, v)
    BY <1>4, Joined, Zenon
  <2> QED BY <2>1, Zenon DEF Follows
<1>6. PICK c \in Octets : c = a \o y /\ Follows(c, a, w + v, y, q)
  <2>1. Len(a) = w + v
    BY <1>5, Zenon DEF Follows
  <2>2. Follows(a \o y, a, w + v, y, q)
    BY <1>2, <2>1, Joined, Zenon
  <2> QED BY <2>2, Zenon DEF Follows
<1>7. PICK e \in Octets : e = c \o d /\ Follows(e, c, (w + v) + q, d, l)
  <2>1. Len(c) = (w + v) + q
    BY <1>6, Zenon DEF Follows
  <2>2. Follows(c \o d, c, (w + v) + q, d, l)
    BY <1>2, <2>1, Joined, Zenon
  <2> QED BY <2>2, Zenon DEF Follows
<1>8. Encode("protobuf", m) = e
  BY <1>4, <1>5, <1>6, <1>7, Zenon DEF Encode
<1>9. Len(e) = w + k
  <2>1. Len(e) = ((w + v) + q) + l
    BY <1>7, Zenon DEF Follows
  <2> QED BY <1>3, <2>1
<1>10. Begins(b, n, r, e, w + k, t)
  BY <1>2, <1>8, <1>9, Beginning, Zenon
<1>11. UnPacket("protobuf", b) = ProtobufUnPacket(b)
  BY DEF UnPacket
<1>12. CASE n > w + v
  <2>1. PICK body \in Octets : body = Retrieve(b, w) /\ Left(body, b, n, w)
    <3>1. w <= n
      BY <1>12
    <3> QED BY <1>2, <3>1, Retrieved, Zenon
  <2>2. PeekUint(b) = k
    <3>1. /\ 1 \in 1..n /\ 1 <= w + k /\ 1 \in 1..w /\ 1 \in 1..(w + v)
          /\ 1 \in 1..((w + v) + q)
      BY <1>2, <1>3, <1>12
    <3>2. b[1] = e[1] /\ e[1] = c[1] /\ c[1] = a[1] /\ a[1] = g[1] /\ g[1] = k
      BY <1>4, <1>5, <1>6, <1>7, <1>10, <3>1, Zenon DEF Follows, Begins
    <3>3. Head(b) = b[1]
      BY <1>2, <1>12 DEF Octets
    <3> QED BY <3>2, <3>3, Zenon DEF PeekUint
  <2>3. PeekUint(body) = q
    <3>1. /\ 1 \in 1..(n - w) /\ 1 \in 1..v /\ w + 1 \in 1..n /\ w + 1 <= w + k
          /\ w + 1 \in 1..(w + v) /\ w + 1 \in 1..((w + v) + q)
      BY <1>2, <1>3, <1>12
    <3>2. /\ body[1] = b[w + 1] /\ b[w + 1] = e[w + 1] /\ e[w + 1] = c[w + 1]
          /\ c[w + 1] = a[w + 1] /\ a[w + 1] = h[1] /\ h[1] = q
      BY <1>4, <1>5, <1>6, <1>7, <1>10, <2>1, <3>1, Zenon DEF Follows, Begins, Left
    <3>3. Head(body) = body[1]
      <4>1. Len(body) = n - w
        BY <2>1, Zenon DEF Left
      <4> QED BY <1>12, <4>1 DEF Octets
    <3> QED BY <3>2, <3>3, Zenon DEF PeekUint
  <2>4. CASE n - w >= k
    <3>1. PICK z \in Octets : z = Retrieve(b, w + v) /\ Left(z, b, n, w + v)
      <4>1. w + v \in Nat /\ w + v <= n
        BY <1>12
      <4> QED BY <1>2, <4>1, Retrieved, Zenon
    <3>2. Peek(z, q) = y
      <4>1. ASSUME NEW i \in 1..Len(y) PROVE z[0 + i] = y[i]
        <5>1. /\ i \in 1..q /\ i \in 1..(n - (w + v)) /\ (w + v) + i \in 1..n
              /\ (w + v) + i <= w + k /\ (w + v) + i \in 1..((w + v) + q) /\ 0 + i = i
          BY <1>2, <1>3, <2>4
        <5>2. /\ z[i] = b[(w + v) + i] /\ b[(w + v) + i] = e[(w + v) + i]
              /\ e[(w + v) + i] = c[(w + v) + i] /\ c[(w + v) + i] = y[i]
          BY <1>6, <1>7, <1>10, <3>1, <5>1, Zenon DEF Follows, Begins, Left
        <5> QED BY <5>1, <5>2, Zenon
      <4>2. q = 0 + Len(y) /\ q <= Len(z) /\ 0 \in Nat
        BY <1>2, <1>3, <2>4, <3>1 DEF Left
      <4>3. SubSeq(z, 0 + 1, q) = y
        BY <1>2, <4>1, <4>2, Piece, Zenon
      <4> QED BY <4>3 DEF Peek
    <3>3. SubSeq(z, q + 1, k - v) = d
      <4>1. ASSUME NEW i \in 1..Len(d) PROVE z[q + i] = d[i]
        <5>1. /\ i \in 1..l /\ q + i \in 1..(n - (w + v)) /\ (w + v) + (q + i) \in 1..n
              /\ (w + v) + (q + i) <= w + k /\ (w + v) + (q + i) = ((w + v) + q) + i
          BY <1>2, <1>3, <2>4
        <5>2. /\ z[q + i] = b[(w + v) + (q + i)]
              /\ b[(w + v) + (q + i)] = e[(w + v) + (q + i)]
              /\ e[((w + v) + q) + i] = d[i]
          BY <1>7, <1>10, <3>1, <5>1, Zenon DEF Follows, Begins, Left
        <5> QED BY <5>1, <5>2, Zenon
      <4>2. k - v \in Nat /\ k - v = q + Len(d) /\ k - v <= Len(z)
        BY <1>2, <1>3, <2>4, <3>1 DEF Left
      <4> QED BY <4>1, <4>2, Piece, Zenon
    <3>4. Retrieve(body, k) = Retrieve(b, w + k)
      <4>1. w + k <= Len(b)
        BY <1>2, <2>4
      <4>2. Retrieve(Retrieve(b, w), k) = Retrieve(b, w + k)
        BY <4>1, RetrieveTwice
      <4> QED BY <2>1, <4>2, Zenon
    <3>5. Retrieve(body, v) = z
      <4>1. w + v <= Len(b)
        BY <1>2, <1>12
      <4>2. Retrieve(Retrieve(b, w), v) = Retrieve(b, w + v)
        BY <4>1, RetrieveTwice
      <4> QED BY <2>1, <3>1, <4>2, Zenon
    <3>6. Len(body) = n - w
      BY <2>1, Zenon DEF Left
    <3>7. ProtobufUnPacket(b) = [ctx |-> y, data |-> d, rest |-> Retrieve(b, w + k)]
      BY <1>2, <1>12, <2>1, <2>2, <2>3, <2>4, <3>2, <3>3, <3>4, <3>5, <3>6, Zenon
         DEF ProtobufUnPacket
    <3>8. UnPacket("protobuf", b).ctx = m.type /\ UnPacket("protobuf", b).data = m.data
          /\ UnPacket("protobuf", b).rest = Retrieve(b, w + k)
      BY <1>1, <1>11, <3>7
    <3>9. n >= w + k
      BY <2>4
    <3>10. /\ UnPacket("protobuf", b).rest \in Octets
          /\ UnPacket("protobuf", b).rest \o r = t
      BY <1>10, <3>8, <3>9, Zenon DEF Begins
    <3> QED BY <3>8, <3>10, Zenon DEF Unpacks
  <2>5. CASE ~(n - w >= k)
    <3>1. ProtobufUnPacket(b) = NotYet(b)
      BY <1>2, <2>1, <2>2, <2>5, Zenon DEF ProtobufUnPacket, Left
    <3>2. Len(b) < Len(e)
      BY <1>2, <1>9, <2>5
    <3> QED BY <1>8, <1>11, <3>1, <3>2, Zenon DEF Unpacks
  <2> QED BY <2>4, <2>5, Zenon
<1>13. CASE ~(n > w + v)
  <2>1. ProtobufUnPacket(b) = NotYet(b)
    BY <1>2, <1>13, Zenon DEF ProtobufUnPacket
  <2>2. ASSUME d # <<>> PROVE Len(b) < Len(e)
    <3>1. l > 0
      BY <1>2, <2>2 DEF Octets
    <3> QED BY <1>2, <1>3, <1>9, <1>13, <3>1
  <2> QED BY <1>1, <1>8, <1>11, <2>1, <2>2, Zenon DEF Unpacks
<1> QED BY <1>12, <1>13, Zenon

\* Nothing is unpacked of an empty buffer.
LEMMA NothingUnpacks ==
    ASSUME NEW p \in {"example", "protobuf"}
    PROVE  UnPacket(p, <<>>) = NotYet(<<>>)
<1>1. ~(Len(<<>>) > LengthWidth) /\ ~(Len(<<>>) > LengthWidth + TypeLenWidth)
  BY WidthAssumption
<1>2. ExampleUnPacket(<<>>) = NotYet(<<>>) /\ ProtobufUnPacket(<<>>) = NotYet(<<>>)
  BY <1>1, Zenon DEF ExampleUnPacket, ProtobufUnPacket
<1> QED BY <1>2 DEF UnPacket

\* A common beginning can be taken away.
LEMMA Cancel ==
    ASSUME NEW a \in Octets, NEW x \in Octets, NEW y \in Octets, a \o x = a \o y
    PROVE  x = y
<1>1. Begins(a, Len(a), x, a, Len(a), y)
  BY Beginning, Zenon
<1>2. Retrieve(a, Len(a)) = <<>> /\ Len(a) >= Len(a)
  BY SubSeqEmpty DEF Retrieve, Octets
<1>3. <<>> \o x = y
  BY <1>1, <1>2, Zenon DEF Begins
<1>4. <<>> \o x = x
  BY DEF Octets
<1> QED BY <1>3, <1>4, Zenon

-----------------------------------------------------------------------------
(* The stream of a client's messages *)

\* What OnMessage gets.
Events == [type : Seq(Int), data : Octets]

\* What is sent, or got, for the first k messages.
Encodings(p, ms) == [i \in DOMAIN ms |-> Encode(p, ms[i])]
Enc(p, ms, k)    == Concat(SubSeq(Encodings(p, ms), 1, k))
Items(p, ms)     == [i \in DOMAIN ms |-> Gets(p, ms[i])]
Got(p, ms, k)    == Concat(SubSeq(Items(p, ms), 1, k))

\* Every message has an encoding.
LEMMA EncodingsType ==
    ASSUME NEW p, NEW ms \in Seq(Messages)
    PROVE  /\ Encodings(p, ms) \in Seq(Octets) /\ Len(Encodings(p, ms)) = Len(ms)
           /\ \A i \in 1..Len(ms) : Encodings(p, ms)[i] = Encode(p, ms[i])
<1>1. ASSUME NEW i \in 1..Len(ms) PROVE Encode(p, ms[i]) \in Octets
  <2>1. ms[i] \in Messages
    OBVIOUS
  <2> QED BY <2>1, EncodeType, Zenon
<1>2. Len(ms) \in Nat /\ DOMAIN ms = 1..Len(ms)
  OBVIOUS
<1> QED BY <1>1, <1>2 DEF Encodings

\* What OnMessage gets of one message is a sequence of events.
LEMMA GetsType ==
    ASSUME NEW p, NEW m \in Messages
    PROVE  Gets(p, m) \in Seq(Events)
<1>1. NoCtx \in Seq(Int)
  BY DEF NoCtx
<1>2. m.data \in Octets /\ m.type \in Octets /\ m = [type |-> m.type, data |-> m.data]
  BY DEF Messages
<1>3. m.type \in Seq(Int)
  BY <1>2, SeqMonotonic DEF Octets
<1>4. m \in Events
  BY <1>2, <1>3 DEF Events
<1>5. [type |-> NoCtx, data |-> m.data] \in Events
  BY <1>1, <1>2 DEF Events
<1>6. \A e \in Events : <<e>> \in Seq(Events)
  OBVIOUS
<1>7. <<>> \in Seq(Events)
  OBVIOUS
<1> QED BY <1>4, <1>5, <1>6, <1>7, Zenon DEF Gets

\* What OnMessage gets of each of the messages.
LEMMA ItemsType ==
    ASSUME NEW p, NEW ms \in Seq(Messages)
    PROVE  /\ Items(p, ms) \in Seq(Seq(Events)) /\ Len(Items(p, ms)) = Len(ms)
           /\ \A i \in 1..Len(ms) : Items(p, ms)[i] = Gets(p, ms[i])
<1>1. ASSUME NEW i \in 1..Len(ms) PROVE Gets(p, ms[i]) \in Seq(Events)
  <2>1. ms[i] \in Messages
    OBVIOUS
  <2> QED BY <2>1, GetsType, Zenon
<1>2. Len(ms) \in Nat /\ DOMAIN ms = 1..Len(ms)
  OBVIOUS
<1> QED BY <1>1, <1>2 DEF Items

\* What the first messages are encoded as: nothing, the next one more, a
\* beginning of the stream, and all of it.
LEMMA EncSteps ==
    ASSUME NEW p, NEW ms \in Seq(Messages), NEW k \in 0..Len(ms)
    PROVE  /\ Enc(p, ms, k) \in Octets /\ EncodeAll(p, ms) \in Octets
           /\ Enc(p, ms, 0) = <<>> /\ Enc(p, ms, Len(ms)) = EncodeAll(p, ms)
           /\ \E t \in Octets : EncodeAll(p, ms) = Enc(p, ms, k) \o t
           /\ k < Len(ms) => Enc(p, ms, k + 1) = Enc(p, ms, k) \o Encode(p, ms[k + 1])
<1>1. PICK q \in Seq(Octets) : /\ q = Encodings(p, ms) /\ Len(q) = Len(ms)
                              /\ \A i \in 1..Len(ms) : q[i] = Encode(p, ms[i])
  BY EncodingsType, Zenon
<1>2. EncodeAll(p, ms) = Concat(q)
  BY <1>1, Zenon DEF EncodeAll, Encodings
<1>3. \A i : Enc(p, ms, i) = Concat(SubSeq(q, 1, i))
  BY <1>1, Zenon DEF Enc
<1>4. SubSeq(q, 1, k) \in Seq(Octets) /\ SubSeq(q, 1, 0) = <<>> /\ SubSeq(q, 1, Len(ms)) = q
  <2>1. SubSeq(q, 1, 0) = <<>>
    BY SubSeqEmpty
  <2>2. SubSeq(q, 1, k) \in Seq(Octets) /\ SubSeq(q, 1, Len(ms)) = q
    BY <1>1
  <2> QED BY <2>1, <2>2
<1>5. Enc(p, ms, k) \in Octets /\ EncodeAll(p, ms) \in Octets
  BY <1>2, <1>3, <1>4, ConcatType, Zenon DEF Octets
<1>6. Enc(p, ms, 0) = <<>> /\ Enc(p, ms, Len(ms)) = EncodeAll(p, ms)
  BY <1>2, <1>3, <1>4, ConcatEmpty, Zenon
<1>7. \E t \in Octets : EncodeAll(p, ms) = Enc(p, ms, k) \o t
  <2>1. k \in 0..Len(q)
    BY <1>1
  <2> QED BY <1>2, <1>3, <2>1, PrePrefix, Zenon DEF Octets
<1>8. ASSUME k < Len(ms)
      PROVE  Enc(p, ms, k + 1) = Enc(p, ms, k) \o Encode(p, ms[k + 1])
  <2>1. PICK j \in 1..Len(q) : j = k + 1 /\ j - 1 = k /\ j \in 1..Len(ms)
    <3>1. k + 1 \in 1..Len(q) /\ (k + 1) - 1 = k /\ k + 1 \in 1..Len(ms)
      BY <1>1, <1>8
    <3> QED BY <3>1, Zenon
  <2>2. Concat(SubSeq(q, 1, j)) = Concat(SubSeq(q, 1, j - 1)) \o q[j]
    BY PreStep, Zenon DEF Octets
  <2> QED BY <1>1, <1>3, <2>1, <2>2, Zenon
<1> QED BY <1>5, <1>6, <1>7, <1>8, Zenon

\* The same for what OnMessage gets.
LEMMA GotSteps ==
    ASSUME NEW p, NEW ms \in Seq(Messages), NEW k \in 0..Len(ms)
    PROVE  /\ Got(p, ms, k) \in Seq(Events) /\ Got(p, ms, 0) = <<>>
           /\ \E t \in Seq(Events) :
                 Concat(Items(p, ms)) = Got(p, ms, k) \o t
           /\ k < Len(ms) => Got(p, ms, k + 1) = Got(p, ms, k) \o Gets(p, ms[k + 1])
<1>1. PICK q \in Seq(Seq(Events)) : /\ q = Items(p, ms) /\ Len(q) = Len(ms)
                                   /\ \A i \in 1..Len(ms) : q[i] = Gets(p, ms[i])
  BY ItemsType, Zenon
<1>2. \A i : Got(p, ms, i) = Concat(SubSeq(q, 1, i))
  BY <1>1, Zenon DEF Got
<1>3. SubSeq(q, 1, k) \in Seq(Seq(Events)) /\ SubSeq(q, 1, 0) = <<>>
  <2>1. SubSeq(q, 1, 0) = <<>>
    BY SubSeqEmpty
  <2>2. SubSeq(q, 1, k) \in Seq(Seq(Events))
    BY <1>1
  <2> QED BY <2>1, <2>2
<1>4. Got(p, ms, k) \in Seq(Events) /\ Got(p, ms, 0) = <<>>
  BY <1>2, <1>3, ConcatType, ConcatEmpty, Zenon
<1>5. \E t \in Seq(Events) : Concat(Items(p, ms)) = Got(p, ms, k) \o t
  <2>1. k \in 0..Len(q)
    BY <1>1
  <2>2. PICK t \in Seq(Events) : Concat(q) = Concat(SubSeq(q, 1, k)) \o t
    BY <2>1, PrePrefix, Zenon
  <2> QED BY <1>1, <1>2, <2>2, Zenon
<1>6. ASSUME k < Len(ms)
      PROVE  Got(p, ms, k + 1) = Got(p, ms, k) \o Gets(p, ms[k + 1])
  <2>1. PICK j \in 1..Len(q) : j = k + 1 /\ j - 1 = k /\ j \in 1..Len(ms)
    <3>1. k + 1 \in 1..Len(q) /\ (k + 1) - 1 = k /\ k + 1 \in 1..Len(ms)
      BY <1>1, <1>6
    <3> QED BY <3>1, Zenon
  <2>2. Concat(SubSeq(q, 1, j)) = Concat(SubSeq(q, 1, j - 1)) \o q[j]
    BY PreStep, Zenon
  <2> QED BY <1>1, <1>2, <2>1, <2>2, Zenon
<1> QED BY <1>4, <1>5, <1>6, Zenon

\* One call of UnPacket when k messages have been dealt with: nothing yet, or
\* the next message, after which one more is dealt with.
Deals(p, ms, k, b, r) ==
    \/ /\ UnPacket(p, b) = NotYet(b)
       /\ k < Len(ms) /\ ms[k + 1].data # <<>> => Len(b) < Len(Encode(p, ms[k + 1]))
    \/ /\ k < Len(ms)
       /\ UnPacket(p, b).ctx = IF p = "protobuf" THEN ms[k + 1].type ELSE NoCtx
       /\ UnPacket(p, b).data = ms[k + 1].data
       /\ UnPacket(p, b).rest \in Octets
       /\ Enc(p, ms, k + 1) \o (UnPacket(p, b).rest \o r) = EncodeAll(p, ms)

\* UnPacket deals with the messages in their order.
LEMMA UnPacketDeals ==
    ASSUME NEW p \in {"example", "protobuf"}, NEW ms \in Seq(Messages),
           NEW k \in 0..Len(ms), NEW b \in Octets, NEW r \in Octets,
           Enc(p, ms, k) \o (b \o r) = EncodeAll(p, ms)
    PROVE  Deals(p, ms, k, b, r)
<1>1. PICK a \in Octets : a = Enc(p, ms, k)
  BY EncSteps, Zenon
<1>2. b \o r \in Octets
  BY DEF Octets
<1>3. CASE k = Len(ms)
  <2>1. a \o (b \o r) = a \o <<>> /\ <<>> \in Octets
    <3>1. a \o <<>> = a /\ <<>> \in Octets
      BY DEF Octets
    <3>2. a = EncodeAll(p, ms)
      BY <1>1, <1>3, EncSteps, Zenon
    <3> QED BY <1>1, <3>1, <3>2, Zenon
  <2>2. b \o r = <<>>
    BY <1>2, <2>1, Cancel, Zenon
  <2>3. b = <<>>
    BY <2>2 DEF Octets
  <2>4. ~(k < Len(ms))
    BY <1>3
  <2> QED BY <2>3, <2>4, NothingUnpacks, Zenon DEF Deals
<1>4. CASE k # Len(ms)
  <2>1. k < Len(ms) /\ k + 1 \in 0..Len(ms) /\ ms[k + 1] \in Messages
    BY <1>4
  <2>2. PICK m \in Messages : m = ms[k + 1]
    BY <2>1, Zenon
  <2>3. PICK e \in Octets : e = Encode(p, m)
    BY EncodeType, Zenon
  <2>4. Enc(p, ms, k + 1) = a \o e
    BY <1>1, <2>1, <2>2, <2>3, EncSteps, Zenon
  <2>5. PICK t \in Octets : EncodeAll(p, ms) = (a \o e) \o t
    BY <2>1, <2>4, EncSteps, Zenon
  <2>6. (a \o e) \o t = a \o (e \o t) /\ e \o t \in Octets
    <3>1. Reassociate(a, e, t)
      BY OctetsAssociate, Zenon
    <3> QED BY <3>1, OctetsJoin, Zenon DEF Reassociate
  <2>7. b \o r = e \o t
    BY <1>1, <1>2, <2>5, <2>6, Cancel, Zenon
  <2>8. Unpacks(p, b, r, m, t)
    BY <2>3, <2>7, ExampleUnpacks, ProtobufUnpacks, Zenon
  <2> QED BY <2>1, <2>2, <2>3, <2>4, <2>5, <2>8, Zenon DEF Deals, Unpacks
<1> QED BY <1>3, <1>4, Zenon

-----------------------------------------------------------------------------
(* Where readLoop is in the stream.  In what follows d has been delivered, b is *)
(* inBuffer, r is inbound and x is b followed by r.                             *)

Datas(d) == [i \in DOMAIN d |-> d[i].data]

\* The first k messages have been dealt with, and x begins with the next.
Framed(p, ms, d, x, k) ==
    Enc(p, ms, k) \o x = EncodeAll(p, ms) /\ d = Got(p, ms, k)

\* The next message is not complete.
Short(p, ms, b, k) ==
    (\A i \in DOMAIN ms : ms[i].data # <<>>) /\ k < Len(ms)
        => Len(b) < Len(Encode(p, ms[k + 1]))

InStream(p, ms, d, x) ==
    IF p = "default" THEN Concat(Datas(d)) \o x = EncodeAll(p, ms)
    ELSE \E k \in 0..Len(ms) : Framed(p, ms, d, x, k)

\* The same when the loop of handlerProtocol has ended.
AtRest(p, ms, d, b, r) ==
    IF p = "default" THEN b = <<>> /\ InStream(p, ms, d, b \o r)
    ELSE \E k \in 0..Len(ms) : Framed(p, ms, d, b \o r, k) /\ Short(p, ms, b, k)

\* The end of handlerProtocol's loop is a point in the stream.
LEMMA RestInStream ==
    ASSUME NEW p, NEW ms, NEW d, NEW b, NEW r, AtRest(p, ms, d, b, r)
    PROVE  InStream(p, ms, d, b \o r)
BY Zenon DEF AtRest, InStream

\* A read moves bytes from one to the other.
LEMMA ReadInStream ==
    ASSUME NEW b \in Octets, NEW r \in Octets, NEW n \in 0..Len(r)
    PROVE  /\ Retrieve(r, n) \in Octets /\ b \o Peek(r, n) \in Octets
           /\ (b \o Peek(r, n)) \o Retrieve(r, n) = b \o r
<1>1. PICK s, t \in Octets : s = Peek(r, n) /\ t = Retrieve(r, n) /\ s \o t = r
  BY PeekRetrieve, Zenon
<1>2. (b \o s) \o t = b \o (s \o t)
  <2>1. Associative(Nat)
    BY Assoc, Zenon
  <2> QED BY <2>1, Zenon DEF Associative, Octets
<1>3. b \o s \in Octets
  BY DEF Octets
<1> QED BY <1>1, <1>2, <1>3, Zenon

\* The data of the events, one event more.
LEMMA DatasAppend ==
    ASSUME NEW d \in Seq(Events), NEW e \in Events
    PROVE  /\ Concat(Datas(d)) \in Octets
           /\ Concat(Datas(Append(d, e))) = Concat(Datas(d)) \o e.data
<1>1. Datas(d) \in Seq(Octets) /\ e.data \in Octets
  <2>1. \A f \in Events : f.data \in Octets
    BY DEF Events
  <2>2. \A i \in 1..Len(d) : d[i].data \in Octets
    BY <2>1
  <2> QED BY <2>1, <2>2 DEF Datas
<1>2. Datas(Append(d, e)) = Append(Datas(d), e.data)
  BY <1>1 DEF Datas, Events
<1>3. Concat(Append(Datas(d), e.data)) = Concat(Datas(d)) \o e.data
  BY <1>1, ConcatAppend, Zenon DEF Octets
<1> QED BY <1>1, <1>2, <1>3, ConcatType, Zenon DEF Octets

\* A turn of handlerProtocol's loop that calls OnMessage, and its last one.
Handled(p, ms, d, b, r, u) ==
    /\ u.rest \in Octets
    /\ Handles(u) => /\ u.data \in Octets /\ [type |-> u.ctx, data |-> u.data] \in Events
                     /\ InStream(p, ms, Append(d, [type |-> u.ctx, data |-> u.data]),
                                 u.rest \o r)
    /\ ~Handles(u) => AtRest(p, ms, d, u.rest, r)

\* A turn of handlerProtocol's loop with DefaultProtocol.
LEMMA DefaultHandled ==
    ASSUME NEW ms \in Seq(Messages), NEW d \in Seq(Events), NEW b \in Octets,
           NEW r \in Octets, InStream("default", ms, d, b \o r),
           NEW u, u = UnPacket("default", b)
    PROVE  Handled("default", ms, d, b, r, u)
<1>1. u = [ctx |-> NoCtx, data |-> b, rest |-> <<>>]
  BY DEF UnPacket, DefaultUnPacket
<1>2. u.ctx = NoCtx /\ u.data = b /\ u.rest = <<>> /\ <<>> \in Octets
  BY <1>1 DEF Octets
<1>3. Handles(u) <=> b # <<>>
  BY <1>2, Zenon DEF Handles
<1>4. PICK e \in Events : e = [type |-> u.ctx, data |-> u.data] /\ e.data = b
  <2>1. NoCtx \in Seq(Int)
    BY DEF NoCtx
  <2>2. [type |-> NoCtx, data |-> b] \in Events /\ [type |-> NoCtx, data |-> b].data = b
    BY <2>1 DEF Events
  <2> QED BY <1>2, <2>2, Zenon
<1>5. InStream("default", ms, Append(d, e), <<>> \o r)
  <2>1. PICK f \in Octets :
           f = Concat(Datas(d)) /\ Concat(Datas(Append(d, e))) = f \o b
    BY <1>4, DatasAppend, Zenon
  <2>2. (f \o b) \o (<<>> \o r) = f \o (b \o r)
    <3>1. Reassociate(f, b, r)
      BY OctetsAssociate, Zenon
    <3>2. <<>> \o r = r
      BY DEF Octets
    <3> QED BY <3>1, <3>2, Zenon DEF Reassociate
  <2>3. f \o (b \o r) = EncodeAll("default", ms)
    BY <2>1, Zenon DEF InStream
  <2> QED BY <2>1, <2>2, <2>3, Zenon DEF InStream
<1>6. ASSUME b = <<>> PROVE AtRest("default", ms, d, <<>>, r)
  BY <1>6, Zenon DEF AtRest
<1> QED BY <1>2, <1>3, <1>4, <1>5, <1>6, Zenon DEF Handled

\* A turn of handlerProtocol's loop with a framing protocol.
LEMMA FramedHandled ==
    ASSUME NEW p \in {"example", "protobuf"}, NEW ms \in Seq(Messages),
           NEW d \in Seq(Events), NEW b \in Octets, NEW r \in Octets, InStream(p, ms, d, b \o r),
           NEW u, u = UnPacket(p, b)
    PROVE  Handled(p, ms, d, b, r, u)
<1>1. p # "default"
  OBVIOUS
<1>2. PICK k \in 0..Len(ms) : Framed(p, ms, d, b \o r, k)
  BY <1>1, Zenon DEF InStream
<1>3. Deals(p, ms, k, b, r)
  BY <1>2, UnPacketDeals, Zenon DEF Framed
<1>4. CASE /\ u = NotYet(b)
           /\ k < Len(ms) /\ ms[k + 1].data # <<>> => Len(b) < Len(Encode(p, ms[k + 1]))
  <2>1. u.ctx = NoCtx /\ u.data = <<>> /\ u.rest = b
    BY <1>4 DEF NotYet
  <2>2. ~Handles(u)
    BY <2>1, Zenon DEF Handles
  <2>3. Short(p, ms, b, k)
    <3>1. k < Len(ms) => k + 1 \in DOMAIN ms
      OBVIOUS
    <3> QED BY <1>4, <3>1, Zenon DEF Short
  <2> QED BY <1>1, <1>2, <2>1, <2>2, <2>3, Zenon DEF Handled, AtRest
<1>5. CASE /\ k < Len(ms)
           /\ u.ctx = IF p = "protobuf" THEN ms[k + 1].type ELSE NoCtx
           /\ u.data = ms[k + 1].data
           /\ u.rest \in Octets
           /\ Enc(p, ms, k + 1) \o (u.rest \o r) = EncodeAll(p, ms)
  <2>1. k + 1 \in 0..Len(ms) /\ k + 1 \in DOMAIN ms /\ ms[k + 1] \in Messages
    BY <1>5
  <2>2. PICK m \in Messages : m = ms[k + 1]
    BY <2>1, Zenon
  <2>3. m.data \in Octets /\ m.type \in Octets /\ m = [type |-> m.type, data |-> m.data]
    BY DEF Messages
  <2>4. Got(p, ms, k + 1) = d \o Gets(p, m)
    BY <1>2, <1>5, <2>2, GotSteps, Zenon DEF Framed
  <2>5. CASE Handles(u)
    <3>1. Gets(p, m) = <<[type |-> u.ctx, data |-> u.data]>>
      <4>1. CASE p = "protobuf"
        BY <1>5, <2>2, <2>3, <4>1, Zenon DEF Gets
      <4>2. CASE p # "protobuf"
        <5>1. u.ctx = NoCtx /\ u.data = m.data
          BY <1>5, <2>2, <4>2, Zenon
        <5>2. m.data # <<>>
          BY <2>5, <5>1, Zenon DEF Handles
        <5> QED BY <4>2, <5>1, <5>2, Zenon DEF Gets
      <4> QED BY <4>1, <4>2, Zenon
    <3>2. PICK e \in Events : e = [type |-> u.ctx, data |-> u.data]
      <4>1. u.ctx \in Seq(Int)
        <5>1. NoCtx \in Seq(Int) /\ m.type \in Seq(Int)
          BY <2>3, SeqMonotonic DEF NoCtx, Octets
        <5> QED BY <1>5, <2>2, <5>1, Zenon
      <4>2. u.data \in Octets
        BY <1>5, <2>2, <2>3, Zenon
      <4> QED BY <4>1, <4>2, Zenon DEF Events
    <3>3. Got(p, ms, k + 1) = Append(d, e)
      <4>1. d \o <<e>> = Append(d, e)
        OBVIOUS
      <4> QED BY <2>4, <3>1, <3>2, <4>1, Zenon
    <3>4. InStream(p, ms, Append(d, e), u.rest \o r)
      BY <1>1, <1>5, <2>1, <3>3, Zenon DEF InStream, Framed
    <3>5. u.data \in Octets
      BY <1>5, <2>2, <2>3, Zenon
    <3> QED BY <1>5, <2>5, <3>2, <3>4, <3>5, Zenon DEF Handled
  <2>6. CASE ~Handles(u)
    <3>1. p # "protobuf"
      <4>1. ASSUME p = "protobuf" PROVE FALSE
        <5>1. u.ctx = m.type /\ u.ctx = NoCtx
          BY <1>5, <2>2, <2>6, <4>1, Zenon DEF Handles
        <5>2. NoCtx \notin Octets
          BY DEF NoCtx, Octets
        <5> QED BY <2>3, <5>1, <5>2, Zenon
      <4> QED BY <4>1, Zenon
    <3>2. m.data = <<>>
      BY <1>5, <2>2, <2>6, Zenon DEF Handles
    <3>3. Got(p, ms, k + 1) = d
      <4>1. d \o <<>> = d
        OBVIOUS
      <4> QED BY <2>4, <3>1, <3>2, <4>1, Zenon DEF Gets
    <3>4. Short(p, ms, u.rest, k + 1)
      BY <2>1, <2>2, <3>2, Zenon DEF Short
    <3>5. AtRest(p, ms, d, u.rest, r)
      BY <1>1, <1>5, <2>1, <3>3, <3>4, Zenon DEF AtRest, Framed
    <3> QED BY <1>5, <2>6, <3>5, Zenon DEF Handled
  <2> QED BY <2>5, <2>6, Zenon
<1> QED BY <1>3, <1>4, <1>5, Zenon DEF Deals

-----------------------------------------------------------------------------
(* readLoop *)

\* readLoop is outside handlerProtocol's loop.
Settled == readPc \in {"empty", "send", "append", "top", "read"}

ReadInv ==
    /\ protocol \in Protocols /\ msgs \in Inputs
    /\ readPc \in {"empty", "top", "read", "protocol", "send", "append", "exited"}
    /\ inbound \in Octets /\ inBuffer \in Octets /\ tmp \in Octets /\ inBufferLen \in Nat
    /\ delivered \in Seq(Events)
    /\ Settled => AtRest(protocol, msgs, delivered, inBuffer, inbound)
    /\ InStream(protocol, msgs, delivered, inBuffer \o inbound)
    /\ readPc \in {"empty", "top", "read"} => inBufferLen = Len(inBuffer)

\* A client's input is a sequence of messages.
LEMMA MsgsType == ASSUME NEW ms \in Inputs PROVE ms \in Seq(Messages)
<1>1. PICK R : R = [type : Octets, data : Octets]
  BY Zenon
<1>2. ms \in Seq(R) /\ \A i \in DOMAIN ms : Fits(ms[i])
  BY <1>1, StreamAssumption, Zenon DEF Octets
<1>3. DOMAIN ms = 1..Len(ms) /\ \A i \in 1..Len(ms) : ms[i] \in R
  BY <1>2
<1>4. \A i \in 1..Len(ms) : ms[i] \in Messages
  BY <1>1, <1>2, <1>3, Zenon DEF Messages
<1> QED BY <1>2, <1>4

\* readLoop starts at the beginning of the stream.
LEMMA ReadInit == ASSUME Init PROVE ReadInv
<1>1. PICK ms \in Seq(Messages) : ms = msgs
  BY MsgsType DEF Init
<1>2. PICK p \in Protocols : p = protocol
  BY DEF Init
<1>3. PICK e \in Octets : e = EncodeAll(p, ms)
  <2>1. 0 \in 0..Len(ms)
    OBVIOUS
  <2> QED BY <2>1, EncSteps, Zenon
<1>4. <<>> \o e = e /\ <<>> \in Octets /\ <<>> \in Seq(Events) /\ 0 \in Nat /\ Len(<<>>) = 0
  BY DEF Octets
<1>5. InStream(p, ms, <<>>, e) /\ AtRest(p, ms, <<>>, <<>>, e)
  <2>1. CASE p = "default"
    <3>1. Datas(<<>>) = <<>>
      BY DEF Datas
    <3> QED BY <1>3, <1>4, <2>1, <3>1, ConcatEmpty, Zenon DEF InStream, AtRest
  <2>2. CASE p # "default"
    <3>1. 0 \in 0..Len(ms)
      OBVIOUS
    <3>2. Framed(p, ms, <<>>, e, 0)
      BY <1>3, <1>4, <3>1, EncSteps, GotSteps, Zenon DEF Framed
    <3>3. Short(p, ms, <<>>, 0)
      <4>1. ASSUME 0 < Len(ms), ms[1].data # <<>> PROVE Len(<<>>) < Len(Encode(p, ms[1]))
        <5>1. PICK m \in Messages : m = ms[1]
          BY <4>1
        <5>2. m.data \in Octets /\ m.type \in Octets
          BY DEF Messages
        <5>3. Len(m.data) > 0 /\ Len(m.data) \in Nat
          BY <4>1, <5>1, <5>2 DEF Octets
        <5>4. ASSUME NEW a \in Octets, NEW b \in Octets, Len(b) > 0 PROVE Len(a \o b) > 0
          BY <5>4 DEF Octets
        <5>5. Len(Packet(p, m.data)) > 0
          <6>1. PICK h \in Octets : h = PutUint(Len(m.data), LengthWidth)
            BY <5>3, WidthAssumption, PutUintType
          <6>2. Len(h \o m.data) > 0
            BY <5>2, <5>3, <5>4, Zenon
          <6> QED BY <5>3, <6>1, <6>2, Zenon DEF Packet
        <5>6. Len(PackMessage(m)) > 0
          <6>1. PICK h, y \in Octets : PackMessage(m) = ((h \o y) \o m.type) \o m.data
            BY PackMessageShape, Zenon
          <6>2. (h \o y) \o m.type \in Octets
            BY <5>2 DEF Octets
          <6> QED BY <5>2, <5>3, <5>4, <6>1, <6>2, Zenon
        <5>7. Len(Encode(p, m)) > 0
          BY <5>5, <5>6, Zenon DEF Encode
        <5> QED BY <1>4, <5>1, <5>7
      <4>2. 0 + 1 = 1 /\ (0 < Len(ms) => 1 \in DOMAIN ms)
        OBVIOUS
      <4> QED BY <4>1, <4>2, Zenon DEF Short
    <3> QED BY <1>4, <2>2, <3>1, <3>2, <3>3, Zenon DEF InStream, AtRest
  <2> QED BY <2>1, <2>2, Zenon
<1>6. /\ protocol \in Protocols /\ msgs \in Inputs /\ inbound = e
      /\ readPc = "empty" /\ inBuffer = <<>> /\ inBufferLen = 0 /\ tmp = <<>>
      /\ delivered = <<>>
  BY <1>1, <1>2, <1>3, Zenon DEF Init
<1> QED BY <1>1, <1>2, <1>3, <1>4, <1>5, <1>6, Zenon DEF ReadInv, Settled

\* Only readLoop's own steps change what ReadInv is about.
LEMMA ReadKept ==
    ASSUME ReadInv, UNCHANGED <<protocol, msgs, readVars>>
    PROVE  ReadInv'
BY Zenon DEF ReadInv, Settled, readVars

\* Steps of readLoop that leave the buffers alone.
LEMMA ReadMoves ==
    ASSUME ReadInv, UNCHANGED <<protocol, msgs, inbound, inBuffer, delivered>>,
           readPc' \in {"top", "read", "append", "exited"}, Settled,
           tmp' \in Octets, inBufferLen' \in Nat,
           readPc' \in {"top", "read"} => inBufferLen' = Len(inBuffer)
    PROVE  ReadInv'
<1>1. AtRest(protocol, msgs, delivered, inBuffer, inbound)
  BY Zenon DEF ReadInv
<1>2. readPc' # "empty"
  OBVIOUS
<1> QED BY <1>1, <1>2 DEF ReadInv

\* readLoop's steps preserve ReadInv.
LEMMA ReadStepKeeps ==
    ASSUME ReadInv, ReadStep
    PROVE  ReadInv'
<1>0. protocol' = protocol /\ msgs' = msgs
  BY DEF ReadStep, streamVars
<1>1. CASE ReadEmpty \/ ReadTop
  BY <1>0, <1>1, ReadMoves DEF ReadEmpty, ReadTop, ReadInv, Settled
<1>2. CASE Read
  <2>1. PICK n \in 1..Len(inbound) : /\ inbound' = Retrieve(inbound, n)
                                    /\ inBuffer' = inBuffer \o Peek(inbound, n)
    BY <1>2 DEF Read
  <2>2. n \in 0..Len(inbound)
    BY <2>1 DEF ReadInv, Octets
  <2>3. /\ inbound' \in Octets /\ inBuffer' \in Octets
        /\ inBuffer' \o inbound' = inBuffer \o inbound
    BY <2>1, <2>2, ReadInStream, Zenon DEF ReadInv
  <2>4. InStream(protocol, msgs, delivered, inBuffer \o inbound)
    BY Zenon DEF ReadInv
  <2>5. readPc' = "protocol" /\ UNCHANGED <<inBufferLen, tmp, delivered>>
    BY <1>2 DEF Read
  <2>6. ~Settled' /\ readPc' \notin {"empty", "top", "read"}
    BY <2>5 DEF Settled
  <2>7. InStream(protocol', msgs', delivered', inBuffer' \o inbound')
    BY <1>0, <2>3, <2>4, <2>5, Zenon
  <2>8. readPc' \in {"empty", "top", "read", "protocol", "send", "append", "exited"}
    BY <2>5
  <2> QED BY <1>0, <2>3, <2>5, <2>6, <2>7, <2>8, Zenon DEF ReadInv
<1>3. CASE ReadError
  BY <1>0, <1>3, ReadMoves DEF ReadError, ReadInv, Settled
<1>4. CASE handlerProtocol
  <2>1. PICK u : u = UnPacket(protocol, inBuffer)
    OBVIOUS
  <2>2. Handled(protocol, msgs, delivered, inBuffer, inbound, u)
    <3>1. /\ msgs \in Seq(Messages) /\ delivered \in Seq(Events)
          /\ inBuffer \in Octets /\ inbound \in Octets
          /\ InStream(protocol, msgs, delivered, inBuffer \o inbound)
      BY MsgsType, Zenon DEF ReadInv
    <3>2. protocol = "default" \/ protocol \in {"example", "protobuf"}
      BY DEF ReadInv, Protocols
    <3> QED BY <2>1, <3>1, <3>2, DefaultHandled, FramedHandled, Zenon
  <2>3. inBuffer' = u.rest /\ UNCHANGED <<inbound, inBufferLen>>
    BY <1>4, <2>1 DEF handlerProtocol
  <2>4. CASE Handles(u)
    <3>1. /\ delivered' = Append(delivered, [type |-> u.ctx, data |-> u.data])
          /\ tmp' = tmp \/ tmp' = tmp \o Packet(protocol, u.data)
          /\ readPc' = readPc /\ readPc = "protocol"
      BY <1>4, <2>1, <2>4 DEF handlerProtocol
    <3>2. PICK e \in Events : e = [type |-> u.ctx, data |-> u.data]
      BY <2>2, <2>4, Zenon DEF Handled
    <3>3. delivered' \in Seq(Events)
      BY <3>1, <3>2 DEF ReadInv
    <3>4. tmp' \in Octets
      <4>1. PICK y \in Octets : y = Packet(protocol, u.data)
        BY <2>2, <2>4, PacketType, Zenon DEF Handled
      <4>2. tmp \o y \in Octets
        BY DEF ReadInv, Octets
      <4> QED BY <3>1, <4>1, <4>2, Zenon DEF ReadInv
    <3>5. /\ InStream(protocol', msgs', delivered', inBuffer' \o inbound')
          /\ inBuffer' \in Octets
      BY <1>0, <2>2, <2>3, <2>4, <3>1, Zenon DEF Handled
    <3>6. ~Settled' /\ readPc' \notin {"empty", "top", "read"}
      BY <3>1 DEF Settled
    <3> QED BY <1>0, <2>3, <3>1, <3>3, <3>4, <3>5, <3>6, Zenon DEF ReadInv
  <2>5. CASE ~Handles(u)
    <3>1. readPc' = "send" /\ UNCHANGED <<delivered, tmp>>
      BY <1>4, <2>1, <2>5 DEF handlerProtocol
    <3>2. AtRest(protocol', msgs', delivered', inBuffer', inbound') /\ inBuffer' \in Octets
      BY <1>0, <2>2, <2>3, <2>5, <3>1, Zenon DEF Handled
    <3>3. InStream(protocol', msgs', delivered', inBuffer' \o inbound')
      BY <3>2, RestInStream, Zenon
    <3>4. readPc' \notin {"empty", "top", "read"}
          /\ readPc' \in {"empty", "top", "read", "protocol", "send", "append", "exited"}
      BY <3>1
    <3> QED BY <1>0, <2>3, <3>1, <3>2, <3>3, <3>4, Zenon DEF ReadInv
  <2> QED BY <2>4, <2>5, Zenon
<1>5. CASE ReadSend \/ ReadAppend
  <2>1. /\ Settled /\ Len(inBuffer) \in Nat /\ <<>> \in Octets
        /\ tmp \in Octets /\ inBufferLen \in Nat
    BY <1>5 DEF ReadSend, ReadAppend, Settled, ReadInv, Octets
  <2>2. UNCHANGED <<inbound, inBuffer, delivered>>
    BY <1>5 DEF ReadSend, ReadAppend
  <2>3. \/ readPc' = "append" /\ tmp' = tmp /\ inBufferLen' = inBufferLen
        \/ readPc' = "top" /\ tmp' = <<>> /\ inBufferLen' = Len(inBuffer)
    BY <1>5 DEF ReadSend, ReadAppend, ReadDone
  <2> QED BY <1>0, <2>1, <2>2, <2>3, ReadMoves
<1> QED BY <1>1, <1>2, <1>3, <1>4, <1>5, Zenon DEF ReadStep

\* ReadInv gives what OnMessage gets ...
LEMMA ReadIntact == ASSUME ReadInv PROVE InputIntact
<1>1. PICK ms \in Seq(Messages) : ms = msgs
  BY MsgsType DEF ReadInv
<1>2. PICK x \in Octets : x = inBuffer \o inbound
  <2>1. inBuffer \o inbound \in Octets
    BY DEF ReadInv, Octets
  <2> QED BY <2>1, Zenon
<1>3. CASE protocol = "default"
  <2>1. PICK f \in Octets : f = Concat(Datas(delivered))
    <3>1. Datas(delivered) \in Seq(Octets)
      <4>1. \A e \in Events : e.data \in Octets
        BY DEF Events
      <4>2. \A i \in 1..Len(delivered) : delivered[i].data \in Octets
        BY <4>1 DEF ReadInv
      <4> QED BY <4>2 DEF Datas, ReadInv
    <3> QED BY <3>1, ConcatType, Zenon DEF Octets
  <2>2. f \o x = EncodeAll(protocol, msgs)
    BY <1>2, <1>3, <2>1, Zenon DEF ReadInv, InStream
  <2>3. IsPrefix(f, f \o x)
    BY PrefixConcat, Zenon DEF Octets
  <2> QED BY <1>3, <2>1, <2>2, <2>3, Zenon DEF InputIntact, Datas
<1>4. CASE protocol # "default"
  <2>1. PICK k \in 0..Len(ms) : delivered = Got(protocol, ms, k)
    BY <1>1, <1>4, Zenon DEF ReadInv, InStream, Framed
  <2>2. PICK t \in Seq(Events) : Concat(Items(protocol, ms)) = delivered \o t
    BY <2>1, GotSteps, Zenon
  <2>3. Expected = delivered \o t
    BY <1>1, <2>2, Zenon DEF Expected, Items
  <2>4. delivered \in Seq(Events)
    BY Zenon DEF ReadInv
  <2>5. IsPrefix(delivered, delivered \o t)
    BY <2>4, PrefixConcat, Zenon
  <2> QED BY <1>4, <2>3, <2>5, Zenon DEF InputIntact
<1> QED BY <1>3, <1>4, Zenon

\* Encoding the first j messages, and cutting the encoding of all.
LEMMA EncodeFirst ==
    ASSUME NEW p, NEW ms \in Seq(Messages), NEW j \in 0..Len(ms)
    PROVE  EncodeAll(p, SubSeq(ms, 1, j)) = Enc(p, ms, j)
<1>1. PICK s : s = SubSeq(ms, 1, j)
  BY Zenon
<1>2. s \in Seq(Messages) /\ Len(s) = j /\ DOMAIN s = 1..j /\ \A i \in 1..j : s[i] = ms[i]
  BY <1>1
<1>3. Encodings(p, ms) \in Seq(Octets) /\ Len(Encodings(p, ms)) = Len(ms)
      /\ \A i \in 1..Len(ms) : Encodings(p, ms)[i] = Encode(p, ms[i])
  BY EncodingsType, Zenon
<1>4. Encodings(p, s) \in Seq(Octets) /\ Len(Encodings(p, s)) = j
      /\ \A i \in 1..j : Encodings(p, s)[i] = Encode(p, s[i])
  BY <1>2, EncodingsType, Zenon
<1>5. PICK e, f \in Seq(Octets) : e = Encodings(p, ms) /\ f = Encodings(p, s)
  BY <1>3, <1>4, Zenon
<1>6. ASSUME NEW i \in 1..j PROVE f[i] = e[i]
  <2>1. i \in 1..Len(ms)
    OBVIOUS
  <2> QED BY <1>2, <1>3, <1>4, <1>5, <2>1, Zenon
<1>7. Len(f) = j /\ Len(e) = Len(ms)
  BY <1>3, <1>4, <1>5, Zenon
<1>8. SubSeq(e, 1, j) = f
  <2>1. SubSeq(e, 1, j) \in Seq(Octets) /\ Len(SubSeq(e, 1, j)) = j
        /\ \A i \in 1..j : SubSeq(e, 1, j)[i] = e[i]
    BY <1>7
  <2>2. \A i \in 1..j : SubSeq(e, 1, j)[i] = f[i]
    BY <1>6, <2>1, Zenon
  <2> QED BY <1>7, <2>1, <2>2, SeqEqual, Zenon
<1> QED BY <1>1, <1>5, <1>8, Zenon DEF EncodeAll, Enc, Encodings

\* ... and that no message waits.
LEMMA ReadBacklog == ASSUME ReadInv PROVE NoBacklog
<1> SUFFICES ASSUME readPc = "read", \A i \in DOMAIN msgs : msgs[i].data # <<>>
             PROVE  LET received == Len(EncodeAll(protocol, msgs)) - Len(inbound)
                    IN  IF protocol = "default" THEN inBuffer = <<>>
                        ELSE \A k \in DOMAIN msgs :
                                Len(EncodeAll(protocol, SubSeq(msgs, 1, k))) <= received
                                    => Len(delivered) >= k
  BY Zenon DEF NoBacklog
<1>1. AtRest(protocol, msgs, delivered, inBuffer, inbound)
  BY DEF ReadInv, Settled
<1>2. CASE protocol = "default"
  BY <1>1, <1>2, Zenon DEF AtRest
<1>3. CASE protocol # "default"
  <2>1. PICK ms \in Seq(Messages) : ms = msgs
    BY MsgsType DEF ReadInv
  <2>2. PICK p : p = protocol
    OBVIOUS
  <2>3. PICK n \in 0..Len(ms) : Framed(p, ms, delivered, inBuffer \o inbound, n)
                                /\ Short(p, ms, inBuffer, n)
    BY <1>1, <1>3, <2>1, <2>2, Zenon DEF AtRest
  <2>4. PICK a \in Octets : a = Enc(p, ms, n)
    BY EncSteps, Zenon
  <2>5. /\ Len(a) \in Nat /\ Len(inBuffer) \in Nat /\ Len(inbound) \in Nat
        /\ Len(EncodeAll(p, ms)) = Len(a) + (Len(inBuffer) + Len(inbound))
    <3>1. inBuffer \in Octets /\ inbound \in Octets
      BY Zenon DEF ReadInv
    <3>2. EncodeAll(p, ms) = a \o (inBuffer \o inbound)
      BY <2>3, <2>4, Zenon DEF Framed
    <3>3. Len(a \o (inBuffer \o inbound)) = Len(a) + (Len(inBuffer) + Len(inbound))
      BY <3>1 DEF Octets
    <3> QED BY <3>1, <3>2, <3>3 DEF Octets
  <2>6. Len(delivered) = n
    <3>1. PICK q \in Seq(Seq(Events)) :
             /\ q = Items(p, ms) /\ Len(q) = Len(ms)
             /\ \A i \in 1..Len(ms) : q[i] = Gets(p, ms[i])
      BY ItemsType, Zenon
    <3>2. ASSUME NEW i \in 1..Len(q) PROVE Len(q[i]) = 1
      <4>1. i \in 1..Len(ms) /\ i \in DOMAIN ms
        BY <3>1
      <4>2. Gets(p, ms[i]) = <<ms[i]>>
            \/ Gets(p, ms[i]) = <<[type |-> NoCtx, data |-> ms[i].data]>>
        BY <2>1, <4>1, Zenon DEF Gets
      <4>3. \A e : Len(<<e>>) = 1
        OBVIOUS
      <4> QED BY <3>1, <4>1, <4>2, <4>3, Zenon
    <3>3. n \in 0..Len(q)
      BY <3>1
    <3>4. Len(Concat(SubSeq(q, 1, n))) = n
      BY <3>2, <3>3, PreLen, Zenon
    <3> QED BY <2>3, <3>1, <3>4, Zenon DEF Framed, Got
  <2>7. ASSUME NEW k \in DOMAIN msgs,
               Len(EncodeAll(protocol, SubSeq(msgs, 1, k)))
                   <= Len(EncodeAll(protocol, msgs)) - Len(inbound)
        PROVE  Len(delivered) >= k
    <3>1. k \in 1..Len(ms) /\ k \in 0..Len(ms)
      BY <2>1
    <3>2. EncodeAll(protocol, SubSeq(msgs, 1, k)) = Enc(p, ms, k)
      BY <2>1, <2>2, <3>1, EncodeFirst, Zenon
    <3>3. Len(Enc(p, ms, k)) <= Len(a) + Len(inBuffer)
      BY <2>1, <2>2, <2>5, <2>7, <3>2
    <3>4. ASSUME n < k PROVE FALSE
      <4>1. n < Len(ms) /\ n + 1 \in 0..k /\ n + 1 \in 1..Len(ms)
        BY <3>1, <3>4
      <4>2. PICK e \in Octets : e = Encode(p, ms[n + 1])
        <5>1. ms[n + 1] \in Messages
          BY <4>1
        <5> QED BY <5>1, EncodeType, Zenon
      <4>3. Len(inBuffer) < Len(e)
        BY <2>1, <2>3, <4>1, <4>2, Zenon DEF Short
      <4>4. Enc(p, ms, n + 1) = a \o e
        BY <2>4, <4>1, <4>2, EncSteps, Zenon
      <4>5. Len(Enc(p, ms, n + 1)) <= Len(Enc(p, ms, k))
        <5>1. PICK q \in Seq(Octets) : q = Encodings(p, ms) /\ Len(q) = Len(ms)
          BY EncodingsType, Zenon
        <5>2. k \in 0..Len(q)
          BY <3>1, <5>1
        <5> QED BY <4>1, <5>1, <5>2, PreMono, Zenon DEF Enc, Octets
      <4>6. Len(a \o e) = Len(a) + Len(e) /\ Len(e) \in Nat
        BY DEF Octets
      <4>7. PICK l \in Nat : l = Len(Enc(p, ms, k))
        <5>1. PICK g \in Octets : g = Enc(p, ms, k)
          BY <3>1, EncSteps, Zenon
        <5> QED BY <5>1 DEF Octets
      <4> QED BY <2>5, <3>3, <4>3, <4>4, <4>5, <4>6, <4>7, SMTT(30)
    <3>5. k \in Nat
      BY <3>1
    <3> QED BY <2>6, <3>4, <3>5
  <2> QED BY <1>3, <2>7, Zenon
<1> QED BY <1>2, <1>3, Zenon

-----------------------------------------------------------------------------
(* writeLoop *)

\* What the closures of a queue send when they run.
Packed(p, q) == Concat([i \in DOMAIN q |-> Packet(p, q[i])])

\* It is a sequence of bytes, and an empty queue sends nothing.
LEMMA PackedType ==
    ASSUME NEW p, NEW q \in Seq(Octets)
    PROVE  Packed(p, q) \in Octets /\ Packed(p, <<>>) = <<>>
<1>1. \A i \in 1..Len(q) : q[i] \in Octets
  OBVIOUS
<1>2. \A i \in 1..Len(q) : Packet(p, q[i]) \in Octets
  BY <1>1, PacketType, Zenon
<1>3. [i \in DOMAIN q |-> Packet(p, q[i])] \in Seq(Octets)
  BY <1>2
<1>4. [i \in DOMAIN <<>> |-> Packet(p, <<>>[i])] = <<>>
  OBVIOUS
<1> QED BY <1>3, <1>4, ConcatType, ConcatEmpty, Zenon DEF Packed, Octets

\* A closure added to the queue sends last.
LEMMA PackedAppend ==
    ASSUME NEW p, NEW q \in Seq(Octets), NEW y \in Octets
    PROVE  Packed(p, Append(q, y)) = Packed(p, q) \o Packet(p, y)
<1> DEFINE f == [i \in DOMAIN q |-> Packet(p, q[i])]
           g == [i \in DOMAIN Append(q, y) |-> Packet(p, Append(q, y)[i])]
<1>1. \A i \in 1..Len(q) : q[i] \in Octets
  OBVIOUS
<1>2. (\A i \in 1..Len(q) : Packet(p, q[i]) \in Octets) /\ Packet(p, y) \in Octets
  BY <1>1, PacketType, Zenon
<1>3. f \in Seq(Octets)
  BY <1>2
<1>4. g = Append(f, Packet(p, y))
  BY <1>2
<1>5. Concat(Append(f, Packet(p, y))) = Concat(f) \o Packet(p, y)
  <2> HIDE DEF f
  <2> QED BY <1>2, <1>3, ConcatAppend, Zenon DEF Octets
<1> QED BY <1>4, <1>5, Zenon DEF Packed

\* The closure at the head of the queue sends first.
LEMMA PackedTail ==
    ASSUME NEW p, NEW q \in Seq(Octets), q # <<>>
    PROVE  /\ Head(q) \in Octets /\ Tail(q) \in Seq(Octets)
           /\ Packed(p, q) = Packet(p, Head(q)) \o Packed(p, Tail(q))
<1> DEFINE f == [i \in DOMAIN q |-> Packet(p, q[i])]
           g == [i \in DOMAIN Tail(q) |-> Packet(p, Tail(q)[i])]
<1>1. (\A i \in 1..Len(q) : q[i] \in Octets) /\ Head(q) \in Octets /\ Tail(q) \in Seq(Octets)
  OBVIOUS
<1>2. \A i \in 1..Len(q) : Packet(p, q[i]) \in Octets
  BY <1>1, PacketType, Zenon
<1>3. f \in Seq(Octets) /\ Len(f) = Len(q)
  BY <1>2
<1>4. f # <<>> /\ Head(f) = Packet(p, Head(q)) /\ Tail(f) = g
  <2>1. f # <<>> /\ Head(f) = Packet(p, Head(q))
    BY <1>2
  <2>2. Tail(f) = g
    BY <1>1, <1>2
  <2> QED BY <2>1, <2>2
<1>5. Concat(f) = Head(f) \o Concat(Tail(f))
  <2> HIDE DEF f
  <2> QED BY <1>3, <1>4, ConcatTail, Zenon DEF Octets
<1> QED BY <1>1, <1>4, <1>5, Zenon DEF Packed

\* Bytes may be regrouped: what is submitted goes to the end of the queue, and
\* what is taken off the queue to the end of the buffer.
Regrouped(s, o, y, z, w) ==
    /\ ((s \o o) \o (z \o w)) \o y = (s \o o) \o (z \o (w \o y))
    /\ (s \o o) \o ((y \o z) \o w) = (s \o (o \o y)) \o (z \o w)
    /\ (s \o o) \o y = s \o (o \o y)
    /\ s \o <<>> = s /\ <<>> \o s = s /\ <<>> \in Octets
    /\ s \o o \in Octets /\ z \o w \in Octets /\ y \o z \in Octets /\ o \o y \in Octets

\* This holds of all bytes.
LEMMA Regroup ==
    ASSUME NEW s \in Octets, NEW o \in Octets, NEW y \in Octets, NEW z \in Octets,
           NEW w \in Octets
    PROVE  Regrouped(s, o, y, z, w)
<1>1. \A a, b \in Octets : a \o b \in Octets
  BY DEF Octets
<1>3. PICK so, zw, yz, oy \in Octets :
         so = s \o o /\ zw = z \o w /\ yz = y \o z /\ oy = o \o y
  BY <1>1, Zenon
<1>4. /\ Reassociate(so, zw, y) /\ Reassociate(z, w, y) /\ Reassociate(y, z, w)
      /\ Reassociate(so, y, zw) /\ Reassociate(s, o, y)
  BY OctetsAssociate, Zenon
<1>5. /\ (so \o zw) \o y = so \o (zw \o y) /\ (z \o w) \o y = z \o (w \o y)
      /\ (y \o z) \o w = y \o (z \o w) /\ (so \o y) \o zw = so \o (y \o zw)
      /\ (s \o o) \o y = s \o (o \o y)
  BY <1>4, Zenon DEF Reassociate
<1>6. s \o <<>> = s /\ <<>> \o s = s /\ <<>> \in Octets
  BY DEF Octets
<1>7. so \o (yz \o w) = (s \o oy) \o zw
  BY <1>3, <1>5, Zenon
<1>8. (so \o zw) \o y = so \o (z \o (w \o y))
  BY <1>3, <1>5, Zenon
<1> QED BY <1>3, <1>5, <1>6, <1>7, <1>8, Zenon DEF Regrouped

\* Nothing that Send has taken is lost.
Whole ==
    submitted = (sent \o outBuffer) \o (Packed(protocol, taskQueueR)
                                            \o Packed(protocol, taskQueueW))

\* No write of writeLoop's has failed, and nobody has closed the connection.
Live == connected /\ closePc[Writer] \notin {"dying", "flag"}

WriteTypes ==
    /\ writePc \in {"top", "swap", "run", "send", "first", "end", "exited"}
    /\ outBuffer \in Octets /\ sent \in Octets /\ submitted \in Octets
    /\ taskQueueW \in Seq(Octets) /\ taskQueueR \in Seq(Octets)
    /\ outBufferLen \in Nat /\ peeked \in Nat

\* What the point writeLoop has reached says of its queue and its buffer.
WritePcs ==
    /\ writePc \notin {"run", "send"} => taskQueueR = <<>>
    /\ writePc = "send" => taskQueueR # <<>>
    /\ writePc \notin {"first", "end"} => peeked = 0
    /\ writePc = "first" => peeked \in 1..Len(outBuffer)
    /\ writePc = "end" => peeked = Len(outBuffer)
    /\ writePc \in {"top", "swap"} => outBufferLen = Len(outBuffer)
    /\ writePc \in {"run", "send"} /\ outBuffer = <<>> => outBufferLen = 0

\* Closures that run on a closed connection are lost, and so is the rest of a
\* write that fails; what goes out before and after that is still in order.
Ordered ==
    /\ IsPrefix(sent, submitted)
    /\ writePc # "exited" => IsPrefix(sent \o outBuffer, submitted)
    /\ Live \/ writePc = "send" => Whole

WriteInv == WriteTypes /\ WritePcs /\ Ordered

RestInv ==
    /\ CloseTypeOK
    /\ peer \in {"open", "closed", "reset"}
    /\ userPc \in [Users -> {"idle", "append", "done"}]

\* Nothing has been submitted when writeLoop starts.
LEMMA WriteInit == ASSUME Init PROVE WriteInv
<1>1. <<>> \in Octets /\ <<>> \in Seq(Octets) /\ Len(<<>>) = 0 /\ <<>> \o <<>> = <<>>
  BY DEF Octets
<1>2. IsPrefix(<<>>, <<>>)
  BY DEF IsPrefix
<1>3. Packed(protocol, <<>>) = <<>>
  BY <1>1, PackedType, Zenon
<1>4. /\ writePc = "top" /\ taskQueueW = <<>> /\ taskQueueR = <<>> /\ outBuffer = <<>>
      /\ outBufferLen = 0 /\ peeked = 0 /\ sent = <<>> /\ submitted = <<>>
  BY DEF Init
<1>5. Ordered
  BY <1>1, <1>2, <1>3, <1>4, Zenon DEF Ordered, Whole
<1> QED BY <1>1, <1>4, <1>5 DEF WriteInv, WriteTypes, WritePcs

\* What has been sent, and what the buffer holds, come first in what is whole.
Comes(s, o, z, w) ==
    /\ IsPrefix(s, (s \o o) \o (z \o w)) /\ IsPrefix(s \o o, (s \o o) \o (z \o w))

\* This holds of all bytes.
LEMMA ComesFirst ==
    ASSUME NEW s \in Octets, NEW o \in Octets, NEW z \in Octets, NEW w \in Octets
    PROVE  Comes(s, o, z, w)
<1>0. PICK so, zw \in Octets : so = s \o o /\ zw = z \o w
  BY OctetsJoin, Zenon
<1>1. PICK u \in Octets : u = so \o zw
  BY OctetsJoin, Zenon
<1>2. IsPrefix(so, so \o zw)
  BY PrefixConcat, Zenon DEF Octets
<1>3. IsPrefix(s, u)
  BY <1>0, <1>1, <1>2, PrefixShorter, Zenon DEF Octets
<1> QED BY <1>0, <1>1, <1>2, <1>3, Zenon DEF Comes

\* A write of n bytes of o moves them from the buffer to the other end; what
\* is sent is still first in what was submitted.
Flushed(s, o, n, u) ==
    /\ s \o Peek(o, n) \in Octets /\ Retrieve(o, n) \in Octets /\ s \o o \in Octets
    /\ (s \o Peek(o, n)) \o Retrieve(o, n) = s \o o
    /\ IsPrefix(s \o o, u) => IsPrefix(s \o Peek(o, n), u)

\* This holds of every write of a part of a buffer.
LEMMA Flushes ==
    ASSUME NEW s \in Octets, NEW o \in Octets, NEW n \in 0..Len(o), NEW u \in Octets
    PROVE  Flushed(s, o, n, u)
<1>1. PICK a, b \in Octets : a = Peek(o, n) /\ b = Retrieve(o, n) /\ a \o b = o
  BY PeekRetrieve, Zenon
<1>2. PICK sa \in Octets : sa = s \o a
  BY OctetsJoin, Zenon
<1>3. s \o o \in Octets
  BY OctetsJoin, Zenon
<1>4. Reassociate(s, a, b)
  BY OctetsAssociate, Zenon
<1>5. sa \o b = s \o o
  BY <1>1, <1>2, <1>4, Zenon DEF Reassociate
<1>6. IsPrefix(sa \o b, u) => IsPrefix(sa, u)
  BY PrefixShorter, Zenon DEF Octets
<1> QED BY <1>1, <1>2, <1>3, <1>5, <1>6, Zenon DEF Flushed

\* Steps of writeLoop that move bytes along and lose none.
LEMMA OrderedMoves ==
    ASSUME WriteTypes, WriteTypes', Ordered, submitted' = submitted,
           writePc # "exited", sent' \o outBuffer' = sent \o outBuffer,
           Packed(protocol', taskQueueR') \o Packed(protocol', taskQueueW')
              = Packed(protocol, taskQueueR) \o Packed(protocol, taskQueueW),
           Live' \/ writePc' = "send" => Live \/ writePc = "send"
    PROVE  Ordered'
<1>1. IsPrefix(sent' \o outBuffer', submitted')
  BY Zenon DEF Ordered
<1>2. IsPrefix(sent', submitted')
  BY <1>1, PrefixShorter, Zenon DEF Octets, WriteTypes
<1>3. Live' \/ writePc' = "send" => Whole'
  BY Zenon DEF Ordered, Whole
<1> QED BY <1>1, <1>2, <1>3, Zenon DEF Ordered

\* Steps that leave the output alone.
LEMMA WriteKept ==
    ASSUME WriteInv, UNCHANGED <<protocol, writeVars, sendVars>>, Live' => Live
    PROVE  WriteInv'
<1>1. UNCHANGED <<writePc, taskQueueR, outBuffer, outBufferLen, peeked, sent,
                  taskQueueW, submitted>>
  BY DEF writeVars, sendVars
<1>2. WriteTypes' /\ WritePcs'
  BY <1>1 DEF WriteInv, WriteTypes, WritePcs
<1>3. Whole' <=> Whole
  BY <1>1, Zenon DEF Whole
<1>4. Ordered'
  BY <1>1, <1>3, Zenon DEF WriteInv, Ordered
<1> QED BY <1>2, <1>4, Zenon DEF WriteInv

\* Send's append.
LEMMA WriteSubmit ==
    ASSUME WriteInv, UNCHANGED <<protocol, writeVars, connected, closePc>>,
           NEW d \in Octets, SendAppend(d)
    PROVE  WriteInv'
<1>1. /\ UNCHANGED <<writePc, taskQueueR, outBuffer, outBufferLen, peeked, sent>>
      /\ taskQueueW' = Append(taskQueueW, d)
      /\ submitted' = submitted \o Packet(protocol, d)
  BY DEF writeVars, SendAppend
<1>2. PICK y \in Octets : y = Packet(protocol, d)
  BY PacketType, Zenon
<1>3. /\ outBuffer \in Octets /\ sent \in Octets /\ submitted \in Octets
      /\ taskQueueW \in Seq(Octets) /\ taskQueueR \in Seq(Octets)
      /\ sent \o outBuffer \in Octets
  <2>1. \A a, b \in Octets : a \o b \in Octets
    BY DEF Octets
  <2> QED BY <2>1, Zenon DEF WriteInv, WriteTypes
<1>4. submitted' \in Octets /\ taskQueueW' \in Seq(Octets)
  <2>1. submitted \o y \in Octets
    BY <1>3 DEF Octets
  <2>2. Append(taskQueueW, d) \in Seq(Octets)
    BY <1>3
  <2> QED BY <1>1, <1>2, <2>1, <2>2, Zenon
<1>5. WriteTypes' /\ WritePcs'
  BY <1>1, <1>4 DEF WriteInv, WriteTypes, WritePcs
<1>6. \A x \in Octets : IsPrefix(x, submitted) => IsPrefix(x, submitted')
  BY <1>1, <1>2, <1>3, PrefixLonger, Zenon DEF Octets
<1>7. ASSUME Whole PROVE Whole'
  <2>1. PICK z, w \in Octets :
           z = Packed(protocol, taskQueueR) /\ w = Packed(protocol, taskQueueW)
    BY <1>3, PackedType, Zenon
  <2>2. Packed(protocol, taskQueueW') = w \o y
    BY <1>1, <1>2, <1>3, <2>1, PackedAppend, Zenon
  <2>3. submitted = (sent \o outBuffer) \o (z \o w)
    BY <1>7, <2>1, Zenon DEF Whole
  <2>4. ((sent \o outBuffer) \o (z \o w)) \o y = (sent \o outBuffer) \o (z \o (w \o y))
    <3>1. Regrouped(sent, outBuffer, y, z, w)
      BY <1>3, Regroup, Zenon
    <3> QED BY <3>1, Zenon DEF Regrouped
  <2> QED BY <1>1, <1>2, <2>1, <2>2, <2>3, <2>4, Zenon DEF Whole
<1>8. Live' <=> Live
  BY Zenon DEF Live
<1>9. Ordered'
  BY <1>1, <1>3, <1>6, <1>7, <1>8, Zenon DEF WriteInv, Ordered
<1> QED BY <1>5, <1>9, Zenon DEF WriteInv

\* What a step of writeLoop does to Live.
LEMMA WriterClosing ==
    ASSUME RestInv, closePc[Writer] = "no", connected' = connected,
           Enter(Writer) \/ closePc' = closePc
    PROVE  /\ Enter(Writer) => ~Live'
           /\ closePc' = closePc => (Live' <=> connected) /\ (Live <=> connected)
<1>1. /\ closePc \in [Closers -> {"no", "dying", "flag", "onClose", "conn"}]
      /\ Writer \in Closers
  BY ClosersAssumption DEF RestInv, CloseTypeOK
<1>2. ASSUME Enter(Writer) PROVE ~Live'
  <2>1. closePc'[Writer] = IF connected THEN "dying" ELSE "no"
    BY <1>1, <1>2 DEF Enter
  <2> QED BY <2>1 DEF Live
<1>3. ASSUME closePc' = closePc PROVE (Live' <=> connected) /\ (Live <=> connected)
  BY <1>3 DEF Live
<1> QED BY <1>2, <1>3, Zenon

\* The closure at the head of the queue writes, or queues behind what waits.
LEMMA SendInLoopKeeps ==
    ASSUME WriteInv, RestInv, WriteStep, sendInLoop
    PROVE  WriteInv'
<1>0. /\ protocol' = protocol /\ connected' = connected /\ submitted' = submitted
      /\ closePc[Writer] = "no" /\ writePc = "send" /\ writePc' = "run"
      /\ taskQueueR' = Tail(taskQueueR) /\ UNCHANGED <<taskQueueW, outBufferLen, peeked>>
  BY DEF WriteStep, streamVars, sendInLoop
<1>1. /\ outBuffer \in Octets /\ sent \in Octets /\ submitted \in Octets
      /\ taskQueueW \in Seq(Octets) /\ taskQueueR \in Seq(Octets) /\ taskQueueR # <<>>
      /\ outBufferLen \in Nat /\ peeked = 0
      /\ Whole /\ (outBuffer = <<>> => outBufferLen = 0)
  BY <1>0 DEF WriteInv, WriteTypes, WritePcs, Ordered
<1>2. PICK y \in Octets : y = Packet(protocol, Head(taskQueueR))
  BY <1>1, PackedTail, PacketType, Zenon
<1>3. PICK z, w \in Octets :
         z = Packed(protocol, Tail(taskQueueR)) /\ w = Packed(protocol, taskQueueW)
  BY <1>1, PackedTail, PackedType, Zenon
<1>4. Tail(taskQueueR) \in Seq(Octets) /\ Packed(protocol, taskQueueR) = y \o z
  BY <1>1, <1>2, <1>3, PackedTail, Zenon
<1>5. submitted = (sent \o outBuffer) \o ((y \o z) \o w)
  BY <1>1, <1>3, <1>4, Zenon DEF Whole
<1>6. Regrouped(sent, outBuffer, y, z, w)
  BY <1>1, Regroup, Zenon
<1>7. submitted = (sent \o (outBuffer \o y)) \o (z \o w)
  BY <1>5, <1>6, Zenon DEF Regrouped
<1>8. Live' => Live
  <2>1. Enter(Writer) \/ closePc' = closePc
    BY DEF sendInLoop
  <2> QED BY <1>0, <2>1, WriterClosing, Zenon
<1>9. ASSUME sent' \in Octets, outBuffer' \in Octets,
             outBuffer' = <<>> => outBuffer = <<>>,
             sent' \o outBuffer' = sent \o (outBuffer \o y)
      PROVE  WriteInv'
  <2>1. submitted' = (sent' \o outBuffer') \o (z \o w)
    BY <1>0, <1>7, <1>9, Zenon
  <2>2. Whole'
    BY <1>0, <1>3, <2>1, Zenon DEF Whole
  <2>3. Comes(sent', outBuffer', z, w)
    BY <1>9, ComesFirst, Zenon
  <2>4. Ordered'
    BY <2>1, <2>2, <2>3, Zenon DEF Ordered, Comes
  <2>5. WriteTypes' /\ WritePcs'
    BY <1>0, <1>1, <1>4, <1>9 DEF WriteTypes, WritePcs
  <2> QED BY <2>4, <2>5, Zenon DEF WriteInv
<1>10. CASE outBuffer # <<>>
  <2>1. outBuffer' = outBuffer \o y /\ sent' = sent
    BY <1>2, <1>10 DEF sendInLoop
  <2>2. outBuffer' \in Octets /\ outBuffer' # <<>>
    BY <1>1, <1>10, <2>1 DEF Octets
  <2> QED BY <1>1, <1>9, <2>1, <2>2, Zenon
<1>11. CASE outBuffer = <<>>
  <2>1. PICK n \in 0..Len(y), err \in BOOLEAN :
           /\ ConnWrite(y, n, err)
           /\ IF err THEN Enter(Writer) /\ UNCHANGED outBuffer
                     ELSE outBuffer' = Retrieve(y, n) /\ UNCHANGED closePc
    BY <1>2, <1>11 DEF sendInLoop
  <2>2. sent' = sent \o Peek(y, n)
    BY <2>1 DEF ConnWrite
  <2>3. Flushed(sent, y, n, submitted)
    BY <1>1, Flushes, Zenon
  <2>4. outBuffer \o y = y
    BY <1>11 DEF Octets
  <2>5. CASE ~err
    <3>1. outBuffer' = Retrieve(y, n)
      BY <2>1, <2>5
    <3> QED BY <1>9, <1>11, <2>2, <2>3, <2>4, <3>1, Zenon DEF Flushed
  <2>6. CASE err
    <3>1. Enter(Writer) /\ outBuffer' = <<>>
      BY <1>11, <2>1, <2>6
    <3>2. ~Live'
      BY <1>0, <3>1, WriterClosing, Zenon
    <3>3. sent' \in Octets
      BY <2>2, <2>3, Zenon DEF Flushed
    <3>4. WriteTypes' /\ WritePcs'
      BY <1>0, <1>1, <1>4, <1>11, <3>1, <3>3, SMTT(30) DEF WriteTypes, WritePcs, Octets
    <3>5. sent' \o outBuffer' = sent'
      BY <3>1, <3>3 DEF Octets
    <3>6. IsPrefix(sent \o y, submitted)
      <4>1. Comes(sent, y, z, w)
        BY <1>1, ComesFirst, Zenon
      <4> QED BY <1>7, <2>4, <4>1, Zenon DEF Comes
    <3>7. IsPrefix(sent', submitted)
      BY <2>2, <2>3, <3>6, Zenon DEF Flushed
    <3>8. writePc' # "send"
      BY <1>0
    <3>9. Ordered'
      BY <1>0, <3>2, <3>5, <3>7, <3>8, Zenon DEF Ordered
    <3> QED BY <3>4, <3>9, Zenon DEF WriteInv
  <2> QED BY <2>5, <2>6, Zenon
<1> QED BY <1>10, <1>11, Zenon

\* A write from the buffer: it moves n bytes, or fails and ends writeLoop.
LEMMA FlushKeeps ==
    ASSUME WriteInv, RestInv, WriteStep, writePc \in {"first", "end"},
           NEW n \in 0..Len(outBuffer), sent' = sent \o Peek(outBuffer, n),
           UNCHANGED <<taskQueueR, taskQueueW>>,
           \/ WriteFailed
           \/ outBuffer' = Retrieve(outBuffer, n) /\ WriteDone
           \/ /\ writePc' = "end" /\ outBuffer' = Retrieve(outBuffer, n)
              /\ peeked' = Len(outBuffer') /\ UNCHANGED <<closePc, outBufferLen>>
    PROVE  WriteInv'
<1>0. /\ protocol' = protocol /\ connected' = connected /\ submitted' = submitted
      /\ closePc[Writer] = "no" /\ writePc # "exited" /\ writePc # "send"
  BY DEF WriteStep, streamVars
<1>1. /\ outBuffer \in Octets /\ sent \in Octets /\ submitted \in Octets
      /\ taskQueueW \in Seq(Octets) /\ taskQueueR \in Seq(Octets) /\ taskQueueR = <<>>
      /\ outBufferLen \in Nat
      /\ IsPrefix(sent \o outBuffer, submitted)
  BY <1>0 DEF WriteInv, WriteTypes, WritePcs, Ordered
<1>2. Flushed(sent, outBuffer, n, submitted)
  BY <1>1, Flushes, Zenon
<1>3. sent' \in Octets /\ IsPrefix(sent', submitted)
  BY <1>1, <1>2, Zenon DEF Flushed
<1>4. CASE WriteFailed
  <2>1. writePc' = "exited" /\ peeked' = 0 /\ UNCHANGED <<outBuffer, outBufferLen>>
    BY <1>4 DEF WriteFailed
  <2>2. ~Live'
    BY <1>0, <1>4, WriterClosing, Zenon DEF WriteFailed
  <2>3. WriteTypes' /\ WritePcs'
    BY <1>0, <1>1, <1>3, <2>1 DEF WriteTypes, WritePcs
  <2>4. writePc' # "send"
    BY <2>1
  <2>5. Ordered'
    BY <1>0, <1>3, <2>1, <2>2, <2>4, Zenon DEF Ordered
  <2> QED BY <2>3, <2>5, Zenon DEF WriteInv
<1>5. CASE /\ outBuffer' = Retrieve(outBuffer, n) /\ closePc' = closePc
           /\ \/ writePc' = "top" /\ outBufferLen' = Len(outBuffer') /\ peeked' = 0
              \/ writePc' = "end" /\ outBufferLen' = outBufferLen /\ peeked' = Len(outBuffer')
  <2>1. outBuffer' \in Octets /\ sent' \o outBuffer' = sent \o outBuffer
    BY <1>2, <1>5, Zenon DEF Flushed
  <2>2. Len(outBuffer') \in Nat
    BY <2>1 DEF Octets
  <2>3. WriteTypes'
    BY <1>0, <1>1, <1>3, <1>5, <2>1, <2>2, SMTT(30) DEF WriteTypes
  <2>4. WritePcs'
    BY <1>1, <1>5 DEF WritePcs
  <2>5. Live' => Live
    BY <1>0, <1>5, WriterClosing, Zenon
  <2>6. writePc' # "send"
    BY <1>5
  <2>7. WriteTypes /\ Ordered
    BY Zenon DEF WriteInv
  <2>8. Ordered'
    BY <1>0, <2>1, <2>3, <2>5, <2>6, <2>7, OrderedMoves, Zenon
  <2> QED BY <2>3, <2>4, <2>8, Zenon DEF WriteInv
<1> QED BY <1>4, <1>5 DEF WriteDone

\* writeLoop's steps preserve WriteInv.
LEMMA WriteStepKeeps ==
    ASSUME WriteInv, RestInv, WriteStep
    PROVE  WriteInv'
<1>0. /\ protocol' = protocol /\ connected' = connected /\ submitted' = submitted
      /\ closePc[Writer] = "no"
  BY DEF WriteStep, streamVars
<1>1. /\ outBuffer \in Octets /\ sent \in Octets /\ submitted \in Octets
      /\ taskQueueW \in Seq(Octets) /\ taskQueueR \in Seq(Octets)
      /\ outBufferLen \in Nat /\ peeked \in Nat /\ WriteTypes /\ WritePcs /\ Ordered
  BY DEF WriteInv, WriteTypes
<1>2. closePc' = closePc => (Live' <=> connected) /\ (Live <=> connected)
  BY <1>0, WriterClosing, Zenon
<1>3. CASE WriteTop
  <2>1. /\ writePc = "top" /\ writePc' \in {"exited", "swap"} /\ closePc' = closePc
        /\ UNCHANGED <<taskQueueW, taskQueueR, outBuffer, outBufferLen, peeked, sent>>
    BY <1>3 DEF WriteTop
  <2>2. WriteTypes' /\ WritePcs'
    BY <1>0, <1>1, <2>1 DEF WriteTypes, WritePcs
  <2>3. writePc # "exited" /\ writePc' # "send"
    BY <2>1
  <2>4. Ordered'
    BY <1>0, <1>1, <1>2, <2>1, <2>2, <2>3, OrderedMoves, Zenon
  <2> QED BY <2>2, <2>4, Zenon DEF WriteInv
<1>4. CASE SwapQueues
  <2>1. /\ writePc = "swap" /\ writePc' = "run" /\ closePc' = closePc
        /\ taskQueueR' = taskQueueW /\ taskQueueW' = taskQueueR
        /\ UNCHANGED <<outBuffer, outBufferLen, peeked, sent>>
    BY <1>4 DEF SwapQueues
  <2>2. taskQueueR = <<>> /\ outBufferLen = Len(outBuffer) /\ peeked = 0
    BY <1>1, <2>1, SMTT(30) DEF WritePcs
  <2>3. WriteTypes' /\ WritePcs'
    BY <1>0, <1>1, <2>1, <2>2 DEF WriteTypes, WritePcs
  <2>4. writePc # "exited" /\ writePc' # "send"
    BY <2>1
  <2>5. PICK w \in Octets : w = Packed(protocol, taskQueueW)
    BY <1>1, PackedType, Zenon
  <2>6. Packed(protocol, taskQueueR) = <<>> /\ w \o <<>> = w /\ <<>> \o w = w
    <3>1. w \o <<>> = w /\ <<>> \o w = w
      BY DEF Octets
    <3> QED BY <1>1, <2>2, <3>1, PackedType, Zenon
  <2>7. Packed(protocol', taskQueueR') \o Packed(protocol', taskQueueW')
           = Packed(protocol, taskQueueR) \o Packed(protocol, taskQueueW)
    BY <1>0, <2>1, <2>5, <2>6, Zenon
  <2>8. Ordered'
    BY <1>0, <1>1, <1>2, <2>1, <2>3, <2>4, <2>7, OrderedMoves, Zenon
  <2> QED BY <2>3, <2>8, Zenon DEF WriteInv
<1>5. CASE RunClosure
  <2>1. /\ writePc = "run" /\ taskQueueR # <<>> /\ closePc' = closePc
        /\ UNCHANGED <<taskQueueW, outBuffer, outBufferLen, peeked, sent>>
    BY <1>5 DEF RunClosure
  <2>2. peeked = 0 /\ (outBuffer = <<>> => outBufferLen = 0)
    BY <1>1, <2>1 DEF WritePcs
  <2>3. CASE connected
    <3>1. writePc' = "send" /\ taskQueueR' = taskQueueR
      BY <1>5, <2>3 DEF RunClosure
    <3>2. WriteTypes' /\ WritePcs'
      BY <1>0, <1>1, <2>1, <2>2, <3>1 DEF WriteTypes, WritePcs
    <3>3. writePc # "exited"
      BY <2>1
    <3>4. Ordered'
      BY <1>0, <1>1, <1>2, <2>1, <2>3, <3>1, <3>2, <3>3, OrderedMoves, Zenon
    <3> QED BY <3>2, <3>4, Zenon DEF WriteInv
  <2>4. CASE ~connected
    <3>1. writePc' = writePc /\ taskQueueR' = Tail(taskQueueR)
      BY <1>5, <2>4 DEF RunClosure
    <3>2. Tail(taskQueueR) \in Seq(Octets)
      BY <1>1, <2>1, PackedTail, Zenon
    <3>3. WriteTypes' /\ WritePcs'
      BY <1>0, <1>1, <2>1, <2>2, <3>1, <3>2, SMTT(30) DEF WriteTypes, WritePcs
    <3>4. writePc' # "send" /\ writePc # "exited"
      BY <2>1, <3>1
    <3>5. Ordered'
      BY <1>0, <1>1, <1>2, <2>1, <2>4, <3>1, <3>4, Zenon DEF Ordered
    <3> QED BY <3>3, <3>5, Zenon DEF WriteInv
  <2> QED BY <2>3, <2>4, Zenon
<1>6. CASE sendInLoop
  BY <1>6, SendInLoopKeeps, Zenon
<1>7. CASE PeekAll
  <2>1. /\ writePc = "run" /\ taskQueueR = <<>> /\ closePc' = closePc
        /\ UNCHANGED <<taskQueueW, taskQueueR, outBuffer, outBufferLen, sent>>
        /\ IF outBuffer = <<>> THEN writePc' = "top" /\ UNCHANGED peeked
                               ELSE writePc' = "first" /\ peeked' \in 1..Len(outBuffer)
    BY <1>7 DEF PeekAll
  <2>2. peeked = 0 /\ (outBuffer = <<>> => outBufferLen = 0)
    BY <1>1, <2>1 DEF WritePcs
  <2>3. Len(outBuffer) \in Nat /\ (outBuffer = <<>> => Len(outBuffer) = 0)
    BY <1>1 DEF Octets
  <2>4. WriteTypes' /\ WritePcs'
    BY <1>0, <1>1, <2>1, <2>2, <2>3 DEF WriteTypes, WritePcs
  <2>5. writePc' # "send" /\ writePc # "exited"
    BY <2>1
  <2>6. Ordered'
    BY <1>0, <1>1, <1>2, <2>1, <2>4, <2>5, OrderedMoves, Zenon
  <2> QED BY <2>4, <2>6, Zenon DEF WriteInv
<1>8. CASE WriteFirst
  <2>1. peeked \in 1..Len(outBuffer) /\ Len(outBuffer) \in Nat
    BY <1>1, <1>8 DEF WritePcs, WriteFirst, Octets
  <2>2. PICK n \in 0..peeked, err \in BOOLEAN :
          /\ ConnWrite(outBuffer, n, err)
          /\ IF err THEN WriteFailed
             ELSE /\ outBuffer' = Retrieve(outBuffer, n)
                  /\ IF n = peeked /\ peeked < Len(outBuffer)
                     THEN /\ writePc' = "end" /\ peeked' = Len(outBuffer) - peeked
                          /\ UNCHANGED <<closePc, outBufferLen>>
                     ELSE WriteDone
    BY <1>8 DEF WriteFirst
  <2>3. n \in 0..Len(outBuffer) /\ writePc \in {"first", "end"}
        /\ UNCHANGED <<taskQueueR, taskQueueW>>
    BY <1>8, <2>1, <2>2 DEF WriteFirst
  <2>4. sent' = sent \o Peek(outBuffer, n)
    BY <2>2 DEF ConnWrite
  <2>5. Len(Retrieve(outBuffer, n)) = Len(outBuffer) - n
    BY <1>1, <2>3 DEF Retrieve, Octets
  <2>6. \/ WriteFailed
        \/ outBuffer' = Retrieve(outBuffer, n) /\ WriteDone
        \/ /\ writePc' = "end" /\ outBuffer' = Retrieve(outBuffer, n)
           /\ peeked' = Len(outBuffer') /\ UNCHANGED <<closePc, outBufferLen>>
    BY <2>2, <2>5, Zenon
  <2> QED BY <2>3, <2>4, <2>6, FlushKeeps, Zenon
<1>9. CASE WriteEnd
  <2>1. peeked = Len(outBuffer) /\ Len(outBuffer) \in Nat
    BY <1>1, <1>9 DEF WritePcs, WriteEnd, Octets
  <2>2. SubSeq(outBuffer, Len(outBuffer) - peeked + 1, Len(outBuffer)) = outBuffer
    <3>1. Len(outBuffer) - peeked + 1 = 1
      BY <2>1
    <3>2. SubSeq(outBuffer, 1, Len(outBuffer)) = outBuffer
      BY <1>1 DEF Octets
    <3> QED BY <3>1, <3>2, Zenon
  <2>3. PICK n \in 0..peeked, err \in BOOLEAN :
          /\ ConnWrite(outBuffer, n, err)
          /\ IF err THEN WriteFailed
                    ELSE outBuffer' = Retrieve(outBuffer, n) /\ WriteDone
    BY <1>9, <2>2, Zenon DEF WriteEnd
  <2>4. n \in 0..Len(outBuffer) /\ writePc \in {"first", "end"}
        /\ UNCHANGED <<taskQueueR, taskQueueW>>
    BY <1>9, <2>1, <2>3 DEF WriteEnd
  <2>5. sent' = sent \o Peek(outBuffer, n)
    BY <2>3 DEF ConnWrite
  <2> QED BY <2>3, <2>4, <2>5, FlushKeeps, Zenon
<1> QED BY <1>3, <1>4, <1>5, <1>6, <1>7, <1>8, <1>9, Zenon DEF WriteStep

-----------------------------------------------------------------------------
(* All goroutines *)

\* Another goroutine that enters Close leaves writeLoop where it is.
LEMMA OthersEnter ==
    ASSUME RestInv, NEW a \in Closers, a # Writer, connected' = connected,
           Enter(a) \/ closePc' = closePc
    PROVE  Live' => Live
<1>1. /\ closePc \in [Closers -> {"no", "dying", "flag", "onClose", "conn"}]
      /\ Writer \in Closers
  BY ClosersAssumption DEF RestInv, CloseTypeOK
<1>2. closePc'[Writer] = closePc[Writer]
  BY <1>1 DEF Enter
<1> QED BY <1>2, Zenon DEF Live

\* Close only ends what WriteInv promises of a live connection.
LEMMA CloseKeepsWrites ==
    ASSUME WriteInv, RestInv, NEW a \in Closers, CloseStep(a)
    PROVE  WriteInv'
<1>1. /\ closePc \in [Closers -> {"no", "dying", "flag", "onClose", "conn"}]
      /\ Writer \in Closers
  BY ClosersAssumption DEF RestInv, CloseTypeOK
<1>2. CASE CloseDying(a)
  BY <1>1, <1>2, WriteKept DEF CloseDying, CloseStep, Live, streamVars
<1>3. CASE CloseFlag(a)
  BY <1>1, <1>3, WriteKept DEF CloseFlag, CloseStep, Live, streamVars
<1>4. CASE CloseOnClose(a)
  BY <1>1, <1>4, WriteKept DEF CloseOnClose, CloseStep, Live, streamVars
<1>5. CASE CloseConn(a)
  BY <1>1, <1>5, WriteKept DEF CloseConn, CloseStep, Live, streamVars
<1> QED BY <1>2, <1>3, <1>4, <1>5, Zenon DEF CloseStep, CloseSteps

\* readLoop only adds its replies.
LEMMA ReadKeepsWrites ==
    ASSUME WriteInv, RestInv, ReadInv, ReadStep
    PROVE  WriteInv'
<1>1. protocol' = protocol /\ connected' = connected /\ UNCHANGED writeVars
  BY DEF ReadStep, streamVars
<1>2. CASE ReadAppend
  <2>1. tmp \in Octets
    BY DEF ReadInv
  <2>2. SendAppend(tmp) /\ closePc' = closePc
    BY <1>2 DEF ReadAppend
  <2> QED BY <1>1, <2>1, <2>2, WriteSubmit, Zenon
<1>3. CASE ReadEmpty \/ ReadTop \/ Read \/ ReadError \/ handlerProtocol \/ ReadSend
  <2>1. sendVars' = sendVars /\ (Enter(Reader) \/ closePc' = closePc)
    BY <1>3 DEF ReadEmpty, ReadTop, Read, ReadError, handlerProtocol, ReadSend
  <2>2. Reader \in Closers /\ Reader # Writer
    BY ClosersAssumption
  <2>3. Live' => Live
    BY <1>1, <2>1, <2>2, OthersEnter, Zenon
  <2> QED BY <1>1, <2>1, <2>3, WriteKept, Zenon
<1> QED BY <1>2, <1>3, Zenon DEF ReadStep

\* So do users.
LEMMA UserKeepsWrites ==
    ASSUME WriteInv, RestInv, NEW u \in Users, UserStep(u)
    PROVE  WriteInv'
<1>1. protocol' = protocol /\ connected' = connected /\ UNCHANGED writeVars
  BY DEF UserStep, streamVars
<1>2. CASE UserAppend(u)
  <2>1. PICK d \in Sends : SendAppend(d)
    BY <1>2 DEF UserAppend
  <2>2. d \in Octets
    BY StreamAssumption DEF Octets
  <2>3. closePc' = closePc
    BY <1>2 DEF UserAppend
  <2> QED BY <1>1, <2>1, <2>2, <2>3, WriteSubmit, Zenon
<1>3. CASE UserSend(u) \/ UserClose(u)
  <2>1. sendVars' = sendVars /\ (Enter(u) \/ closePc' = closePc)
    BY <1>3 DEF UserSend, UserClose
  <2>2. u \in Closers /\ u # Writer
    BY ClosersAssumption
  <2>3. Live' => Live
    BY <1>1, <2>1, <2>2, OthersEnter, Zenon
  <2> QED BY <1>1, <2>1, <2>3, WriteKept, Zenon
<1> QED BY <1>2, <1>3, Zenon DEF UserStep

\* Close, the other end and users stay in their states.
LEMMA RestKeeps ==
    ASSUME RestInv, Next
    PROVE  RestInv'
<1>0. Reader \in Closers /\ Writer \in Closers /\ Users \subseteq Closers
  BY ClosersAssumption
<1>1. ASSUME NEW a \in Closers, CloseStep(a) PROVE RestInv'
  <2>1. peer' = peer /\ userPc' = userPc
    BY <1>1 DEF CloseStep, streamVars
  <2>2. CASE CloseDying(a)
    BY <2>1, <2>2, Zenon DEF RestInv, CloseTypeOK, CloseDying
  <2>3. CASE CloseFlag(a)
    BY <2>1, <2>3, Zenon DEF RestInv, CloseTypeOK, CloseFlag
  <2>4. CASE CloseOnClose(a)
    BY <2>1, <2>4 DEF RestInv, CloseTypeOK, CloseOnClose
  <2>5. CASE CloseConn(a)
    BY <2>1, <2>5 DEF RestInv, CloseTypeOK, CloseConn
  <2> QED BY <1>1, <2>2, <2>3, <2>4, <2>5, Zenon DEF CloseStep, CloseSteps
<1>2. ASSUME NEW a \in Closers, Enter(a) \/ closePc' = closePc,
             UNCHANGED <<peer, connected, dying, sockClosed, onCloses, panicked>>,
             userPc' \in [Users -> {"idle", "append", "done"}]
      PROVE  RestInv'
  BY <1>2 DEF RestInv, CloseTypeOK, Enter
<1>3. CASE ReadStep
  <2>1. Enter(Reader) \/ closePc' = closePc
    BY <1>3 DEF ReadStep, ReadEmpty, ReadTop, Read, ReadError, handlerProtocol, ReadSend,
                ReadAppend
  <2>2. UNCHANGED <<peer, connected, dying, sockClosed, onCloses, panicked, userPc>>
    BY <1>3 DEF ReadStep, streamVars
  <2>3. userPc' \in [Users -> {"idle", "append", "done"}]
    BY <2>2, Zenon DEF RestInv
  <2> QED BY <1>0, <1>2, <2>1, <2>2, <2>3, Zenon
<1>4. CASE WriteStep
  <2>1. Enter(Writer) \/ closePc' = closePc
    BY <1>4 DEF WriteStep, WriteTop, SwapQueues, RunClosure, sendInLoop, PeekAll,
                WriteFirst, WriteEnd, WriteFailed, WriteDone
  <2>2. UNCHANGED <<peer, connected, dying, sockClosed, onCloses, panicked, userPc>>
    BY <1>4 DEF WriteStep, streamVars
  <2>3. userPc' \in [Users -> {"idle", "append", "done"}]
    BY <2>2, Zenon DEF RestInv
  <2> QED BY <1>0, <1>2, <2>1, <2>2, <2>3, Zenon
<1>5. CASE PeerEnds
  <2>1. UNCHANGED <<connected, dying, sockClosed, closePc, onCloses, panicked, userPc>>
    BY <1>5 DEF PeerEnds, closeVars
  <2>2. peer' \in {"open", "closed", "reset"}
    BY <1>5 DEF PeerEnds
  <2> QED BY <2>1, <2>2, Zenon DEF RestInv, CloseTypeOK
<1>6. ASSUME NEW u \in Users, UserStep(u) PROVE RestInv'
  <2>1. Enter(u) \/ closePc' = closePc
    BY <1>6 DEF UserStep, UserSend, UserAppend, UserClose
  <2>2. UNCHANGED <<peer, connected, dying, sockClosed, onCloses, panicked>>
    BY <1>6 DEF UserStep, streamVars
  <2>3. userPc' \in [Users -> {"idle", "append", "done"}]
    BY <1>6 DEF UserStep, UserSend, UserAppend, UserClose, RestInv
  <2> QED BY <1>0, <1>2, <2>1, <2>2, <2>3, Zenon
<1> QED BY <1>1, <1>3, <1>4, <1>5, <1>6, Zenon DEF Next

\* The inductive invariant.
Inv == ReadInv /\ WriteInv /\ RestInv

\* The inductive invariant holds of the initial states, and every step of every
\* goroutine preserves it.
THEOREM Inductive == Spec => []Inv
<1>1. Init => Inv
  <2>1. ASSUME Init PROVE RestInv
    BY <2>1, Zenon DEF Init, CloseInit, RestInv, CloseTypeOK
  <2> QED BY <2>1, ReadInit, WriteInit, Zenon DEF Inv
<1>2. Inv /\ [Next]_vars => Inv'
  <2> SUFFICES ASSUME Inv, [Next]_vars PROVE Inv'
    OBVIOUS
  <2>0. ReadInv /\ WriteInv /\ RestInv
    BY Zenon DEF Inv
  <2>1. ASSUME NEW a \in Closers, CloseStep(a) PROVE ReadInv' /\ WriteInv'
    <3>1. UNCHANGED <<protocol, msgs, readVars>>
      BY <2>1 DEF CloseStep, streamVars
    <3> QED BY <2>0, <2>1, <3>1, ReadKept, CloseKeepsWrites, Zenon
  <2>2. ASSUME ReadStep PROVE ReadInv' /\ WriteInv'
    BY <2>0, <2>2, ReadStepKeeps, ReadKeepsWrites, Zenon
  <2>3. ASSUME WriteStep PROVE ReadInv' /\ WriteInv'
    <3>1. UNCHANGED <<protocol, msgs, readVars>>
      BY <2>3 DEF WriteStep, streamVars
    <3> QED BY <2>0, <2>3, <3>1, ReadKept, WriteStepKeeps, Zenon
  <2>4. ASSUME PeerEnds PROVE ReadInv' /\ WriteInv'
    <3>1. /\ UNCHANGED <<protocol, msgs, readVars>>
          /\ UNCHANGED <<protocol, writeVars, sendVars>> /\ UNCHANGED <<connected, closePc>>
      BY <2>4 DEF PeerEnds, closeVars
    <3>2. Live' => Live
      BY <3>1, Zenon DEF Live
    <3> QED BY <2>0, <3>1, <3>2, ReadKept, WriteKept, Zenon
  <2>5. ASSUME NEW u \in Users, UserStep(u) PROVE ReadInv' /\ WriteInv'
    <3>1. UNCHANGED <<protocol, msgs, readVars>>
      BY <2>5 DEF UserStep, streamVars
    <3> QED BY <2>0, <2>5, <3>1, ReadKept, UserKeepsWrites, Zenon
  <2>6. CASE UNCHANGED vars
    <3>1. /\ UNCHANGED <<protocol, msgs, readVars>> /\ UNCHANGED <<peer, userPc>>
          /\ UNCHANGED <<protocol, writeVars, sendVars>>
          /\ UNCHANGED <<connected, dying, sockClosed, closePc, onCloses, panicked>>
      BY <2>6 DEF vars, closeVars, streamVars
    <3>2. Live' => Live
      BY <3>1, Zenon DEF Live
    <3>3. RestInv'
      BY <2>0, <3>1, Zenon DEF RestInv, CloseTypeOK
    <3> QED BY <2>0, <3>1, <3>2, <3>3, ReadKept, WriteKept, Zenon DEF Inv
  <2> QED BY <2>0, <2>1, <2>2, <2>3, <2>4, <2>5, <2>6, RestKeeps, Zenon DEF Inv, Next
<1> QED BY <1>1, <1>2, PTL DEF Spec

\* Everything keeps its type, with any number of goroutines calling Send and
\* Close: no write is of more than the buffer holds.
THEOREM TypesKept == Spec => []TypeOK
<1>1. ASSUME Inv PROVE TypeOK
  <2>1. \A x \in Octets : x \in Bytes
    BY DEF Octets, Bytes
  <2>2. \A q \in Seq(Octets) : q \in Seq(Bytes)
    <3>1. ASSUME NEW q \in Seq(Octets) PROVE q \in Seq(Bytes)
      <4>1. \A i \in 1..Len(q) : q[i] \in Octets
        OBVIOUS
      <4>2. \A i \in 1..Len(q) : q[i] \in Bytes
        BY <2>1, <4>1, Zenon
      <4> QED BY <4>2
    <3> QED BY <3>1, Zenon
  <2>3. Len(outBuffer) \in Nat /\ peeked \in 0..Len(outBuffer)
    BY <1>1 DEF Inv, WriteInv, WriteTypes, WritePcs, Octets
  <2>4. {inbound, inBuffer, tmp, outBuffer, sent, submitted} \subseteq Bytes
    BY <1>1, <2>1, Zenon DEF Inv, ReadInv, WriteInv, WriteTypes
  <2>5. taskQueueW \in Seq(Bytes) /\ taskQueueR \in Seq(Bytes)
    BY <1>1, <2>2, Zenon DEF Inv, WriteInv, WriteTypes
  <2> QED BY <1>1, <2>3, <2>4, <2>5, Zenon
          DEF TypeOK, Inv, ReadInv, WriteInv, WriteTypes, RestInv
<1> QED BY <1>1, Inductive, PTL

\* Whatever short writes, errors and wrapped ring buffers do, the other end is
\* sent a prefix of what Send has taken, and all of it once the queues and the
\* buffer of a live connection are empty.
THEOREM OutputStaysIntact == Spec => []OutputIntact
<1>1. ASSUME Inv PROVE OutputIntact
  <2>1. ASSUME connected, closePc[Writer] = "no",
               taskQueueW = <<>>, taskQueueR = <<>>, outBuffer = <<>>
        PROVE  sent = submitted
    <3>1. Live
      BY <2>1 DEF Live
    <3>2. Whole /\ sent \in Octets /\ taskQueueW \in Seq(Octets)
      BY <1>1, <3>1, Zenon DEF Inv, WriteInv, WriteTypes, Ordered
    <3>3. Packed(protocol, <<>>) = <<>>
      BY <2>1, <3>2, PackedType, Zenon
    <3>4. sent \o <<>> = sent /\ <<>> \o <<>> = <<>>
      BY <3>2 DEF Octets
    <3> QED BY <2>1, <3>2, <3>3, <3>4, Zenon DEF Whole
  <2> QED BY <1>1, <2>1, Zenon DEF OutputIntact, Inv, WriteInv, Ordered
<1> QED BY <1>1, Inductive, PTL

\* However the reads cut the stream, and however many messages it holds, of
\* whatever length, OnMessage gets them whole and in their order.
THEOREM InputStaysIntact == Spec => []InputIntact
<1>1. Inv => InputIntact
  BY ReadIntact, Zenon DEF Inv
<1> QED BY <1>1, Inductive, PTL

\* No complete message waits in inBuffer when readLoop goes back to Read, as
\* long as the client sends no empty ones.
THEOREM BacklogIsRead == Spec => []NoBacklog
<1>1. Inv => NoBacklog
  BY ReadBacklog, Zenon DEF Inv
<1> QED BY <1>1, Inductive, PTL

\* ReadBufferLength and WriteBufferLength are right between two turns.
THEOREM LengthsAreReported == Spec => []LengthsReported
<1>1. Inv => LengthsReported
  BY DEF Inv, ReadInv, WriteInv, WritePcs, LengthsReported
<1> QED BY <1>1, Inductive, PTL

-----------------------------------------------------------------------------
(* The loops do not outlive the connection *)

\* Inside Close, past the channel dying.
Finishing(a) == closePc[a] \in {"flag", "onClose", "conn"}

\* Close closes the channel before it goes on, and goes on alone; a user calls
\* it once.
UnderWay ==
    /\ \A u \in Users : userPc[u] # "done" => closePc[u] = "no"
    /\ sockClosed => dying
    /\ \A a \in Closers : Finishing(a) => dying /\ ~sockClosed
    /\ \A a, b \in Closers : Finishing(a) /\ Finishing(b) => a = b
    /\ dying => sockClosed \/ \E a \in Closers : Finishing(a)

\* Once dying is closed, whatever keeps a reader in Read is on its way to
\* closing the socket, and the writer has a closure or a slice to write.
LoopsNotStuck ==
    /\ dying /\ closePc[Reader] = "no" /\ readPc = "read" =>
          sockClosed \/ \E a \in Closers \ {Reader} : Finishing(a)
    /\ writePc = "send" => taskQueueR # <<>>

\* How far Close is from closing the socket.
CloseRank ==
    IF sockClosed THEN 0
    ELSE IF \E a \in Closers : closePc[a] = "conn" THEN 1
    ELSE IF \E a \in Closers : closePc[a] = "onClose" THEN 2 ELSE 3

\* How far readLoop is from its next test of dying, and what it has to hand to
\* OnMessage before.
ReadRank ==
    <<CASE readPc = "read" -> 5 [] readPc = "protocol" -> 4 [] readPc = "send" -> 3
        [] readPc = "append" -> 2 [] readPc \in {"top", "empty"} -> 1 [] OTHER -> 0,
      IF readPc = "protocol" THEN Len(inBuffer) ELSE 0>>

\* How far writeLoop is from its next test, and the closures it runs before.
WriteRank ==
    <<CASE writePc = "swap" -> 5 [] writePc \in {"run", "send"} -> 4
        [] writePc = "first" -> 3 [] writePc = "end" -> 2 [] writePc = "top" -> 1
        [] OTHER -> 0,
      2 * Len(taskQueueR) + (IF writePc = "run" THEN 1 ELSE 0)>>

Below(a, b) == a[1] < b[1] \/ (a[1] = b[1] /\ a[2] < b[2])

\* Once dying is closed, every step of Close, of readLoop and of writeLoop
\* brings it nearer to its end, and no step of another takes it back: neither
\* loop comes round again, however much is sent to it or submitted meanwhile.
LoopsComeNearer ==
    [][dying =>
         /\ IF \E a \in Closers : CloseStep(a) THEN panicked' \/ CloseRank' < CloseRank
                                               ELSE UNCHANGED CloseRank
         /\ IF ReadStep THEN Below(ReadRank', ReadRank) ELSE UNCHANGED ReadRank
         /\ IF WriteStep THEN Below(WriteRank', WriteRank) ELSE UNCHANGED WriteRank]_vars

\* Close goes through its steps alone, and nobody enters it twice.
LEMMA UnderWayStep ==
    ASSUME RestInv, UnderWay, [Next]_vars
    PROVE  UnderWay'
<1>1. /\ closePc \in [Closers -> {"no", "dying", "flag", "onClose", "conn"}]
      /\ userPc \in [Users -> {"idle", "append", "done"}]
      /\ Reader \in Closers /\ Writer \in Closers /\ Users \subseteq Closers
      /\ Reader \notin Users /\ Writer \notin Users
  BY ClosersAssumption, Zenon DEF RestInv, CloseTypeOK
<1>2. ASSUME NEW a \in Closers, closePc[a] = "no", Enter(a) \/ UNCHANGED closePc,
             UNCHANGED <<dying, sockClosed>>,
             \A u \in Users : userPc'[u] # "done" => userPc[u] # "done" /\ u # a
      PROVE  UnderWay'
  <2>1. /\ closePc'[a] \in {"no", "dying"}
        /\ \A b \in Closers : b # a => closePc'[b] = closePc[b]
    BY <1>1, <1>2, Zenon DEF Enter
  <2>2. \A b \in Closers : Finishing(b)' <=> Finishing(b)
    <3>1. ~Finishing(a) /\ ~Finishing(a)'
      BY <1>2, <2>1 DEF Finishing
    <3> QED BY <2>1, <3>1, Zenon DEF Finishing
  <2>3. \A u \in Users : userPc'[u] # "done" => closePc'[u] = "no"
    BY <1>1, <1>2, <2>1, Zenon DEF UnderWay
  <2> QED BY <1>2, <2>2, <2>3, Zenon DEF UnderWay
<1>3. ASSUME UNCHANGED <<closePc, dying, sockClosed>>,
             \A u \in Users : userPc'[u] # "done" => userPc[u] # "done"
      PROVE  UnderWay'
  BY <1>3, Zenon DEF UnderWay, Finishing
<1>4. ASSUME NEW a \in Closers, CloseStep(a) PROVE UnderWay'
  <2>1. UNCHANGED userPc /\ closePc[a] # "no"
    BY <1>4 DEF CloseStep, CloseSteps, CloseDying, CloseFlag, CloseOnClose, CloseConn
  <2>2. \A b \in Closers : b # a => closePc'[b] = closePc[b]
    BY <1>1, <1>4, Zenon DEF CloseStep, CloseSteps, CloseDying, CloseFlag, CloseOnClose, CloseConn
  <2>3. \A u \in Users : userPc'[u] # "done" => closePc'[u] = "no"
    BY <1>1, <2>1, <2>2, Zenon DEF UnderWay
  <2>4. \A b \in Closers : b # a => (Finishing(b)' <=> Finishing(b))
    BY <2>2, Zenon DEF Finishing
  <2>5. CASE CloseDying(a) /\ dying
    BY <1>3, <2>1, <2>5, Zenon DEF CloseDying
  <2>6. CASE CloseDying(a) /\ ~dying
    <3>1. dying' /\ UNCHANGED sockClosed /\ closePc'[a] = "flag"
      BY <1>1, <2>6, Zenon DEF CloseDying
    <3>2. Finishing(a)'
      BY <3>1, Zenon DEF Finishing
    <3>3. ~sockClosed /\ \A b \in Closers : ~Finishing(b)
      BY <2>6, Zenon DEF UnderWay
    <3> QED BY <2>3, <2>4, <3>1, <3>2, <3>3, Zenon DEF UnderWay
  <2>7. CASE CloseFlag(a) \/ CloseOnClose(a)
    <3>1. /\ UNCHANGED <<dying, sockClosed>> /\ closePc[a] \in {"flag", "onClose"}
          /\ closePc'[a] \in {"onClose", "conn"}
      BY <1>1, <2>7, Zenon DEF CloseFlag, CloseOnClose
    <3>2. Finishing(a) /\ Finishing(a)'
      BY <3>1, Zenon DEF Finishing
    <3> QED BY <2>3, <2>4, <3>1, <3>2, Zenon DEF UnderWay
  <2>8. CASE CloseConn(a)
    <3>1. sockClosed' /\ UNCHANGED dying /\ closePc[a] = "conn" /\ closePc'[a] = "no"
      BY <1>1, <2>8, Zenon DEF CloseConn
    <3>2. Finishing(a) /\ ~Finishing(a)'
      BY <3>1 DEF Finishing
    <3>3. \A b \in Closers : ~Finishing(b)'
      BY <2>4, <3>2, Zenon DEF UnderWay
    <3> QED BY <2>3, <3>1, <3>2, <3>3, Zenon DEF UnderWay
  <2> QED BY <1>4, <2>5, <2>6, <2>7, <2>8, Zenon DEF CloseStep, CloseSteps
<1>5. CASE ReadStep
  <2>1. Enter(Reader) \/ UNCHANGED closePc
    BY <1>5, Zenon DEF ReadStep, ReadEmpty, ReadTop, Read, ReadError, handlerProtocol, ReadSend,
                       ReadAppend
  <2>2. closePc[Reader] = "no" /\ UNCHANGED <<dying, sockClosed, userPc>>
    BY <1>5, Zenon DEF ReadStep
  <2> QED BY <1>1, <1>2, <2>1, <2>2, Zenon
<1>6. CASE WriteStep
  <2>1. Enter(Writer) \/ UNCHANGED closePc
    BY <1>6 DEF WriteStep, WriteTop, SwapQueues, RunClosure, sendInLoop, PeekAll,
                WriteFirst, WriteEnd, WriteFailed, WriteDone
  <2>2. closePc[Writer] = "no" /\ UNCHANGED <<dying, sockClosed, userPc>>
    BY <1>6, Zenon DEF WriteStep
  <2> QED BY <1>1, <1>2, <2>1, <2>2, Zenon
<1>7. ASSUME NEW u \in Users, UserStep(u) PROVE UnderWay'
  <2>1. UNCHANGED <<dying, sockClosed>>
    BY <1>7, Zenon DEF UserStep
  <2>2. CASE UserSend(u) \/ UserAppend(u)
    <3>1. UNCHANGED closePc /\ userPc[u] # "done" /\ \A v \in Users : v # u => userPc'[v] = userPc[v]
      BY <1>1, <2>2 DEF UserSend, UserAppend
    <3> QED BY <1>3, <2>1, <3>1, Zenon
  <2>3. CASE UserClose(u)
    <3>1. /\ Enter(u) /\ userPc[u] = "idle" /\ userPc'[u] = "done"
          /\ \A v \in Users : v # u => userPc'[v] = userPc[v]
      BY <1>1, <2>3, Zenon DEF UserClose
    <3>2. closePc[u] = "no"
      <4>1. userPc[u] # "done"
        BY <3>1
      <4> QED BY <4>1, Zenon DEF UnderWay
    <3> QED BY <1>1, <1>2, <2>1, <3>1, <3>2, Zenon
  <2> QED BY <1>7, <2>2, <2>3, Zenon DEF UserStep
<1>8. CASE PeerEnds
  BY <1>3, <1>8, Zenon DEF PeerEnds, closeVars
<1>9. CASE UNCHANGED vars
  BY <1>3, <1>9, Zenon DEF vars, closeVars
<1> QED BY <1>4, <1>5, <1>6, <1>7, <1>8, <1>9, Zenon DEF Next

\* A message that is handed on leaves the buffer, whatever bytes it holds.
LEMMA UnPacketShrinks ==
    ASSUME NEW p \in Protocols, NEW b \in Octets, NEW u, u = UnPacket(p, b), Handles(u)
    PROVE  Len(u.rest) < Len(b)
<1>1. u # NotYet(b)
  BY DEF Handles, NotYet
<1>2. Len(b) \in Nat /\ LengthWidth \in Nat \ {0}
  BY WidthAssumption DEF Octets
<1>3. ASSUME NEW n \in Nat, n = PeekUint(b), Len(b) > LengthWidth,
             Len(Retrieve(b, LengthWidth)) >= n,
             u.rest = Retrieve(Retrieve(b, LengthWidth), n)
      PROVE  Len(u.rest) < Len(b)
  <2>1. LengthWidth \in Nat /\ LengthWidth <= Len(b)
    BY <1>2, <1>3
  <2>2. PICK y \in Octets : y = Retrieve(b, LengthWidth) /\ Len(y) = Len(b) - LengthWidth
    BY <2>1, RetrievedLen, Zenon DEF Left
  <2>3. n <= Len(y)
    BY <1>3, <2>2 DEF Octets
  <2>4. Len(Retrieve(y, n)) = Len(y) - n
    BY <2>3, RetrievedLen, Zenon DEF Left
  <2> QED BY <1>2, <1>3, <2>2, <2>4
<1>4. Len(b) > LengthWidth => PeekUint(b) \in Nat
  BY <1>2 DEF PeekUint, Octets
<1>5. CASE p = "default"
  <2>1. u = DefaultUnPacket(b)
    BY <1>5 DEF UnPacket
  <2>2. u.ctx = NoCtx /\ u.data = b /\ u.rest = <<>>
    BY <2>1 DEF DefaultUnPacket
  <2> QED BY <1>2, <2>2 DEF Handles, Octets
<1>6. CASE p = "example"
  <2>1. u = ExampleUnPacket(b)
    BY <1>6 DEF UnPacket
  <2>2. /\ Len(b) > LengthWidth /\ Len(Retrieve(b, LengthWidth)) >= PeekUint(b)
        /\ u.rest = Retrieve(Retrieve(b, LengthWidth), PeekUint(b))
    BY <1>1, <2>1 DEF ExampleUnPacket
  <2> QED BY <1>3, <1>4, <2>2, Zenon
<1>7. CASE p = "protobuf"
  <2>1. u = ProtobufUnPacket(b)
    BY <1>7 DEF UnPacket
  <2>2. /\ Len(b) > LengthWidth + TypeLenWidth /\ Len(Retrieve(b, LengthWidth)) >= PeekUint(b)
        /\ u.rest = Retrieve(Retrieve(b, LengthWidth), PeekUint(b))
    BY <1>1, <2>1 DEF ProtobufUnPacket
  <2>3. Len(b) > LengthWidth
    BY <1>2, <2>2, WidthAssumption
  <2> QED BY <1>3, <1>4, <2>2, <2>3, Zenon
<1> QED BY <1>5, <1>6, <1>7, Zenon DEF Protocols

\* readLoop comes nearer to its next test of dying, which it fails.
LEMMA ReadLowers ==
    ASSUME ReadInv, dying, ReadStep
    PROVE  Below(ReadRank', ReadRank)
<1>1. CASE ReadEmpty \/ ReadTop
  BY <1>1 DEF ReadEmpty, ReadTop, ReadRank, Below
<1>2. CASE Read
  BY <1>2 DEF Read, ReadRank, Below
<1>3. CASE ReadError
  BY <1>3 DEF ReadError, ReadRank, Below
<1>4. CASE handlerProtocol
  <2>1. PICK u : u = UnPacket(protocol, inBuffer)
    OBVIOUS
  <2>2. CASE Handles(u)
    <3>1. readPc = "protocol" /\ readPc' = "protocol" /\ inBuffer' = u.rest
      BY <1>4, <2>1, <2>2 DEF handlerProtocol
    <3>2. Len(inBuffer') < Len(inBuffer)
      BY <2>1, <2>2, <3>1, UnPacketShrinks, Zenon DEF ReadInv
    <3> QED BY <3>1, <3>2 DEF ReadRank, Below
  <2>3. CASE ~Handles(u)
    <3>1. readPc = "protocol" /\ readPc' = "send"
      BY <1>4, <2>1, <2>3 DEF handlerProtocol
    <3> QED BY <3>1 DEF ReadRank, Below
  <2> QED BY <2>2, <2>3, Zenon
<1>5. CASE ReadSend \/ ReadAppend
  <2>1. \/ readPc = "send" /\ readPc' \in {"append", "top"}
        \/ readPc = "append" /\ readPc' = "top"
    BY <1>5 DEF ReadSend, ReadAppend, ReadDone
  <2> QED BY <2>1 DEF ReadRank, Below
<1> QED BY <1>1, <1>2, <1>3, <1>4, <1>5, Zenon DEF ReadStep

\* writeLoop comes nearer to its next test of dying, which it fails.
LEMMA WriteLowers ==
    ASSUME WriteInv, dying, WriteStep
    PROVE  Below(WriteRank', WriteRank)
<1>1. taskQueueR \in Seq(Octets) /\ (writePc = "send" => taskQueueR # <<>>)
  BY Zenon DEF WriteInv, WriteTypes, WritePcs
<1>2. CASE WriteTop \/ SwapQueues \/ PeekAll
  <2>1. \/ writePc = "top" /\ writePc' = "exited"
        \/ writePc = "swap" /\ writePc' = "run"
        \/ writePc = "run" /\ writePc' \in {"top", "first"}
    BY <1>2 DEF WriteTop, SwapQueues, PeekAll
  <2> QED BY <2>1 DEF WriteRank, Below
<1>3. CASE WriteFirst \/ WriteEnd
  <2>1. \/ writePc = "first" /\ writePc' \in {"end", "top", "exited"}
        \/ writePc = "end" /\ writePc' \in {"top", "exited"}
    BY <1>3 DEF WriteFirst, WriteEnd, WriteFailed, WriteDone
  <2> QED BY <2>1 DEF WriteRank, Below
<1>4. CASE RunClosure \/ sendInLoop
  <2>1. taskQueueR # <<>>
    BY <1>1, <1>4 DEF RunClosure, sendInLoop
  <2>2. Len(taskQueueR) \in Nat /\ Len(Tail(taskQueueR)) = Len(taskQueueR) - 1
    BY <1>1, <2>1
  <2>3. \/ writePc = "run" /\ writePc' = "send" /\ taskQueueR' = taskQueueR
        \/ writePc \in {"run", "send"} /\ writePc' = "run" /\ taskQueueR' = Tail(taskQueueR)
    BY <1>4 DEF RunClosure, sendInLoop
  <2>4. WriteRank[1] = 4 /\ WriteRank[2] = 2 * Len(taskQueueR) + (IF writePc = "run" THEN 1 ELSE 0)
    BY <2>3 DEF WriteRank
  <2>5. /\ WriteRank'[1] = 4
        /\ WriteRank'[2] = 2 * Len(taskQueueR') + (IF writePc' = "run" THEN 1 ELSE 0)
    BY <2>3 DEF WriteRank
  <2>6. WriteRank'[2] < WriteRank[2]
    <3>1. CASE writePc = "run" /\ writePc' = "send" /\ taskQueueR' = taskQueueR
      BY <2>2, <2>4, <2>5, <3>1
    <3>2. CASE writePc \in {"run", "send"} /\ writePc' = "run" /\ taskQueueR' = Tail(taskQueueR)
      BY <2>2, <2>4, <2>5, <3>2
    <3> QED BY <2>3, <3>1, <3>2, Zenon
  <2> QED BY <2>4, <2>5, <2>6, Zenon DEF Below
<1> QED BY <1>2, <1>3, <1>4, Zenon DEF WriteStep

\* Close comes nearer to closing the socket, or closes dying again and panics.
LEMMA CloseLowers ==
    ASSUME RestInv, UnderWay, dying, NEW a \in Closers, CloseStep(a)
    PROVE  panicked' \/ CloseRank' < CloseRank
<1>1. closePc \in [Closers -> {"no", "dying", "flag", "onClose", "conn"}]
  BY Zenon DEF RestInv, CloseTypeOK
<1>2. CASE CloseDying(a)
  BY <1>2, Zenon DEF CloseDying
<1>3. CASE CloseFlag(a) \/ CloseOnClose(a) \/ CloseConn(a)
  <2>1. /\ closePc[a] \in {"flag", "onClose", "conn"}
        /\ \A b \in Closers : b # a => closePc'[b] = closePc[b]
    BY <1>1, <1>3, Zenon DEF CloseFlag, CloseOnClose, CloseConn
  <2>2. ~sockClosed /\ \A b \in Closers : b # a => ~Finishing(b)
    BY <2>1, Zenon DEF UnderWay, Finishing
  <2>3. \A b \in Closers : b # a => /\ closePc[b] \notin {"flag", "onClose", "conn"}
                                    /\ closePc'[b] \notin {"flag", "onClose", "conn"}
    BY <2>1, <2>2, Zenon DEF Finishing
  <2>4. /\ (\E b \in Closers : closePc[b] = "conn") <=> closePc[a] = "conn"
        /\ (\E b \in Closers : closePc[b] = "onClose") <=> closePc[a] = "onClose"
        /\ (\E b \in Closers : closePc'[b] = "conn") <=> closePc'[a] = "conn"
        /\ (\E b \in Closers : closePc'[b] = "onClose") <=> closePc'[a] = "onClose"
    BY <2>3, Zenon
  <2>5. CASE CloseFlag(a)
    <3>1. closePc[a] = "flag" /\ closePc'[a] = "onClose" /\ ~sockClosed'
      BY <1>1, <2>2, <2>5, Zenon DEF CloseFlag
    <3>2. CloseRank = 3
      BY <2>2, <2>4, <3>1 DEF CloseRank
    <3>3. CloseRank' = 2
      BY <2>2, <2>4, <3>1 DEF CloseRank
    <3> QED BY <3>2, <3>3
  <2>6. CASE CloseOnClose(a)
    <3>1. closePc[a] = "onClose" /\ closePc'[a] = "conn" /\ ~sockClosed'
      BY <1>1, <2>2, <2>6, Zenon DEF CloseOnClose
    <3>2. CloseRank = 2
      BY <2>2, <2>4, <3>1 DEF CloseRank
    <3>3. CloseRank' = 1
      BY <2>2, <2>4, <3>1 DEF CloseRank
    <3> QED BY <3>2, <3>3
  <2>7. CASE CloseConn(a)
    <3>1. closePc[a] = "conn" /\ sockClosed'
      BY <2>7, Zenon DEF CloseConn
    <3>2. CloseRank = 1
      BY <2>2, <2>4, <3>1 DEF CloseRank
    <3>3. CloseRank' = 0
      BY <2>2, <2>4, <3>1 DEF CloseRank
    <3> QED BY <3>2, <3>3
  <2> QED BY <1>3, <2>5, <2>6, <2>7, Zenon
<1> QED BY <1>2, <1>3, Zenon DEF CloseStep, CloseSteps

\* To enter Close does not move whoever is past the channel.
LEMMA EnterLeavesRank ==
    ASSUME RestInv, NEW a \in Closers, closePc[a] = "no", Enter(a) \/ UNCHANGED closePc,
           UNCHANGED sockClosed
    PROVE  UNCHANGED CloseRank
<1>1. closePc \in [Closers -> {"no", "dying", "flag", "onClose", "conn"}]
  BY Zenon DEF RestInv, CloseTypeOK
<1>2. \A b \in Closers : b # a => closePc'[b] = closePc[b]
  BY <1>1, Zenon DEF Enter
<1>3. closePc'[a] \in {"no", "dying"}
  BY <1>1, Zenon DEF Enter
<1>4. /\ (\E b \in Closers : closePc'[b] = "conn") <=> (\E b \in Closers : closePc[b] = "conn")
      /\ (\E b \in Closers : closePc'[b] = "onClose") <=> (\E b \in Closers : closePc[b] = "onClose")
  BY <1>2, <1>3
<1> QED BY <1>4, Zenon DEF CloseRank

\* Each of the three leaves the ranks of the other two alone, and so do users
\* and the other end.
LEMMA OthersLeaveRanks ==
    ASSUME RestInv, UnderWay, [Next]_vars
    PROVE  /\ (\E a \in Closers : CloseStep(a)) \/ UNCHANGED CloseRank
           /\ ReadStep \/ UNCHANGED ReadRank
           /\ WriteStep \/ UNCHANGED WriteRank
<1>1. Reader \in Closers /\ Writer \in Closers /\ Users \subseteq Closers
  BY ClosersAssumption, Zenon
<1>2. UNCHANGED <<readPc, inBuffer>> => UNCHANGED ReadRank
  BY Zenon DEF ReadRank
<1>3. UNCHANGED <<writePc, taskQueueR>> => UNCHANGED WriteRank
  BY Zenon DEF WriteRank
<1>4. UNCHANGED <<closePc, sockClosed>> => UNCHANGED CloseRank
  BY DEF CloseRank
<1>5. ASSUME NEW a \in Closers, CloseStep(a) PROVE UNCHANGED <<readPc, inBuffer, writePc, taskQueueR>>
  BY <1>5, Zenon DEF CloseStep, readVars, writeVars
<1>6. CASE ReadStep
  <2>1. UNCHANGED <<writePc, taskQueueR, sockClosed>> /\ closePc[Reader] = "no"
    BY <1>6, Zenon DEF ReadStep, writeVars
  <2>2. Enter(Reader) \/ UNCHANGED closePc
    BY <1>6, Zenon DEF ReadStep, ReadEmpty, ReadTop, Read, ReadError, handlerProtocol, ReadSend,
                       ReadAppend
  <2> QED BY <1>1, <1>3, <1>6, <2>1, <2>2, EnterLeavesRank, Zenon
<1>7. CASE WriteStep
  <2>1. UNCHANGED <<readPc, inBuffer, sockClosed>> /\ closePc[Writer] = "no"
    BY <1>7, Zenon DEF WriteStep, readVars
  <2>2. Enter(Writer) \/ UNCHANGED closePc
    BY <1>7 DEF WriteStep, WriteTop, SwapQueues, RunClosure, sendInLoop, PeekAll,
                WriteFirst, WriteEnd, WriteFailed, WriteDone
  <2> QED BY <1>1, <1>2, <1>7, <2>1, <2>2, EnterLeavesRank, Zenon
<1>8. ASSUME NEW u \in Users, UserStep(u)
      PROVE  UNCHANGED <<readPc, inBuffer, writePc, taskQueueR>> /\ UNCHANGED CloseRank
  <2>1. UNCHANGED <<readPc, inBuffer, writePc, taskQueueR, sockClosed>>
    BY <1>8, Zenon DEF UserStep, readVars, writeVars
  <2>2. UNCHANGED closePc \/ (Enter(u) /\ userPc[u] = "idle")
    BY <1>8, Zenon DEF UserStep, UserSend, UserAppend, UserClose
  <2>3. "idle" # "done"
    OBVIOUS
  <2>4. UNCHANGED closePc \/ (Enter(u) /\ closePc[u] = "no")
    BY <2>2, <2>3, Zenon DEF UnderWay
  <2> QED BY <1>1, <1>4, <2>1, <2>4, EnterLeavesRank, Zenon
<1>9. CASE PeerEnds \/ UNCHANGED vars
  <2>1. UNCHANGED <<readPc, inBuffer, writePc, taskQueueR, closePc, sockClosed>>
    BY <1>9, Zenon DEF PeerEnds, vars, closeVars, readVars, writeVars
  <2> QED BY <1>2, <1>3, <1>4, <2>1, Zenon
<1> QED BY <1>2, <1>3, <1>5, <1>6, <1>7, <1>8, <1>9, Zenon DEF Next

\* Once Close has closed the channel dying, each loop has finitely many steps
\* left: it never waits in Read without a Close on its way to closing the
\* socket, every step of readLoop, of writeLoop and of that Close lowers a rank
\* of natural numbers, and what clients send, users submit and other goroutines
\* close meanwhile changes none, with any number of users and for every stream.
THEOREM LoopsAlwaysComeNearer ==
    Spec => /\ [](LoopsNotStuck /\ CloseRank \in Nat /\ {ReadRank, WriteRank} \subseteq Nat \X Nat)
            /\ LoopsComeNearer
<1>1. Init => UnderWay
  BY ClosersAssumption DEF Init, CloseInit, UnderWay, Finishing
<1>2. Inv /\ UnderWay /\ [Next]_vars => UnderWay'
  BY UnderWayStep, Zenon DEF Inv
<1>3. Inv /\ UnderWay =>
          LoopsNotStuck /\ CloseRank \in Nat /\ {ReadRank, WriteRank} \subseteq Nat \X Nat
  <2> SUFFICES ASSUME Inv, UnderWay
               PROVE  /\ LoopsNotStuck /\ CloseRank \in Nat
                      /\ {ReadRank, WriteRank} \subseteq Nat \X Nat
    BY Zenon
  <2>1. LoopsNotStuck
    <3>1. closePc[Reader] = "no" => ~Finishing(Reader)
      BY DEF Finishing
    <3> QED BY <3>1, Zenon DEF LoopsNotStuck, UnderWay, Inv, WriteInv, WritePcs
  <2>2. CloseRank \in Nat
    BY DEF CloseRank
  <2>3. Len(inBuffer) \in Nat /\ Len(taskQueueR) \in Nat
    BY DEF Inv, ReadInv, WriteInv, WriteTypes, Octets
  <2>4. ReadRank \in Nat \X Nat
    BY <2>3 DEF ReadRank
  <2>5. WriteRank \in Nat \X Nat
    BY <2>3 DEF WriteRank
  <2> QED BY <2>1, <2>2, <2>4, <2>5, Zenon
<1>4. Inv /\ UnderWay /\ [Next]_vars =>
        [dying =>
         /\ IF \E a \in Closers : CloseStep(a) THEN panicked' \/ CloseRank' < CloseRank
                                               ELSE UNCHANGED CloseRank
         /\ IF ReadStep THEN Below(ReadRank', ReadRank) ELSE UNCHANGED ReadRank
         /\ IF WriteStep THEN Below(WriteRank', WriteRank) ELSE UNCHANGED WriteRank]_vars
  BY CloseLowers, ReadLowers, WriteLowers, OthersLeaveRanks, Zenon DEF Inv
<1> QED BY <1>1, <1>2, <1>3, <1>4, Inductive, PTL DEF Spec, LoopsComeNearer
=============================================================================
