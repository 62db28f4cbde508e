-------------------------- MODULE WebSocketProofs ---------------------------
(***************************************************************************)
(* Proofs about WebSocket, for any frames of less than 2^32 bytes, any     *)
(* number of them, and reads that end anywhere, and for any requests.      *)
(* What Upgrade makes of a list of header lines is an induction over it.   *)
(***************************************************************************)
EXTENDS WebSocket, SequenceTheorems, WellFoundedInduction, TLAPS

-----------------------------------------------------------------------------
(* Induction and recursion over the numbers *)

\* A non-empty set of numbers has a least element.
LEMMA NatMin ==
    ASSUME NEW T \in SUBSET Nat, T # {}
    PROVE  \E n \in T : \A m \in T : n <= m
<1> DEFINE R == OpToRel(<, Nat)
<1>1. IsWellFoundedOn(R, Nat)
  BY NatLessThanWellFounded, Zenon
<1>2. \A x, y \in Nat : y < x => <<y, x>> \in R
  BY DEF OpToRel
<1> HIDE DEF R
<1>3. PICK x \in T : \A y \in T : ~(<<y, x>> \in R)
  BY <1>1, WFMin, Zenon
<1>4. ASSUME NEW y \in T PROVE x <= y
  <2>1. x \in Nat /\ y \in Nat
    OBVIOUS
  <2>2. ~(y < x)
    BY <1>2, <1>3, <2>1, Zenon
  <2> QED BY <2>1, <2>2
<1> QED BY <1>4

\* Induction up to N: G is the set of the numbers for which the claim holds.
LEMMA UpTo ==
    ASSUME NEW N \in Nat, NEW G, 0 \in G, \A k \in 1..N : k - 1 \in G => k \in G
    PROVE  \A k \in 0..N : k \in G
<1> DEFINE T == (0..N) \ G
<1> SUFFICES ASSUME T # {} PROVE FALSE
  OBVIOUS
<1>1. T \in SUBSET Nat
  OBVIOUS
<1>2. PICK k \in T : \A m \in T : k <= m
  <2> HIDE DEF T
  <2> QED BY <1>1, NatMin
<1>3. k \in 1..N /\ k - 1 \in 0..N
  OBVIOUS
<1>4. k - 1 \notin T
  BY <1>2, <1>3
<1> QED BY <1>3, <1>4

\* A function can be defined by recursion up to N.
Recurs(f, N, base, step) == f[0] = base /\ \A n \in 1..N : f[n] = step[n][f[n - 1]]

\* Such a function exists for every base and every step.
LEMMA Recursion ==
    ASSUME NEW S, NEW N \in Nat, NEW base \in S, NEW step \in [1..N -> [S -> S]]
    PROVE  \E f \in [0..N -> S] : Recurs(f, N, base, step)
<1> USE DEF Recurs
<1> DEFINE Runs(f, k) == Recurs(f, k, base, step)
           G == {k \in 0..N : \E f \in [0..N -> S] : Runs(f, k)}
<1>1. 0 \in G
  <2>1. [n \in 0..N |-> base] \in [0..N -> S]
    OBVIOUS
  <2>2. Runs([n \in 0..N |-> base], 0)
    OBVIOUS
  <2>3. 0 \in 0..N
    OBVIOUS
  <2> HIDE DEF Runs
  <2> QED BY <2>1, <2>2, <2>3, Zenon
<1>2. ASSUME NEW k \in 1..N, k - 1 \in G PROVE k \in G
  <2>1. PICK f \in [0..N -> S] : Runs(f, k - 1)
    BY <1>2
  <2> DEFINE g == [f EXCEPT ![k] = step[k][f[k - 1]]]
  <2>2. step[k][f[k - 1]] \in S
    OBVIOUS
  <2>3. g \in [0..N -> S] /\ g[0] = base
    BY <2>1, <2>2
  <2>4. \A n \in 1..k : g[n] = step[n][g[n - 1]]
    BY <2>1
  <2>5. Runs(g, k) /\ k \in 0..N
    BY <2>3, <2>4
  <2> HIDE DEF Runs, g
  <2> QED BY <2>3, <2>5, Zenon
<1>3. N \in G
  <2> HIDE DEF G
  <2>1. \A k \in 0..N : k \in G
    BY <1>1, <1>2, UpTo, Zenon
  <2> QED BY <2>1
<1> QED BY <1>3

\* Functions that start alike and step alike agree.
LEMMA Agree ==
    ASSUME NEW N \in Nat, NEW g, NEW h, g[0] = h[0],
           \A k \in 1..N : g[k - 1] = h[k - 1] => g[k] = h[k]
    PROVE  g[N] = h[N]
<1> DEFINE G == {k \in 0..N : g[k] = h[k]}
<1>1. 0 \in G
  OBVIOUS
<1>2. ASSUME NEW k \in 1..N, k - 1 \in G PROVE k \in G
  <2>1. k \in 0..N
    OBVIOUS
  <2> QED BY <1>2, <2>1, Zenon
<1> HIDE DEF G
<1>3. \A k \in 0..N : k \in G
  BY <1>1, <1>2, UpTo
<1> USE DEF G
<1>4. N \in 0..N
  OBVIOUS
<1> QED BY <1>3, <1>4, Zenon

-----------------------------------------------------------------------------
(* The handshake *)

HeaderSet  == [key : Keys, val : {"good", "bad", "none"}, code : Codes \cup {0}]
RequestSet == [line : Lines, headers : Seq(HeaderSet), before : Codes \cup {0, Nil}]
Errors     == {Nil, 0, 400, 426} \cup Codes
LoopStates == [seen : SUBSET Required, protocol : BOOLEAN, err : Errors]
LoopStart  == [seen |-> {}, protocol |-> FALSE, err |-> Nil]

\* The loop of Upgrade turn by turn: g holds its state after each header line.
Turns(g, h) == g[0] = LoopStart /\ \A n \in 1..Len(h) : g[n] = HeaderLine(g[n - 1], h[n])

\* A header line that is found wrong has an error.
LEMMA RejectionType == ASSUME NEW h \in HeaderSet PROVE Rejection(h) \in Errors \ {Nil}
<1>1. h.code \in Codes \cup {0} /\ h.code # Nil
  BY CodesAssumption DEF HeaderSet, Nil
<1> QED BY <1>1 DEF Rejection, Errors, Nil

\* The status written for an error is one of the responses.
LEMMA StatusType ==
    ASSUME NEW e \in Errors, e # Nil
    PROVE  Status(e) \in Responses
BY DEF Status, Errors, Responses

\* A turn of the loop leaves a state of the loop.
LEMMA HeaderLineType ==
    ASSUME NEW s \in LoopStates, NEW h \in HeaderSet
    PROVE  HeaderLine(s, h) \in LoopStates
<1>1. CASE s.err # Nil \/ (h.key = "secProtocol" /\ s.protocol)
  BY <1>1, Zenon DEF HeaderLine
<1>2. CASE ~(s.err # Nil \/ (h.key = "secProtocol" /\ s.protocol))
  <2>1. PICK e : e = IF h.val = "bad" THEN Rejection(h) ELSE Nil
    OBVIOUS
  <2>2. e \in Errors
    BY <2>1, RejectionType DEF Errors
  <2>3. PICK p \in BOOLEAN : p = (s.protocol \/ (h.key = "secProtocol" /\ h.val = "good"))
    BY Zenon
  <2>4. HeaderLine(s, h) =
           [seen |-> s.seen \cup ({h.key} \cap Required), protocol |-> p, err |-> e]
    BY <1>2, <2>1, <2>3, Zenon DEF HeaderLine
  <2>5. s.seen \cup ({h.key} \cap Required) \in SUBSET Required
    BY DEF LoopStates
  <2> QED BY <2>2, <2>4, <2>5 DEF LoopStates
<1> QED BY <1>1, <1>2

\* HeaderLines is the state after the last turn.
LEMMA HeaderLinesTurns ==
    ASSUME NEW h \in Seq(HeaderSet)
    PROVE  \E g \in [0..Len(h) -> LoopStates] : Turns(g, h) /\ HeaderLines(h) = g[Len(h)]
<1> DEFINE N == Len(h)
           step == [n \in 1..N |-> [s \in LoopStates |-> HeaderLine(s, h[n])]]
           F(f) == [n \in 0..N |-> IF n = 0 THEN [seen |-> {}, protocol |-> FALSE, err |-> Nil]
                                   ELSE HeaderLine(f[n - 1], h[n])]
           run == CHOOSE f : f = F(f)
<1>1. N \in Nat /\ LoopStart \in LoopStates /\ \A n \in 1..N : h[n] \in HeaderSet
  BY DEF LoopStart, LoopStates, Errors
<1>2. step \in [1..N -> [LoopStates -> LoopStates]]
  BY <1>1, HeaderLineType, Zenon
<1>3. PICK g \in [0..N -> LoopStates] : Recurs(g, N, LoopStart, step)
  <2> HIDE DEF step, N
  <2> QED BY <1>1, <1>2, Recursion, Zenon
<1>4. ASSUME NEW n \in 1..N PROVE g[n] = HeaderLine(g[n - 1], h[n])
  <2>1. n - 1 \in 0..N
    BY <1>1
  <2>2. g[n - 1] \in LoopStates
    BY <2>1, Zenon
  <2>3. step[n][g[n - 1]] = HeaderLine(g[n - 1], h[n])
    BY <2>2, Zenon
  <2>4. g[n] = step[n][g[n - 1]]
    BY <1>3, Zenon DEF Recurs
  <2> QED BY <2>3, <2>4, Zenon
<1>5. g[0] = LoopStart
  BY <1>3, Zenon DEF Recurs
<1>6. g = F(g)
  <2>1. ASSUME NEW n \in 0..N
        PROVE  g[n] = IF n = 0 THEN [seen |-> {}, protocol |-> FALSE, err |-> Nil]
                      ELSE HeaderLine(g[n - 1], h[n])
    <3>1. n = 0 \/ n \in 1..N
      BY <1>1
    <3> QED BY <1>4, <1>5, <3>1, Zenon DEF LoopStart
  <2> QED BY <2>1, Zenon
<1>7. run = F(run)
  <2> HIDE DEF F
  <2> QED BY <1>6, Zenon
<1>8. HeaderLines(h) = run[N]
  BY Zenon DEF HeaderLines
<1>9. run[0] = LoopStart /\ \A n \in 1..N : run[n] = HeaderLine(run[n - 1], h[n])
  <2> HIDE DEF run
  <2>1. \A n \in 1..N : n \in 0..N /\ n # 0
    BY <1>1
  <2>2. 0 \in 0..N
    BY <1>1
  <2> QED BY <1>7, <2>1, <2>2, Zenon DEF LoopStart
<1>10. run[N] = g[N]
  <2> HIDE DEF run, N
  <2>1. run[0] = g[0] /\ \A k \in 1..N : run[k - 1] = g[k - 1] => run[k] = g[k]
    BY <1>4, <1>5, <1>9, Zenon
  <2> QED BY <1>1, <2>1, Agree, Zenon
<1> HIDE DEF run
<1> QED BY <1>4, <1>5, <1>8, <1>10, Zenon DEF Turns

\* What the loop is to have made of the first n header lines h: whether it has
\* selected a subprotocol, whether line i is an objection, whether there is
\* none, and which headers it has met.
Chosen(h, n)  == \E j \in 1..n : h[j].key = "secProtocol" /\ h[j].val = "good"
Objects(h, i) == h[i].val = "bad" /\ ~(h[i].key = "secProtocol" /\ Chosen(h, i - 1))
Clean(h, n)   == \A i \in 1..n : ~Objects(h, i)
KeysTo(h, n)  == {h[i].key : i \in 1..n}

\* State s is right after n lines: the headers met and the choice are recorded
\* as long as nobody objects, and the first objection settles the answer.
Recorded(s, h, n) ==
    s.err = Nil /\ s.seen = Required \cap KeysTo(h, n) /\ (s.protocol <=> Chosen(h, n))
Settled(s, h, n) ==
    \A k \in 1..n : Objects(h, k) /\ Clean(h, k - 1) => s.err = Rejection(h[k])
After(s, h, n) == (Clean(h, n) => Recorded(s, h, n)) /\ Settled(s, h, n)

\* One more line: what the definitions above come to.
LEMMA OneMore ==
    ASSUME NEW h \in Seq(HeaderSet), NEW n \in 1..Len(h)
    PROVE  /\ Chosen(h, n) <=> (Chosen(h, n - 1) \/ (h[n].key = "secProtocol" /\ h[n].val = "good"))
           /\ Clean(h, n) <=> (Clean(h, n - 1) /\ ~Objects(h, n))
           /\ KeysTo(h, n) = KeysTo(h, n - 1) \cup {h[n].key}
<1>1. \A i : i \in 1..n <=> (i \in 1..(n - 1) \/ i = n)
  OBVIOUS
<1>2. Chosen(h, n) <=> (Chosen(h, n - 1) \/ (h[n].key = "secProtocol" /\ h[n].val = "good"))
  BY <1>1, Zenon DEF Chosen
<1>3. Clean(h, n) <=> (Clean(h, n - 1) /\ ~Objects(h, n))
  BY <1>1, Zenon DEF Clean
<1>4. KeysTo(h, n) = KeysTo(h, n - 1) \cup {h[n].key}
  BY <1>1, Zenon DEF KeysTo
<1> QED BY <1>2, <1>3, <1>4

\* A turn of the loop keeps its state right.
LEMMA TurnStep ==
    ASSUME NEW h \in Seq(HeaderSet), NEW n \in 1..Len(h), NEW s \in LoopStates,
           After(s, h, n - 1)
    PROVE  After(HeaderLine(s, h[n]), h, n)
<1>1. PICK t : t = HeaderLine(s, h[n])
  OBVIOUS
<1>2. PICK x \in HeaderSet : x = h[n]
  OBVIOUS
<1>3. x.key \in Keys /\ x.val \in {"good", "bad", "none"}
  BY DEF HeaderSet
<1>5. ASSUME Clean(h, n) PROVE Recorded(t, h, n)
  <2>1. Clean(h, n - 1) /\ ~Objects(h, n)
    BY <1>5, OneMore, Zenon
  <2>2. /\ s.err = Nil /\ s.seen = Required \cap KeysTo(h, n - 1)
        /\ s.protocol <=> Chosen(h, n - 1)
    BY <2>1, Zenon DEF After, Recorded
  <2>3. CASE x.key = "secProtocol" /\ s.protocol
    <3>1. t = s
      BY <1>1, <1>2, <2>3, Zenon DEF HeaderLine
    <3>2. Chosen(h, n)
      BY <2>2, <2>3, OneMore, Zenon
    <3>3. {x.key} \cap Required = {}
      BY <2>3 DEF Required
    <3>4. Required \cap KeysTo(h, n) = Required \cap KeysTo(h, n - 1)
      <4>1. KeysTo(h, n) = KeysTo(h, n - 1) \cup {x.key}
        BY <1>2, OneMore, Zenon
      <4> QED BY <3>3, <4>1
    <3> QED BY <2>2, <2>3, <3>1, <3>2, <3>4, Zenon DEF Recorded
  <2>4. CASE ~(x.key = "secProtocol" /\ s.protocol)
    <3>1. x.val # "bad"
      BY <1>2, <2>1, <2>2, <2>4, Zenon DEF Objects
    <3>2. PICK p \in BOOLEAN : p <=> (s.protocol \/ (x.key = "secProtocol" /\ x.val = "good"))
      BY Zenon
    <3>3. t = [seen |-> s.seen \cup ({x.key} \cap Required),
               protocol |-> s.protocol \/ (x.key = "secProtocol" /\ x.val = "good"),
               err |-> IF x.val = "bad" THEN Rejection(x) ELSE Nil]
      BY <1>1, <1>2, <2>2, <2>4, Zenon DEF HeaderLine
    <3>4. /\ t.seen = s.seen \cup ({x.key} \cap Required) /\ t.err = Nil
          /\ t.protocol <=> (s.protocol \/ (x.key = "secProtocol" /\ x.val = "good"))
      BY <3>1, <3>3, Zenon
    <3>5. t.protocol <=> Chosen(h, n)
      BY <1>2, <2>2, <3>4, OneMore, Zenon
    <3>6. t.seen = Required \cap KeysTo(h, n)
      <4>1. KeysTo(h, n) = KeysTo(h, n - 1) \cup {x.key}
        BY <1>2, OneMore, Zenon
      <4> QED BY <2>2, <3>4, <4>1
    <3> QED BY <3>4, <3>5, <3>6, Zenon DEF Recorded
  <2> QED BY <2>3, <2>4, Zenon
<1>6. ASSUME NEW k \in 1..n, Objects(h, k), Clean(h, k - 1) PROVE t.err = Rejection(h[k])
  <2>1. CASE k = n
    <3>1. s.err = Nil /\ (s.protocol <=> Chosen(h, n - 1))
      BY <1>6, <2>1, Zenon DEF After, Recorded
    <3>2. x.val = "bad" /\ ~(x.key = "secProtocol" /\ s.protocol)
      BY <1>2, <1>6, <2>1, <3>1, Zenon DEF Objects
    <3>3. t = [seen |-> s.seen \cup ({x.key} \cap Required),
               protocol |-> s.protocol \/ (x.key = "secProtocol" /\ x.val = "good"),
               err |-> IF x.val = "bad" THEN Rejection(x) ELSE Nil]
      BY <1>1, <1>2, <3>1, <3>2, Zenon DEF HeaderLine
    <3> QED BY <1>2, <2>1, <3>2, <3>3, Zenon
  <2>2. CASE k # n
    <3>1. k \in 1..(n - 1)
      BY <2>2
    <3>2. s.err = Rejection(h[k])
      BY <1>6, <3>1, Zenon DEF After, Settled
    <3>3. h[k] \in HeaderSet
      BY <3>1
    <3>4. s.err # Nil
      BY <3>2, <3>3, RejectionType, Zenon
    <3> QED BY <1>1, <3>2, <3>4, Zenon DEF HeaderLine
  <2> QED BY <2>1, <2>2, Zenon
<1> QED BY <1>1, <1>5, <1>6, Zenon DEF After, Settled

\* The loop over the header lines ends in the right state.
LEMMA LoopIsRight ==
    ASSUME NEW h \in Seq(HeaderSet)
    PROVE  After(HeaderLines(h), h, Len(h)) /\ HeaderLines(h) \in LoopStates
<1>1. PICK g \in [0..Len(h) -> LoopStates] : Turns(g, h) /\ HeaderLines(h) = g[Len(h)]
  BY HeaderLinesTurns, Zenon
<1> DEFINE N == Len(h)
           G == {n \in 0..N : After(g[n], h, n)}
<1>2. N \in Nat
  OBVIOUS
<1>3. 0 \in G
  <2>1. \A i \in 1..0 : FALSE
    OBVIOUS
  <2>2. Required \cap KeysTo(h, 0) = {} /\ ~Chosen(h, 0)
    BY <2>1, Zenon DEF KeysTo, Chosen
  <2>3. g[0].err = Nil /\ g[0].seen = {} /\ ~g[0].protocol
    <3>1. g[0] = LoopStart
      BY <1>1, Zenon DEF Turns
    <3> QED BY <3>1 DEF LoopStart
  <2>4. After(g[0], h, 0)
    BY <2>1, <2>2, <2>3, Zenon DEF After, Recorded, Settled
  <2> QED BY <1>2, <2>4
<1>4. ASSUME NEW n \in 1..N, n - 1 \in G PROVE n \in G
  <2>1. n \in 0..N /\ n - 1 \in 0..N
    BY <1>2
  <2>2. g[n - 1] \in LoopStates /\ After(g[n - 1], h, n - 1)
    BY <1>4, <2>1, Zenon
  <2>3. g[n] = HeaderLine(g[n - 1], h[n])
    BY <1>1, Zenon DEF Turns
  <2>4. After(g[n], h, n)
    BY <2>2, <2>3, TurnStep, Zenon
  <2> QED BY <2>1, <2>4, Zenon
<1>5. \A n \in 0..N : n \in G
  <2> HIDE DEF G, N
  <2> QED BY <1>2, <1>3, <1>4, UpTo, Zenon
<1>6. N \in 0..N
  BY <1>2
<1> QED BY <1>1, <1>5, <1>6, Zenon

\* Upgrade answers a request by what its headers come to, without the loop.
LEMMA AnswerIsRight ==
    ASSUME NEW req \in RequestSet
    PROVE  /\ UpgradeOk(req) <=> Acceptable(req)
           /\ req.line = "ok" =>
                 UpgradeResponse(req) = IF Acceptable(req) THEN 101 ELSE Refusal(req)
           /\ UpgradeResponse(req) \in Responses
<1>1. PICK h \in Seq(HeaderSet) : h = req.headers
  BY DEF RequestSet
<1>2. PICK s \in LoopStates : s = HeaderLines(req.headers) /\ After(s, h, Len(h))
  BY <1>1, LoopIsRight, Zenon
<1>3. DOMAIN req.headers = 1..Len(h) /\ Len(h) \in Nat
  BY <1>1
<1>4. \A i : Objection(req, i) <=> Objects(h, i)
  BY <1>1, Zenon DEF Objection, Objects, Chosen
<1>5. Objections(req) = {i \in 1..Len(h) : Objects(h, i)}
  BY <1>3, <1>4, Zenon DEF Objections
<1>6. {req.headers[i].key : i \in DOMAIN req.headers} = KeysTo(h, Len(h))
  BY <1>1, <1>3, Zenon DEF KeysTo
<1>7. CASE req.line # "ok"
  <2>1. UpgradeResponse(req) = Nil /\ ~UpgradeOk(req) /\ ~Acceptable(req)
    BY <1>7, Zenon DEF UpgradeResponse, UpgradeOk, Acceptable
  <2> QED BY <1>7, <2>1 DEF Responses
<1>8. ASSUME req.line = "ok", UpgradeError(req) # Nil, UpgradeError(req) \in Errors
      PROVE  /\ ~UpgradeOk(req) /\ UpgradeResponse(req) = Status(UpgradeError(req))
             /\ UpgradeResponse(req) \in Responses
  <2>1. ~UpgradeOk(req) /\ UpgradeResponse(req) = Status(UpgradeError(req))
    BY <1>8, Zenon DEF UpgradeResponse, UpgradeOk
  <2> QED BY <1>8, <2>1, StatusType, Zenon
<1>9. CASE req.line = "ok" /\ Objections(req) # {}
  <2>1. Objections(req) \in SUBSET Nat
    BY <1>3, <1>5
  <2>2. \E i \in Objections(req) : \A j \in Objections(req) : i <= j
    BY <1>9, <2>1, NatMin, Zenon
  <2>3. PICK k \in Objections(req) : k = FirstObjection(req) /\ \A j \in Objections(req) : k <= j
    BY <2>2, Zenon DEF FirstObjection
  <2>4. k \in 1..Len(h) /\ Objects(h, k)
    BY <1>5, <2>3, Zenon
  <2>5. Clean(h, k - 1)
    <3>1. \A j \in 1..(k - 1) : j \in 1..Len(h) /\ ~(k <= j)
      BY <1>3, <2>4
    <3> QED BY <1>5, <2>3, <3>1, Zenon DEF Clean
  <2>6. s.err = Rejection(h[k])
    BY <1>2, <2>4, <2>5, Zenon DEF After, Settled
  <2>7. h[k] \in HeaderSet
    BY <2>4
  <2>8. s.err # Nil /\ s.err \in Errors
    BY <2>6, <2>7, RejectionType, Zenon
  <2>9. UpgradeError(req) = s.err
    BY <1>2, <2>8, Zenon DEF UpgradeError
  <2>10. Refusal(req) = Status(s.err)
    BY <1>1, <1>9, <2>3, <2>6, Zenon DEF Refusal
  <2>11. ~Acceptable(req)
    BY <1>9, Zenon DEF Acceptable
  <2> QED BY <1>8, <1>9, <2>8, <2>9, <2>10, <2>11, Zenon
<1>10. CASE req.line = "ok" /\ Objections(req) = {}
  <2>1. Clean(h, Len(h))
    BY <1>5, <1>10, Zenon DEF Clean
  <2>2. s.err = Nil /\ s.seen = Required \cap KeysTo(h, Len(h))
    BY <1>2, <2>1, Zenon DEF After, Recorded
  <2>3. s.seen = Required <=> Required \subseteq KeysTo(h, Len(h))
    BY <2>2
  <2>4. Acceptable(req) <=> (req.before = Nil /\ s.seen = Required)
    BY <1>6, <1>10, <2>3, Zenon DEF Acceptable
  <2>5. Refusal(req) = Status(IF s.seen # Required THEN 400 ELSE req.before)
    BY <1>6, <1>10, <2>3, Zenon DEF Refusal
  <2>6. UpgradeError(req) = IF s.seen # Required THEN 400 ELSE req.before
    BY <1>2, <2>2, Zenon DEF UpgradeError
  <2>7. CASE UpgradeError(req) = Nil
    <3>1. UpgradeOk(req) /\ UpgradeResponse(req) = 101
      BY <1>10, <2>7, Zenon DEF UpgradeOk, UpgradeResponse
    <3>2. 400 # Nil /\ 101 \in Responses
      BY DEF Nil, Responses
    <3>3. Acceptable(req)
      BY <2>4, <2>6, <2>7, <3>2
    <3> QED BY <3>1, <3>2, <3>3
  <2>8. CASE UpgradeError(req) # Nil
    <3>1. UpgradeError(req) \in Errors
      BY <2>6 DEF RequestSet, Errors
    <3> QED BY <1>8, <1>10, <2>4, <2>5, <2>6, <2>8, <3>1, Zenon
  <2> QED BY <2>7, <2>8, Zenon
<1> QED BY <1>7, <1>9, <1>10, Zenon

\* What holds of the handshake's variables.  Only a request that the client has
\* made is answered, and one that has been answered has been answered rightly.
Handshake ==
    /\ request \in Requests \cup {NoRequest} /\ response \in Responses
    /\ reqCount \in 0..MaxRequests /\ reqBytes \in {"none", "part", "all", "taken"}
    /\ reqBytes # "none" => request \in Requests
    /\ UpgradeSound

\* Every step keeps that.
LEMMA HandshakeStep ==
    ASSUME upgraded \in BOOLEAN, Handshake, [Next]_vars
    PROVE  Handshake'
<1>1. CASE ClientRequest
  <2>1. /\ request' \in Requests /\ response' = Nil /\ reqBytes' = "none"
        /\ reqCount < MaxRequests /\ reqCount' = reqCount + 1
    BY <1>1, Zenon DEF ClientRequest
  <2>2. reqCount' \in 0..MaxRequests
    BY <2>1, BoundsAssumption DEF Handshake
  <2> QED BY <2>1, <2>2 DEF Handshake, UpgradeSound, Responses
<1>2. CASE ArriveRequest
  <2>1. /\ request # NoRequest /\ reqBytes' \in {"part", "all"}
        /\ UNCHANGED <<request, response, reqCount>>
    BY <1>2, Zenon DEF ArriveRequest
  <2> QED BY <2>1 DEF Handshake, UpgradeSound
<1>3. CASE UnPacketUpgrade
  <2>1. CASE reqBytes # "all"
    <3>1. UNCHANGED <<upgraded, request, reqCount, reqBytes, response>>
      BY <1>3, <2>1, Zenon DEF UnPacketUpgrade, hsVars
    <3> QED BY <3>1 DEF Handshake, UpgradeSound
  <2>2. CASE reqBytes = "all"
    <3>1. /\ reqBytes' = "taken" /\ response' = UpgradeResponse(request)
          /\ upgraded' = UpgradeOk(request) /\ UNCHANGED <<request, reqCount>>
      BY <1>3, <2>2, Zenon DEF UnPacketUpgrade
    <3>2. request \in Requests
      BY <2>2, Zenon DEF Handshake
    <3>3. request \in RequestSet
      BY <3>2, RequestsAssumption, Zenon DEF RequestSet, HeaderSet
    <3>4. UpgradeSound' /\ response' \in Responses
      BY <3>1, <3>3, AnswerIsRight, Zenon DEF UpgradeSound
    <3> QED BY <3>1, <3>2, <3>4 DEF Handshake
  <2> QED BY <2>1, <2>2
<1>4. CASE ClientFrame
  <2>1. request' = NoRequest /\ reqBytes' = "none" /\ response' = Nil /\ UNCHANGED reqCount
    BY <1>4, Zenon DEF ClientFrame
  <2> QED BY <2>1 DEF Handshake, UpgradeSound, Responses
<1>5. ASSUME UNCHANGED hsVars PROVE Handshake'
  BY <1>5 DEF hsVars, Handshake, UpgradeSound
<1>6. CASE ArriveFrames
  <2>1. UNCHANGED hsVars
    BY <1>6, Zenon DEF ArriveFrames, unchangedByClient, hsVars
  <2> QED BY <1>5, <2>1
<1>7. CASE UnPacketFrame
  BY <1>5, <1>7, Zenon DEF UnPacketFrame
<1>8. CASE SendResponses
  BY <1>5, <1>8, Zenon DEF SendResponses
<1>9. CASE UNCHANGED vars
  BY <1>5, <1>9, Zenon DEF vars
<1> QED BY <1>1, <1>2, <1>3, <1>4, <1>6, <1>7, <1>8, <1>9, Zenon DEF Next

-----------------------------------------------------------------------------
(* Cipher *)

\* The bytes done before the first word of Cipher bring it to the mask's start.
LEMMA LeftAligns ==
    ASSUME NEW offset \in Nat
    PROVE  CipherLeft(offset) \in 0..3 /\ (offset + CipherLeft(offset)) % 4 = 0
<1>1. offset % 4 \in 0..3
  OBVIOUS
<1>2. CipherLeft(offset) = IF offset % 4 = 0 THEN 0 ELSE 4 - (offset % 4)
  BY <1>1 DEF CipherLeft, remain
<1> QED BY <1>1, <1>2

\* The words and the bytes after them make up the rest of the payload.
LEMMA WordsFill ==
    ASSUME NEW n \in Nat, n >= 8, NEW offset \in Nat
    PROVE  /\ CipherRight(n, offset) \in 0..7
           /\ CipherLeft(offset) + 8 * CipherWords(n, offset) = n - CipherRight(n, offset)
<1>1. CipherLeft(offset) \in 0..3
  BY LeftAligns
<1>2. CipherRight(n, offset) \in 0..7 /\ n - CipherLeft(offset) \in Nat
  BY <1>1 DEF CipherRight
<1>3. \A a \in Nat : 8 * ((a - (a % 8)) \div 8) = a - (a % 8)
  OBVIOUS
<1>4. PICK a \in Nat : a = n - CipherLeft(offset)
  BY <1>2
<1>5. /\ (a - (a % 8)) \div 8 \in Int /\ CipherRight(n, offset) = a % 8
      /\ CipherWords(n, offset) = (a - (a % 8)) \div 8
  BY <1>4 DEF CipherRight, CipherWords
<1>6. 8 * CipherWords(n, offset) = a - (a % 8)
  BY <1>3, <1>5
<1> QED BY <1>1, <1>2, <1>4, <1>5, <1>6

\* Each byte of the payload is XORed once, with the byte of the mask that
\* RFC 6455 and the short loop of Cipher use, so ciphering twice undoes it.
THEOREM CipherIsMask ==
    ASSUME NEW n \in Nat, NEW offset \in Nat, NEW i \in 0..(n - 1)
    PROVE  MaskedOnce(n, offset, i)
<1>1. CASE n < 8
  BY <1>1 DEF CipherByte, MaskedOnce, Passes
<1>2. CASE n >= 8
  <2> DEFINE ln == CipherLeft(offset)
             rn == CipherRight(n, offset)
             m == ((offset % 4) + i) % 4
  <2>1. ln \in 0..3
    BY LeftAligns
  <2>0. (offset + ln) % 4 = 0
    BY LeftAligns
  <2>2. rn \in 0..7
    BY <1>2, WordsFill
  <2>3. ln <= n - rn /\ (InWords(n, offset, i) <=> ln <= i /\ i < n - rn)
    <3>1. ln + 8 * CipherWords(n, offset) = n - rn
      BY <1>2, WordsFill
    <3>2. rn <= n - ln
      BY <1>2, <2>1, <2>2 DEF CipherRight
    <3> QED BY <2>1, <2>2, <3>1, <3>2 DEF InWords
  <2>4. m = (offset + i) % 4
    OBVIOUS
  <2>5. ln <= i => ((i - ln) % 8) % 4 = (offset + i) % 4
    <3> SUFFICES ASSUME ln <= i PROVE ((i - ln) % 8) % 4 = (offset + i) % 4
      OBVIOUS
    <3> HIDE DEF ln
    <3>1. i - ln \in Nat /\ offset + ln \in Nat
      BY <2>1
    <3>2. ((i - ln) % 8) % 4 = (i - ln) % 4
      BY <3>1
    <3>3. ((i - ln) + (offset + ln)) % 4 = (i - ln) % 4
      BY <3>1, <2>1, <2>0
    <3>4. (i - ln) + (offset + ln) = offset + i
      BY <2>1
    <3> QED BY <3>2, <3>3, <3>4
  <2>6. CASE i < ln
    <3>1. ~(n < 8) /\ (i < ln) /\ ~(i >= n - rn) /\ ~InWords(n, offset, i)
      BY <1>2, <2>1, <2>2, <2>3, <2>6
    <3>2. CipherByte(n, offset, i) = {<<"left", m>>}
      BY <3>1, Zenon DEF CipherByte
    <3> QED BY <2>4, <2>6, <3>2 DEF MaskedOnce, Passes
  <2>7. CASE i >= n - rn
    <3>1. ~(n < 8) /\ ~(i < ln) /\ (i >= n - rn) /\ ~InWords(n, offset, i)
      BY <1>2, <2>1, <2>2, <2>3, <2>7
    <3>2. CipherByte(n, offset, i) = {<<"right", m>>}
      BY <3>1, Zenon DEF CipherByte
    <3> QED BY <2>4, <2>7, <3>2 DEF MaskedOnce, Passes
  <2>8. CASE ln <= i /\ i < n - rn
    <3>1. ~(n < 8) /\ ~(i < ln) /\ ~(i >= n - rn) /\ InWords(n, offset, i)
      BY <1>2, <2>1, <2>2, <2>3, <2>8
    <3>2. CipherByte(n, offset, i) = {<<"words", ((i - ln) % 8) % 4>>}
      BY <3>1, Zenon DEF CipherByte
    <3> QED BY <2>5, <2>8, <3>2 DEF MaskedOnce, Passes
  <2>9. i < ln \/ i >= n - rn \/ (ln <= i /\ i < n - rn)
    <3>1. i \in Int /\ ln \in Int /\ n - rn \in Int
      BY <2>1, <2>2
    <3> HIDE DEF ln, rn
    <3> QED BY <3>1
  <2> QED BY <2>6, <2>7, <2>8, <2>9
<1> QED BY <1>1, <1>2

-----------------------------------------------------------------------------
(* Frames and messages *)

\* A frame of the client with its place in the stream, and what goes to
\* OnMessage or comes from it.
SentFrames == [op : Ops, len : Nat, code : Int, maskZero : BOOLEAN, from : Nat]
Messages   == [op : Ops \cup {"http"}, len : Nat, code : Int]

\* Lengths are below 2^32.
Short(f) == f.len \div 65536 < 65536

Types ==
    /\ upgraded \in BOOLEAN /\ pc \in {"poll", "unpack", "send"} /\ lost \in BOOLEAN
    /\ frames \in Seq(SentFrames)
    /\ \A i \in 1..Len(frames) : Short(frames[i])
    /\ arrived \in Nat /\ next \in 1..(Len(frames) + 1)
    /\ stale \in [4..7 -> BOOLEAN]
    /\ delivered \in Seq(Messages) /\ Len(delivered) = next - 1
    /\ out \in Seq(Messages)

-----------------------------------------------------------------------------
(* Headers *)

\* The three layouts of a header that WriteHeader produces.
LEMMA Layouts ==
    ASSUME NEW f \in SentFrames
    PROVE  /\ f.len \in Nat /\ f.from \in Nat
           /\ LengthBytes(f.len) \in {0, 2, 8}
           /\ (LengthBytes(f.len) = 8 <=> f.len > 65535) /\ (LengthBytes(f.len) = 0 <=> f.len <= 125)
           /\ extra(f) = 4 + LengthBytes(f.len) /\ Size(f) = 6 + LengthBytes(f.len) + f.len
           /\ Size(f) \in Nat /\ Size(f) >= 6
<1>1. f.len \in Nat /\ f.from \in Nat
  BY DEF SentFrames
<1> QED BY <1>1 DEF LengthBytes, extra, Size

\* The low bytes of a length of more than 65535 that have been read when the
\* header has eight bytes or more are not all zero.
LEMMA LongIsSeen ==
    ASSUME NEW n \in Nat, n > 65535, n \div 65536 < 65536
    PROVE  (n \div 16777216) % 256 # 0 \/ (n \div 65536) % 256 # 0
<1>1. PICK h \in Nat : h = n \div 65536
  OBVIOUS
<1>2. h > 0 /\ h < 65536
  BY <1>1
<1>3. n \div 16777216 = h \div 256
  BY <1>1
<1>4. h \div 256 \in 0..255 /\ h = 256 * (h \div 256) + (h % 256)
  BY <1>2
<1>5. (h \div 256) % 256 = h \div 256
  BY <1>4
<1> QED BY <1>1, <1>2, <1>3, <1>4, <1>5

\* UnPacket's two tests pass exactly when all of the frame has been read.
LEMMA PayloadExact ==
    ASSUME Types, NEW f \in SentFrames, Short(f),
           NEW avail \in Nat, HeaderReady(avail),
           LengthBytes(f.len) = 8 => avail \notin {6, 7}
    PROVE  /\ PayloadReady(f, avail) <=> avail >= Size(f)
           /\ PayloadReady(f, avail) => Fresh(f, avail) >= LengthBytes(f.len)
<1>1. avail >= 6
  BY DEF HeaderReady
<1>2. CASE Fresh(f, avail) >= LengthBytes(f.len)
  <2>1. PayloadReady(f, avail) <=> avail - 2 - Fresh(f, avail) >= f.len
    BY <1>2 DEF PayloadReady
  <2>2. CASE avail - 2 < extra(f)
    <3>1. Fresh(f, avail) = avail - 2
      BY <2>2 DEF Fresh
    <3>2. avail - 2 - Fresh(f, avail) = 0
      BY <3>1
    <3>3. f.len > 125
      BY <1>1, <2>2, Layouts
    <3> QED BY <1>2, <2>1, <2>2, <3>2, <3>3, Layouts
  <2>3. CASE ~(avail - 2 < extra(f))
    <3>1. Fresh(f, avail) = extra(f)
      BY <2>3 DEF Fresh
    <3> QED BY <1>2, <2>1, <3>1, Layouts
  <2> QED BY <2>2, <2>3
<1>3. CASE ~(Fresh(f, avail) >= LengthBytes(f.len))
  <2>1. avail - 2 < extra(f) /\ Fresh(f, avail) = avail - 2
    BY <1>3, Layouts DEF Fresh
  <2>2. LengthBytes(f.len) = 8 /\ avail < 10
    BY <1>1, <1>3, <2>1, Layouts
  <2>3. avail >= 8 /\ f.len > 65535
    BY <1>1, <2>2, Layouts
  <2>4. 4 < Fresh(f, avail) /\ 5 < Fresh(f, avail)
    BY <2>1, <2>3
  <2>5. Weight[4] = 16777216 /\ Weight[5] = 65536
    BY DEF Weight
  <2>6. /\ HeaderBuffer(f, avail)[4] => (f.len \div 16777216) % 256 = 0
        /\ HeaderBuffer(f, avail)[5] => (f.len \div 65536) % 256 = 0
    <3>1. /\ HeaderBuffer(f, avail)[4] = HeaderByteZero(f, 4)
          /\ HeaderBuffer(f, avail)[5] = HeaderByteZero(f, 5)
      BY <2>4 DEF HeaderBuffer
    <3>2. /\ HeaderByteZero(f, 4) => (f.len \div Weight[4]) % 256 = 0
          /\ HeaderByteZero(f, 5) => (f.len \div Weight[5]) % 256 = 0
      BY <2>2 DEF HeaderByteZero
    <3>3. ASSUME HeaderBuffer(f, avail)[4] PROVE (f.len \div 16777216) % 256 = 0
      <4>1. HeaderByteZero(f, 4)
        BY <3>1, <3>3
      <4> QED BY <2>5, <3>2, <4>1
    <3>4. ASSUME HeaderBuffer(f, avail)[5] PROVE (f.len \div 65536) % 256 = 0
      <4>1. HeaderByteZero(f, 5)
        BY <3>1, <3>4
      <4> QED BY <2>5, <3>2, <4>1
    <3> QED BY <3>3, <3>4
  <2>7. ~HeaderBuffer(f, avail)[4] \/ ~HeaderBuffer(f, avail)[5]
    <3>1. PICK n \in Nat : n = f.len
      BY Layouts
    <3>2. (n \div 16777216) % 256 # 0 \/ (n \div 65536) % 256 # 0
      BY <2>3, <3>1, LongIsSeen DEF Short
    <3> QED BY <2>6, <3>1, <3>2
  <2>8. ~PayloadReady(f, avail)
    BY <1>3, <2>7 DEF PayloadReady
  <2> QED BY <2>2, <2>3, <2>8, Layouts
<1> QED BY <1>2, <1>3

-----------------------------------------------------------------------------
(* Types, and the replies to control frames *)

\* Codes that RFC 6455 keeps out of close frames.
Illegal == (0..999) \cup {1004, 1005, 1006, 1015} \cup (1016..2999)

LegalOut == \A i \in 1..Len(out) : out[i].op = "close" => out[i].code \notin Illegal

\* A code that checkCloseFrameData accepts may appear on the wire.
LEMMA CodeIsLegal ==
    ASSUME NEW c \in Int, CheckCloseFrameData(c)
    PROVE  c \notin Illegal
<1>1. c \notin 0..999 /\ c \notin {1004, 1005, 1006, 1015}
  BY DEF CheckCloseFrameData, IsProtocolReserved
<1>2. ASSUME c >= 1016, c <= 2999 PROVE FALSE
  <2>1. c \in 1000..2999
    BY <1>2
  <2>2. ~IsProtocolDefined(c)
    BY <1>2 DEF IsProtocolDefined
  <2> QED BY <2>1, <2>2 DEF CheckCloseFrameData
<1>3. c \notin 1016..2999
  BY <1>2, SMTT(30)
<1> QED BY <1>1, <1>3, SMTT(30) DEF Illegal

\* What OnMessage returns for a message: at most one, and no illegal code.
LEMMA Replies ==
    ASSUME NEW m \in Messages, NEW resp \in OnMessage(m)
    PROVE  /\ resp \in Seq(Messages)
           /\ \A i \in 1..Len(resp) : resp[i].op = "close" => resp[i].code \notin Illegal
<1>1. m.len \in Nat /\ m.code \in Int
  BY DEF Messages
<1>2. HandleClose(m) \in Int /\ HandleClose(m) \notin Illegal
  <2>1. CASE m.len = 0
    BY <2>1 DEF HandleClose, NoCode, Illegal
  <2>2. CASE m.len # 0 /\ ~CheckCloseFrameData(m.code)
    BY <2>2 DEF HandleClose, Illegal
  <2>3. CASE m.len # 0 /\ CheckCloseFrameData(m.code)
    <3>1. HandleClose(m) = m.code
      BY <2>3 DEF HandleClose
    <3>2. m.code \notin Illegal
      BY <1>1, <2>3, CodeIsLegal
    <3> QED BY <1>1, <3>1, <3>2
  <2> QED BY <2>1, <2>2, <2>3
<1>3. ASSUME NEW o \in Ops, NEW n \in Nat, NEW c \in Int, o = "close" => c \notin Illegal,
             resp = <<Response(o, n, c)>>
      PROVE  /\ resp \in Seq(Messages)
             /\ \A i \in 1..Len(resp) : resp[i].op = "close" => resp[i].code \notin Illegal
  <2>1. PICK r : r = Response(o, n, c)
    OBVIOUS
  <2>2. r \in Messages /\ r.op = o /\ r.code = c
    BY <2>1 DEF Response, Messages
  <2>3. <<r>> \in Seq(Messages) /\ \A i \in 1..Len(<<r>>) : <<r>>[i] = r
    BY <2>2
  <2> QED BY <1>3, <2>1, <2>2, <2>3
<1>4. NoCode \in Int /\ 0 \in Nat
  BY DEF NoCode
<1>5. CASE m.op = "close"
  <2>1. resp = <<Response("close", 0, HandleClose(m))>>
    BY <1>5 DEF OnMessage
  <2> QED BY <1>2, <1>3, <1>4, <2>1 DEF Ops
<1>6. CASE m.op = "ping"
  <2>1. resp = <<Response("pong", m.len, NoCode)>>
    BY <1>6 DEF OnMessage
  <2> QED BY <1>1, <1>3, <1>4, <2>1 DEF Ops
<1>7. CASE m.op = "pong"
  <2>1. resp = <<Response("ping", m.len, NoCode)>>
    BY <1>7 DEF OnMessage
  <2> QED BY <1>1, <1>3, <1>4, <2>1 DEF Ops
<1>8. CASE m.op \notin {"close", "ping", "pong"}
  <2>1. resp = <<>> \/ resp = <<Response("text", m.len, NoCode)>>
    BY <1>8 DEF OnMessage
  <2>2. CASE resp = <<>>
    BY <2>2
  <2>3. CASE resp = <<Response("text", m.len, NoCode)>>
    BY <1>1, <1>3, <1>4, <2>3 DEF Ops
  <2> QED BY <2>1, <2>2, <2>3
<1> QED BY <1>5, <1>6, <1>7, <1>8

\* Collecting replies keeps them legal.
LEMMA OutGrows ==
    ASSUME out \in Seq(Messages), LegalOut, NEW resp \in Seq(Messages),
           \A i \in 1..Len(resp) : resp[i].op = "close" => resp[i].code \notin Illegal,
           out' = out \o resp
    PROVE  out' \in Seq(Messages) /\ LegalOut'
<1>1. /\ out' \in Seq(Messages) /\ Len(out') = Len(out) + Len(resp)
      /\ \A i \in 1..(Len(out) + Len(resp)) :
            out'[i] = IF i <= Len(out) THEN out[i] ELSE resp[i - Len(out)]
  BY ConcatProperties
<1>2. Len(out) \in Nat /\ Len(resp) \in Nat
  OBVIOUS
<1>3. ASSUME NEW i \in 1..Len(out'), out'[i].op = "close" PROVE out'[i].code \notin Illegal
  <2>1. CASE i <= Len(out)
    <3>1. i \in 1..Len(out) /\ out'[i] = out[i]
      BY <1>1, <1>2, <1>3, <2>1
    <3> QED BY <1>3, <3>1 DEF LegalOut
  <2>2. CASE i > Len(out)
    <3>1. i - Len(out) \in 1..Len(resp) /\ out'[i] = resp[i - Len(out)]
      BY <1>1, <1>2, <1>3, <2>2
    <3> QED BY <1>3, <3>1
  <2> QED BY <1>2, <2>1, <2>2
<1> QED BY <1>1, <1>3 DEF LegalOut

\* The frame that the client sends next begins where the last one ends.
SentFrame(f) == [op |-> f.op, len |-> f.len, code |-> f.code, maskZero |-> f.maskZero,
                 from |-> SentBytes]

\* The bytes sent are counted.
LEMMA SentIsNat ==
    ASSUME frames \in Seq(SentFrames)
    PROVE  SentBytes \in Nat
<1>1. CASE frames = <<>>
  BY <1>1 DEF SentBytes
<1>2. CASE frames # <<>>
  <2>1. PICK f \in SentFrames : f = frames[Len(frames)]
    BY <1>2
  <2>2. SentBytes = f.from + Size(f)
    BY <1>2, <2>1 DEF SentBytes
  <2> QED BY <2>2, Layouts
<1> QED BY <1>1, <1>2

\* A frame joins those sent.
LEMMA FrameSent ==
    ASSUME Types, NEW f \in Frames, frames' = Append(frames, SentFrame(f))
    PROVE  /\ frames' \in Seq(SentFrames) /\ Len(frames') = Len(frames) + 1
           /\ \A i \in 1..Len(frames) : frames'[i] = frames[i]
           /\ frames'[Len(frames) + 1] = SentFrame(f)
           /\ \A i \in 1..Len(frames') : Short(frames'[i])
<1>1. frames \in Seq(SentFrames) /\ \A i \in 1..Len(frames) : Short(frames[i])
  BY DEF Types
<1>2. f.op \in Ops /\ f.len \in Nat /\ f.code \in Int /\ f.maskZero \in BOOLEAN
  BY FramesAssumption
<1>3. SentFrame(f) \in SentFrames /\ SentFrame(f).len = f.len
  BY <1>1, <1>2, SentIsNat DEF SentFrame, SentFrames
<1>4. Short(SentFrame(f))
  BY <1>3, FramesAssumption DEF Short
<1>5. /\ frames' \in Seq(SentFrames) /\ Len(frames') = Len(frames) + 1
      /\ \A i \in 1..Len(frames) : frames'[i] = frames[i]
      /\ frames'[Len(frames) + 1] = SentFrame(f)
  BY <1>1, <1>3, AppendProperties
<1>6. ASSUME NEW i \in 1..Len(frames') PROVE Short(frames'[i])
  <2>1. i \in 1..Len(frames) \/ i = Len(frames) + 1
    BY <1>1, <1>5, <1>6
  <2> QED BY <1>1, <1>3, <1>4, <1>5, <2>1
<1> QED BY <1>5, <1>6

\* UnPacket finds a header only in a frame of which some bytes have arrived.
LEMMA ReadableFrame ==
    ASSUME Types, Readable
    PROVE  /\ next \in 1..Len(frames) /\ frames[next] \in SentFrames
           /\ Available = arrived - frames[next].from /\ Available \in Nat
           /\ Short(frames[next])
<1>1. Available >= 6
  BY DEF Readable, HeaderReady
<1>2. ~(next > Len(frames))
  BY <1>1 DEF Available
<1>3. next \in 1..Len(frames) /\ frames \in Seq(SentFrames) /\ arrived \in Nat
  BY <1>2 DEF Types
<1>4. frames[next] \in SentFrames /\ Available = arrived - frames[next].from
  BY <1>2, <1>3 DEF Available
<1>5. Available \in Nat
  BY <1>1, <1>3, <1>4, Layouts
<1> QED BY <1>3, <1>4, <1>5 DEF Types

\* Types are kept, and no reply to a close frame has an illegal code.
LEMMA TypeStep ==
    ASSUME Types, LegalOut, [Next]_vars
    PROVE  Types' /\ LegalOut'
<1>0. /\ frames \in Seq(SentFrames) /\ delivered \in Seq(Messages) /\ out \in Seq(Messages)
      /\ arrived \in Nat /\ next \in 1..(Len(frames) + 1)
  BY DEF Types
<1>1. CASE ClientRequest
  BY <1>1 DEF ClientRequest, unchangedByClient, Types, LegalOut
<1>2. CASE ArriveRequest
  BY <1>2 DEF ArriveRequest, unchangedByClient, Types, LegalOut
<1>3. CASE UnPacketUpgrade
  <2>1. UNCHANGED <<frames, arrived, next, lost, delivered>>
    BY <1>3 DEF UnPacketUpgrade, unchangedByHandshake
  <2>2. pc' \in {"poll", "unpack", "send"} /\ upgraded' \in BOOLEAN
    <3>1. pc' \in {"poll", "unpack", "send"}
      BY <1>3 DEF UnPacketUpgrade
    <3>2. UNCHANGED upgraded \/ upgraded' = UpgradeOk(request)
      BY <1>3 DEF UnPacketUpgrade, hsVars
    <3>3. upgraded' \in BOOLEAN
      BY <3>2, Zenon DEF Types, UpgradeOk
    <3> QED BY <3>1, <3>3
  <2>3. stale' \in [4..7 -> BOOLEAN]
    BY <1>3 DEF UnPacketUpgrade, Types
  <2>4. out' \in Seq(Messages) /\ LegalOut'
    <3>1. CASE out' = out
      BY <1>0, <3>1 DEF LegalOut
    <3>2. CASE out' = Append(out, Response("http", 0, NoCode))
      <4>1. PICK r : r = Response("http", 0, NoCode)
        OBVIOUS
      <4>2. r \in Messages /\ r.op = "http"
        BY <4>1 DEF Response, NoCode, Messages
      <4>3. <<r>> \in Seq(Messages) /\ out' = out \o <<r>>
            /\ \A i \in 1..Len(<<r>>) : <<r>>[i] = r
        BY <1>0, <3>2, <4>1, <4>2, AppendIsConcat
      <4> QED BY <1>0, <4>2, <4>3, OutGrows, Zenon
    <3> QED BY <1>3, <3>1, <3>2 DEF UnPacketUpgrade
  <2> QED BY <2>1, <2>2, <2>3, <2>4 DEF Types
<1>4. CASE ClientFrame
  <2>1. PICK f \in Frames : frames' = Append(frames, SentFrame(f))
    BY <1>4 DEF ClientFrame, SentFrame
  <2>2. UNCHANGED <<upgraded, next, stale, lost, delivered, out, arrived, pc>>
    BY <1>4 DEF ClientFrame, unchangedByClient
  <2>3. /\ frames' \in Seq(SentFrames) /\ Len(frames') = Len(frames) + 1
        /\ \A i \in 1..Len(frames') : Short(frames'[i])
    BY <2>1, FrameSent
  <2>4. next' \in 1..(Len(frames') + 1)
    BY <1>0, <2>2, <2>3
  <2>5. LegalOut'
    BY <2>2 DEF LegalOut
  <2> QED BY <2>2, <2>3, <2>4, <2>5 DEF Types
<1>5. CASE ArriveFrames
  <2>1. PICK i \in DOMAIN frames : \E w \in Cuts(frames[i]) : w > arrived /\ arrived' = w
    BY <1>5 DEF ArriveFrames
  <2>2. arrived' \in Nat
    <3>1. PICK f \in SentFrames : f = frames[i]
      BY <1>0
    <3>2. PICK n \in 1..Size(f) : arrived' = f.from + n
      BY <2>1, <3>1 DEF Cuts
    <3> QED BY <3>2, Layouts
  <2>3. UNCHANGED <<upgraded, next, stale, lost, delivered, out, frames>> /\ pc' = "unpack"
    BY <1>5 DEF ArriveFrames, unchangedByClient
  <2> QED BY <2>2, <2>3 DEF Types, LegalOut
<1>6. CASE UnPacketFrame
  <2>0. UNCHANGED <<upgraded, frames, arrived>>
    BY <1>6 DEF UnPacketFrame, hsVars
  <2>1. CASE ~Readable
    BY <1>6, <2>0, <2>1 DEF UnPacketFrame, Types, LegalOut
  <2>2. CASE Readable
    <3>1. PICK f \in SentFrames : f = frames[next]
      BY <2>2, ReadableFrame
    <3>2. stale' = HeaderBuffer(f, Available)
      BY <1>6, <2>2, <3>1 DEF UnPacketFrame
    <3>3. stale' \in [4..7 -> BOOLEAN]
      <4>1. \A i \in 4..7 : HeaderByteZero(f, i) \in BOOLEAN
        BY DEF HeaderByteZero
      <4>2. \A i \in 4..7 : stale[i] \in BOOLEAN
        BY DEF Types
      <4> QED BY <3>2, <4>1, <4>2 DEF HeaderBuffer
    <3>4. CASE ~PayloadReady(f, Available)
      BY <1>6, <2>0, <2>2, <3>1, <3>3, <3>4 DEF UnPacketFrame, Types, LegalOut
    <3>5. CASE PayloadReady(f, Available)
      <4>1. PICK m : /\ m = Response(f.op, IF lost' THEN 0 ELSE f.len, f.code)
                     /\ delivered' = Append(delivered, m)
                     /\ \E resp \in OnMessage(m) : out' = out \o resp
        BY <1>6, <2>2, <3>1, <3>5 DEF UnPacketFrame
      <4>2. lost' \in BOOLEAN /\ next' = next + 1 /\ UNCHANGED pc
        BY <1>6, <2>2, <3>1, <3>5 DEF UnPacketFrame
      <4>3. m \in Messages
        BY <4>1 DEF Response, Messages, SentFrames
      <4>4. out' \in Seq(Messages) /\ LegalOut'
        <5>1. PICK resp \in OnMessage(m) : out' = out \o resp
          BY <4>1, SMTT(30)
        <5> QED BY <1>0, <4>3, <5>1, Replies, OutGrows, Zenon
      <4>5. delivered' \in Seq(Messages) /\ Len(delivered') = Len(delivered) + 1
        BY <1>0, <4>1, <4>3, AppendProperties
      <4>6. next \in 1..Len(frames) /\ Len(delivered) = next - 1
        BY <2>2, ReadableFrame DEF Types
      <4>7. next' \in 1..(Len(frames) + 1) /\ Len(delivered') = next' - 1
        BY <1>0, <4>2, <4>5, <4>6
      <4> QED BY <2>0, <3>3, <4>2, <4>4, <4>5, <4>7 DEF Types
    <3> QED BY <3>4, <3>5
  <2> QED BY <2>1, <2>2
<1>7. CASE SendResponses
  <2>1. /\ out' = <<>> /\ pc' = "poll"
        /\ UNCHANGED <<upgraded, frames, arrived, next, stale, lost, delivered>>
    BY <1>7 DEF SendResponses, hsVars
  <2>2. out' \in Seq(Messages) /\ LegalOut'
    BY <2>1 DEF LegalOut
  <2> QED BY <2>1, <2>2 DEF Types
<1>8. CASE UNCHANGED vars
  BY <1>8 DEF vars, hsVars, Types, LegalOut
<1> QED BY <1>1, <1>2, <1>3, <1>4, <1>5, <1>6, <1>7, <1>8 DEF Next

-----------------------------------------------------------------------------
(* Frames and segments *)

End(f) == f.from + Size(f)
Message(f) == Response(f.op, f.len, f.code)

\* The frames lie one behind the other, and the stream has been read to some
\* place in them.
Laid ==
    /\ \A i, j \in 1..Len(frames) : i < j => End(frames[i]) <= frames[j].from
    /\ \A i \in 1..Len(frames) : End(frames[i]) <= SentBytes
    /\ arrived <= SentBytes

\* That place is not six or seven bytes into a 64-bit header.
Unsplit ==
    \A i \in 1..Len(frames) :
        LengthBytes(frames[i].len) = 8 => arrived - frames[i].from \notin {6, 7}

\* UnPacket has taken the frames before the next one, which have all been read,
\* and no other frame has been read when it gives up.
Taken ==
    /\ ~lost /\ (~upgraded => frames = <<>>)
    /\ \A i \in 1..(next - 1) : delivered[i] = Message(frames[i]) /\ End(frames[i]) <= arrived
    /\ pc # "unpack" => \A i \in next..Len(frames) : arrived < End(frames[i])

\* A read leaves the stream at a cut of one frame, which is none of another.
LEMMA LaidArrive ==
    ASSUME Types, Laid, ArriveFrames
    PROVE  Laid' /\ arrived' > arrived /\ (~SplitLong => Unsplit')
<1>1. PICK k \in DOMAIN frames : arrived' \in Cuts(frames[k]) /\ arrived' > arrived
  BY DEF ArriveFrames
<1>2. frames \in Seq(SentFrames) /\ UNCHANGED frames /\ SentBytes' = SentBytes
  BY DEF ArriveFrames, Types, SentBytes
<1>3. k \in 1..Len(frames) /\ frames[k] \in SentFrames
  BY <1>2
<1>4. PICK f \in SentFrames : f = frames[k]
  BY <1>3
<1>5. PICK n \in 1..Size(f) : /\ arrived' = f.from + n
                              /\ SplitLong \/ LengthBytes(f.len) < 8 \/ n \notin {6, 7}
  BY <1>1, <1>4 DEF Cuts
<1>6. /\ f.from \in Nat /\ Size(f) \in Nat /\ End(f) = f.from + Size(f)
      /\ n \in Nat /\ n >= 1 /\ n <= Size(f)
  BY <1>5, Layouts DEF End
<1>7. arrived' <= SentBytes
  <2>1. End(f) <= SentBytes
    BY <1>3, <1>4 DEF Laid
  <2> QED BY <1>2, <1>5, <1>6, <2>1, SentIsNat
<1>8. ASSUME ~SplitLong, NEW i \in 1..Len(frames), LengthBytes(frames[i].len) = 8
      PROVE  arrived' - frames[i].from \notin {6, 7}
  <2>1. PICK g \in SentFrames : g = frames[i]
    BY <1>2
  <2>2. g.from \in Nat /\ End(g) = g.from + Size(g) /\ Size(g) >= 14 /\ Size(g) \in Nat
    BY <1>8, <2>1, Layouts, SMTT(30) DEF End
  <2>3. CASE i = k
    BY <1>4, <1>5, <1>6, <1>8, <2>1, <2>3
  <2>4. CASE i < k
    <3>1. End(g) <= f.from
      BY <1>3, <1>4, <2>1, <2>4 DEF Laid
    <3>2. arrived' - g.from > 14
      BY <1>5, <1>6, <2>2, <3>1, SMTT(30)
    <3> QED BY <2>1, <3>2
  <2>5. CASE i > k
    <3>1. End(f) <= g.from
      BY <1>3, <1>4, <2>1, <2>5 DEF Laid
    <3>2. arrived' - g.from <= 0
      BY <1>5, <1>6, <2>2, <3>1, SMTT(30)
    <3> QED BY <2>1, <3>2
  <2> QED BY <1>3, <2>3, <2>4, <2>5
<1>9. Laid'
  BY <1>2, <1>7 DEF Laid
<1> QED BY <1>1, <1>2, <1>8, <1>9 DEF Unsplit

\* A frame that the client sends lies behind the others and has not arrived.
LEMMA LaidSend ==
    ASSUME Types, Laid, ClientFrame
    PROVE  /\ Laid' /\ (Unsplit => Unsplit')
           /\ Len(frames') = Len(frames) + 1 /\ UNCHANGED arrived
           /\ \A i \in 1..Len(frames) : frames'[i] = frames[i]
           /\ arrived < End(frames'[Len(frames) + 1])
<1>1. PICK f \in Frames : frames' = Append(frames, SentFrame(f))
  BY DEF ClientFrame, SentFrame
<1>2. /\ frames' \in Seq(SentFrames) /\ Len(frames') = Len(frames) + 1
      /\ \A i \in 1..Len(frames) : frames'[i] = frames[i]
      /\ frames'[Len(frames) + 1] = SentFrame(f)
  BY <1>1, FrameSent
<1>3. frames \in Seq(SentFrames) /\ Len(frames) \in Nat /\ arrived \in Nat /\ arrived' = arrived
  BY DEF Types, ClientFrame
<1>4. PICK g \in SentFrames : g = frames'[Len(frames')]
  BY <1>2, <1>3
<1>5. g.from = SentBytes /\ SentBytes \in Nat
  BY <1>2, <1>3, <1>4, SentIsNat DEF SentFrame
<1>6. Size(g) >= 6 /\ Size(g) \in Nat /\ End(g) = SentBytes + Size(g)
  BY <1>5, Layouts DEF End
<1>7. SentBytes' = End(g)
  <2>1. frames' # <<>>
    BY <1>2, <1>3
  <2> QED BY <1>4, <2>1 DEF SentBytes, End
<1>8. \A i \in 1..Len(frames) : End(frames[i]) <= SentBytes
  BY DEF Laid
<1>9. \A i \in 1..Len(frames') : (i \in 1..Len(frames) /\ frames'[i] = frames[i]) \/ i = Len(frames')
  BY <1>2, <1>3
<1>10. \A i \in 1..Len(frames) : End(frames[i]) \in Nat
  <2>1. \A h \in SentFrames : End(h) \in Nat
    BY Layouts DEF End
  <2> QED BY <1>3, <2>1
<1>11. ASSUME NEW i \in 1..Len(frames'), NEW j \in 1..Len(frames'), i < j
       PROVE  End(frames'[i]) <= frames'[j].from
  <2>1. i \in 1..Len(frames) /\ frames'[i] = frames[i]
    BY <1>2, <1>3, <1>11
  <2>2. CASE j \in 1..Len(frames)
    BY <1>2, <1>11, <2>1, <2>2 DEF Laid
  <2>3. CASE j = Len(frames')
    BY <1>4, <1>5, <1>8, <2>1, <2>3
  <2> QED BY <1>9, <2>2, <2>3
<1>12. ASSUME NEW i \in 1..Len(frames') PROVE End(frames'[i]) <= SentBytes'
  <2>1. CASE i \in 1..Len(frames) /\ frames'[i] = frames[i]
    BY <1>5, <1>6, <1>7, <1>8, <1>10, <2>1
  <2>2. CASE i = Len(frames')
    BY <1>4, <1>5, <1>6, <1>7, <2>2
  <2> QED BY <1>9, <2>1, <2>2
<1>13. ASSUME Unsplit, NEW i \in 1..Len(frames'), LengthBytes(frames'[i].len) = 8
       PROVE  arrived' - frames'[i].from \notin {6, 7}
  <2>1. CASE i \in 1..Len(frames) /\ frames'[i] = frames[i]
    BY <1>3, <1>13, <2>1 DEF Unsplit
  <2>2. CASE i = Len(frames')
    <3>1. arrived <= SentBytes
      BY DEF Laid
    <3> QED BY <1>3, <1>4, <1>5, <2>2, <3>1
  <2> QED BY <1>9, <2>1, <2>2
<1>14. arrived' <= SentBytes' /\ arrived < End(g)
  BY <1>3, <1>5, <1>6, <1>7 DEF Laid
<1>15. Laid'
  BY <1>11, <1>12, <1>14 DEF Laid
<1>16. Unsplit => Unsplit'
  BY <1>13 DEF Unsplit
<1> QED BY <1>2, <1>3, <1>4, <1>14, <1>15, <1>16

\* Every step keeps the frames and the cuts where they are.
LEMMA LaidStep ==
    ASSUME Types, Laid, [Next]_vars
    PROVE  Laid' /\ (~SplitLong /\ Unsplit => Unsplit')
<1>1. ASSUME UNCHANGED <<frames, arrived>> PROVE Laid' /\ (Unsplit => Unsplit')
  BY <1>1 DEF Laid, Unsplit, SentBytes
<1>2. CASE ClientRequest \/ ArriveRequest
  BY <1>1, <1>2 DEF ClientRequest, ArriveRequest
<1>3. CASE UnPacketUpgrade
  BY <1>1, <1>3 DEF UnPacketUpgrade, unchangedByHandshake
<1>4. CASE UnPacketFrame \/ SendResponses
  BY <1>1, <1>4 DEF UnPacketFrame, SendResponses
<1>5. CASE UNCHANGED vars
  BY <1>1, <1>5 DEF vars
<1> QED BY <1>2, <1>3, <1>4, <1>5, LaidArrive, LaidSend DEF Next

\* One turn of handlerProtocol's loop takes the next frame if all of it has
\* been read, and otherwise there is none to take.
LEMMA TakenUnPacket ==
    ASSUME Types, Laid, Unsplit, Taken, UnPacketFrame
    PROVE  Taken'
<1>1. /\ frames \in Seq(SentFrames) /\ arrived \in Nat /\ next \in 1..(Len(frames) + 1)
      /\ delivered \in Seq(Messages) /\ Len(delivered) = next - 1 /\ Len(frames) \in Nat
  BY DEF Types
<1>2. UNCHANGED <<upgraded, frames, arrived>> /\ upgraded /\ ~lost
  BY DEF UnPacketFrame, hsVars, Taken
<1>3. \A i \in 1..(next - 1) : delivered[i] = Message(frames[i]) /\ End(frames[i]) <= arrived
  BY DEF Taken
<1>4. ASSUME next \in 1..Len(frames) => arrived < End(frames[next]),
             NEW i \in next..Len(frames)
      PROVE  arrived < End(frames[i])
  <2>1. i \in 1..Len(frames) /\ next \in 1..Len(frames)
    BY <1>1, <1>4
  <2>2. PICK f \in SentFrames : f = frames[next]
    BY <1>1, <2>1
  <2>3. PICK g \in SentFrames : g = frames[i]
    BY <1>1, <2>1
  <2>4. arrived < End(f) /\ End(f) \in Nat /\ g.from <= End(g) /\ End(g) \in Nat /\ g.from \in Nat
    <3>1. f.from \in Nat /\ Size(f) \in Nat /\ g.from \in Nat /\ Size(g) \in Nat
      BY Layouts
    <3>2. arrived < End(f)
      BY <1>4, <2>1, <2>2
    <3> QED BY <3>1, <3>2 DEF End
  <2>5. CASE i = next
    BY <2>2, <2>4, <2>5
  <2>6. CASE i > next
    <3>1. End(f) <= g.from
      BY <2>1, <2>2, <2>3, <2>6 DEF Laid
    <3> QED BY <1>1, <2>3, <2>4, <3>1
  <2> QED BY <1>1, <1>4, <2>5, <2>6
<1>5. CASE ~Readable
  <2>1. UNCHANGED <<next, lost, delivered>> /\ pc' = "send"
    BY <1>5 DEF UnPacketFrame
  <2>2. ASSUME next \in 1..Len(frames) PROVE arrived < End(frames[next])
    <3>1. ~(Available >= 6)
      BY <1>2, <1>5 DEF Readable, HeaderReady
    <3>2. PICK f \in SentFrames : f = frames[next]
      BY <1>1, <2>2
    <3>3. Available = arrived - f.from
      BY <1>1, <2>2, <3>2 DEF Available
    <3> QED BY <1>1, <3>1, <3>2, <3>3, Layouts, SMTT(30) DEF End
  <2>3. \A i \in next..Len(frames) : arrived < End(frames[i])
    BY <1>4, <2>2
  <2> QED BY <1>2, <1>3, <2>1, <2>3 DEF Taken
<1>6. CASE Readable
  <2>1. /\ next \in 1..Len(frames) /\ Available = arrived - frames[next].from /\ Available \in Nat
        /\ Short(frames[next]) /\ HeaderReady(Available)
    BY <1>6, ReadableFrame DEF Readable
  <2>2. PICK f \in SentFrames : f = frames[next]
    BY <1>1, <2>1
  <2>3. LengthBytes(f.len) = 8 => Available \notin {6, 7}
    BY <2>1, <2>2 DEF Unsplit
  <2>4. /\ PayloadReady(f, Available) <=> Available >= Size(f)
        /\ PayloadReady(f, Available) => Fresh(f, Available) >= LengthBytes(f.len)
    BY <2>1, <2>2, <2>3, PayloadExact
  <2>5. PayloadReady(f, Available) <=> End(f) <= arrived
    <3>1. f.from \in Nat /\ Size(f) \in Nat /\ arrived \in Nat /\ Available = arrived - f.from
      BY <1>1, <2>1, <2>2, Layouts
    <3>2. Available >= Size(f) <=> End(f) <= arrived
      BY <3>1 DEF End
    <3> QED BY <2>4, <3>2
  <2>6. CASE ~PayloadReady(f, Available)
    <3>1. UNCHANGED <<next, lost, delivered>> /\ pc' = "send"
      BY <1>6, <2>2, <2>6 DEF UnPacketFrame
    <3>2. arrived < End(f)
      BY <1>1, <2>5, <2>6, Layouts DEF End
    <3>3. \A i \in next..Len(frames) : arrived < End(frames[i])
      BY <1>4, <2>2, <3>2
    <3> QED BY <1>2, <1>3, <3>1, <3>3 DEF Taken
  <2>7. CASE PayloadReady(f, Available)
    <3>1. /\ lost' = (Fresh(f, Available) < LengthBytes(f.len)) /\ next' = next + 1
          /\ delivered' = Append(delivered, Response(f.op, IF lost' THEN 0 ELSE f.len, f.code))
          /\ pc = "unpack" /\ UNCHANGED pc
      BY <1>6, <2>2, <2>7 DEF UnPacketFrame
    <3>2. ~lost'
      <4>1. Fresh(f, Available) \in Int /\ LengthBytes(f.len) \in Int
        BY <2>1, Layouts DEF Fresh
      <4>2. ~(Fresh(f, Available) < LengthBytes(f.len))
        BY <2>4, <2>7, <4>1
      <4> QED BY <3>1, <4>2, Zenon
    <3>3. delivered' = Append(delivered, Message(f)) /\ Message(f) \in Messages
      BY <3>1, <3>2 DEF Message, Response, Messages, SentFrames
    <3>4. /\ \A i \in 1..(next - 1) : delivered'[i] = delivered[i]
          /\ delivered'[next] = Message(f)
      <4>1. Len(delivered) + 1 = next
        BY <1>1
      <4> QED BY <1>1, <3>3, <4>1, AppendProperties
    <3>5. \A i \in 1..(next' - 1) : delivered'[i] = Message(frames[i]) /\ End(frames[i]) <= arrived
      <4>1. \A i \in 1..(next' - 1) : i \in 1..(next - 1) \/ i = next
        BY <1>1, <3>1
      <4> QED BY <1>3, <2>2, <2>5, <2>7, <3>4, <4>1
    <3> QED BY <1>2, <3>1, <3>2, <3>5, Zenon DEF Taken
  <2> QED BY <2>6, <2>7
<1> QED BY <1>5, <1>6

\* So does every other step.
LEMMA TakenStep ==
    ASSUME Types, LegalOut, Laid, Unsplit, Taken, [Next]_vars
    PROVE  Taken'
<1>0. /\ frames \in Seq(SentFrames) /\ arrived \in Nat /\ next \in 1..(Len(frames) + 1)
      /\ Len(frames) \in Nat
  BY DEF Types
<1>1. CASE ClientRequest
  BY <1>1 DEF ClientRequest, unchangedByClient, Taken
<1>2. CASE ArriveRequest
  BY <1>2 DEF ArriveRequest, unchangedByClient, Taken
<1>3. CASE UnPacketUpgrade
  <2>1. UNCHANGED <<frames, arrived, next, lost, delivered>> /\ frames = <<>>
    BY <1>3 DEF UnPacketUpgrade, unchangedByHandshake, Taken
  <2>2. \A i \in next..Len(frames) : FALSE
    BY <1>0, <2>1
  <2> QED BY <2>1, <2>2 DEF Taken
<1>4. CASE ClientFrame
  <2>1. /\ Len(frames') = Len(frames) + 1 /\ UNCHANGED arrived
        /\ \A i \in 1..Len(frames) : frames'[i] = frames[i]
        /\ arrived < End(frames'[Len(frames) + 1])
    BY <1>4, LaidSend
  <2>2. UNCHANGED <<upgraded, next, lost, delivered, pc>> /\ upgraded /\ pc = "poll"
    BY <1>4 DEF ClientFrame, unchangedByClient
  <2>3. \A i \in 1..(next - 1) : i \in 1..Len(frames)
    BY <1>0
  <2>4. \A i \in next..Len(frames') :
           (i \in next..Len(frames) /\ i \in 1..Len(frames)) \/ i = Len(frames) + 1
    BY <1>0, <2>1
  <2>5. \A i \in 1..(next - 1) : delivered[i] = Message(frames'[i]) /\ End(frames'[i]) <= arrived
    BY <2>1, <2>3 DEF Taken
  <2>6. \A i \in next..Len(frames') : arrived < End(frames'[i])
    BY <2>1, <2>2, <2>4 DEF Taken
  <2> QED BY <2>1, <2>2, <2>5, <2>6 DEF Taken
<1>5. CASE ArriveFrames
  <2>1. arrived' > arrived /\ arrived' \in Nat
    <3>1. [Next]_vars
      BY <1>5 DEF Next
    <3> QED BY <1>5, LaidArrive, TypeStep DEF Types
  <2>2. UNCHANGED <<upgraded, next, lost, delivered, frames>> /\ pc' = "unpack"
    BY <1>5 DEF ArriveFrames, unchangedByClient
  <2>3. ASSUME NEW i \in 1..(next - 1)
        PROVE  delivered[i] = Message(frames[i]) /\ End(frames[i]) <= arrived'
    <3>1. End(frames[i]) <= arrived /\ delivered[i] = Message(frames[i])
      BY <2>3 DEF Taken
    <3>2. PICK f \in SentFrames : f = frames[i]
      BY <1>0
    <3>3. End(f) \in Nat
      BY Layouts DEF End
    <3> QED BY <1>0, <2>1, <3>1, <3>2, <3>3
  <2> QED BY <2>2, <2>3 DEF Taken
<1>6. CASE UnPacketFrame
  BY <1>6, TakenUnPacket
<1>7. CASE SendResponses
  BY <1>7 DEF SendResponses, hsVars, Taken
<1>8. CASE UNCHANGED vars
  BY <1>8 DEF vars, hsVars, Taken
<1> QED BY <1>1, <1>2, <1>3, <1>4, <1>5, <1>6, <1>7, <1>8 DEF Next

-----------------------------------------------------------------------------
(* Masks *)

\* The lengths that the client's frames may have.
Lens == {f.len : f \in Frames}

\* The mask of every message that is not empty has been read.
MaskKnown(n, b) == n > 0 => b = 4 /\ n \in Lens

Masks ==
    /\ maskRead \in Seq(Int) /\ Len(maskRead) = Len(delivered)
    /\ \A i \in 1..Len(frames) : frames[i].len \in Lens
    /\ \A i \in 1..Len(delivered) : MaskKnown(delivered[i].len, maskRead[i])

\* Bytes of a payload are found only behind the mask.
LEMMA MaskBefore ==
    ASSUME NEW f \in SentFrames, NEW avail \in Nat,
           PayloadReady(f, avail), ~(Fresh(f, avail) < LengthBytes(f.len)), f.len > 0
    PROVE  MaskBytes(f, avail) = 4
<1>1. /\ f.len \in Nat /\ LengthBytes(f.len) \in Nat /\ extra(f) = 4 + LengthBytes(f.len)
  BY Layouts
<1>2. Fresh(f, avail) \in Int
  BY <1>1 DEF Fresh
<1>3. avail - 2 - Fresh(f, avail) >= f.len
  BY <1>1, <1>2 DEF PayloadReady
<1>4. Fresh(f, avail) = extra(f)
  BY <1>1, <1>3 DEF Fresh
<1> QED BY <1>1, <1>4 DEF MaskBytes

\* Every step keeps that.
LEMMA MaskStep ==
    ASSUME Types, Masks, [Next]_vars
    PROVE  Masks'
<1>0. /\ frames \in Seq(SentFrames) /\ delivered \in Seq(Messages) /\ maskRead \in Seq(Int)
      /\ Len(maskRead) = Len(delivered) /\ Len(delivered) \in Nat
  BY DEF Types, Masks
<1>1. ASSUME UNCHANGED <<frames, delivered, maskRead>> PROVE Masks'
  BY <1>1 DEF Masks
<1>2. CASE ClientRequest \/ ArriveRequest \/ ArriveFrames
  <2>1. UNCHANGED <<frames, delivered, maskRead>>
    BY <1>2, Zenon DEF ClientRequest, ArriveRequest, ArriveFrames, unchangedByClient
  <2> QED BY <1>1, <2>1
<1>3. CASE UnPacketUpgrade
  <2>1. UNCHANGED <<frames, delivered, maskRead>>
    BY <1>3, Zenon DEF UnPacketUpgrade, unchangedByHandshake
  <2> QED BY <1>1, <2>1
<1>4. CASE SendResponses
  BY <1>1, <1>4, Zenon DEF SendResponses
<1>5. CASE UNCHANGED vars
  BY <1>1, <1>5, Zenon DEF vars
<1>6. CASE ClientFrame
  <2>1. PICK f \in Frames : frames' = Append(frames, SentFrame(f))
    BY <1>6 DEF ClientFrame, SentFrame
  <2>2. UNCHANGED <<delivered, maskRead>>
    BY <1>6, Zenon DEF ClientFrame, unchangedByClient
  <2>3. /\ Len(frames') = Len(frames) + 1
        /\ \A i \in 1..Len(frames) : frames'[i] = frames[i]
        /\ frames'[Len(frames) + 1] = SentFrame(f)
    BY <2>1, FrameSent, Zenon
  <2>4. SentFrame(f).len \in Lens
    BY Zenon DEF SentFrame, Lens
  <2>5. \A i \in 1..Len(frames') : i \in 1..Len(frames) \/ i = Len(frames) + 1
    BY <1>0, <2>3
  <2>6. \A i \in 1..Len(frames') : frames'[i].len \in Lens
    BY <2>3, <2>4, <2>5, Zenon DEF Masks
  <2> QED BY <2>2, <2>6, Zenon DEF Masks
<1>7. CASE UnPacketFrame
  <2>1. UNCHANGED frames
    BY <1>7, Zenon DEF UnPacketFrame
  <2>2. CASE ~Readable
    BY <1>1, <1>7, <2>1, <2>2, Zenon DEF UnPacketFrame
  <2>3. CASE Readable
    <3>1. PICK f \in SentFrames : f = frames[next] /\ f.len \in Lens
      BY <2>3, ReadableFrame, Zenon DEF Masks
    <3>2. PICK avail \in Nat : avail = Available
      BY <2>3, ReadableFrame, Zenon
    <3>3. CASE ~PayloadReady(f, avail)
      BY <1>1, <1>7, <2>1, <2>3, <3>1, <3>2, <3>3, Zenon DEF UnPacketFrame
    <3>4. CASE PayloadReady(f, avail)
      <4>1. PICK m : /\ m = Response(f.op, IF lost' THEN 0 ELSE f.len, f.code)
                     /\ delivered' = Append(delivered, m)
        BY <1>7, <2>3, <3>1, <3>2, <3>4, Zenon DEF UnPacketFrame
      <4>2. /\ lost' = (Fresh(f, avail) < LengthBytes(f.len))
            /\ maskRead' = Append(maskRead, MaskBytes(f, avail))
        BY <1>7, <2>3, <3>1, <3>2, <3>4, Zenon DEF UnPacketFrame
      <4>3. m \in Messages /\ m.len = IF lost' THEN 0 ELSE f.len
        BY <4>1 DEF Response, Messages, SentFrames
      <4>4. MaskBytes(f, avail) \in Int
        BY Layouts DEF MaskBytes, Fresh
      <4>5. MaskKnown(m.len, MaskBytes(f, avail))
        <5>1. CASE lost'
          BY <4>3, <5>1 DEF MaskKnown
        <5>2. CASE ~lost'
          <6>1. ~(Fresh(f, avail) < LengthBytes(f.len)) /\ m.len = f.len
            BY <4>2, <4>3, <5>2, Zenon
          <6> QED BY <3>1, <3>4, <6>1, MaskBefore, Zenon DEF MaskKnown
        <5> QED BY <5>1, <5>2
      <4>6. /\ Len(delivered') = Len(delivered) + 1 /\ delivered'[Len(delivered) + 1] = m
            /\ \A i \in 1..Len(delivered) : delivered'[i] = delivered[i]
        BY <1>0, <4>1, <4>3, AppendProperties
      <4>7. /\ Len(maskRead') = Len(delivered) + 1
            /\ maskRead'[Len(delivered) + 1] = MaskBytes(f, avail)
            /\ maskRead' \in Seq(Int) /\ \A i \in 1..Len(delivered) : maskRead'[i] = maskRead[i]
        BY <1>0, <4>2, <4>4, AppendProperties
      <4>8. \A i \in 1..Len(delivered') : i \in 1..Len(delivered) \/ i = Len(delivered) + 1
        BY <1>0, <4>6
      <4>9. \A i \in 1..Len(delivered') : MaskKnown(delivered'[i].len, maskRead'[i])
        BY <4>5, <4>6, <4>7, <4>8, Zenon DEF Masks
      <4>10. Len(maskRead') = Len(delivered')
        BY <4>6, <4>7
      <4> QED BY <2>1, <4>7, <4>9, <4>10, Zenon DEF Masks
    <3> QED BY <3>3, <3>4
  <2> QED BY <2>2, <2>3
<1> QED BY <1>2, <1>3, <1>4, <1>5, <1>6, <1>7, Zenon DEF Next

-----------------------------------------------------------------------------
(* Results *)

\* The types, the legality of the replies and the places of the frames hold of
\* every reachable state.
LEMMA TypesHold == Spec => [](Types /\ LegalOut /\ Laid)
<1>1. Init => Types /\ LegalOut /\ Laid
  <2> SUFFICES ASSUME Init PROVE Types /\ LegalOut /\ Laid
    OBVIOUS
  <2>1. <<>> \in Seq(SentFrames) /\ <<>> \in Seq(Messages) /\ Len(<<>>) = 0
    OBVIOUS
  <2>2. [i \in 4..7 |-> TRUE] \in [4..7 -> BOOLEAN]
    OBVIOUS
  <2>3. stale \in [4..7 -> BOOLEAN]
    BY <2>2 DEF Init
  <2>4. \A i \in 1..Len(<<>>) : FALSE
    OBVIOUS
  <2>5. frames \in Seq(SentFrames) /\ delivered \in Seq(Messages) /\ out \in Seq(Messages)
    BY <2>1 DEF Init
  <2>6. next \in 1..(Len(frames) + 1) /\ Len(delivered) = next - 1
    BY <2>1 DEF Init
  <2>7. (\A i \in 1..Len(frames) : Short(frames[i])) /\ LegalOut
    BY <2>4 DEF Init, LegalOut
  <2>8. Types
    BY <2>3, <2>5, <2>6, <2>7, Zenon DEF Init, Types
  <2>9. Laid
    BY <2>1, <2>4 DEF Init, Laid, SentBytes
  <2> QED BY <2>7, <2>8, <2>9
<1>2. ASSUME Types /\ LegalOut /\ Laid, [Next]_vars PROVE (Types /\ LegalOut /\ Laid)'
  BY <1>2, TypeStep, LaidStep
<1> QED BY <1>1, <1>2, PTL DEF Spec

\* The reply to a close frame never has a code that RFC 6455 keeps out of close
\* frames, whatever is in the frame.
THEOREM CloseRepliesAreLegal == Spec => []CloseCodeLegal
<1>1. Types /\ LegalOut => CloseCodeLegal
  <2> SUFFICES ASSUME Types, LegalOut PROVE CloseCodeLegal
    OBVIOUS
  <2>1. DOMAIN out = 1..Len(out)
    BY DEF Types
  <2>2. \A i \in DOMAIN out : out[i].op = "close" => out[i].code \notin Illegal
    BY <2>1 DEF LegalOut
  <2> QED BY <2>2, Zenon DEF CloseCodeLegal, Illegal
<1> QED BY <1>1, TypesHold, PTL

\* Wherever the reads end, in a 64-bit header too, a payload of any length goes
\* to OnMessage only with all of its frame's mask read, and Cipher has unmasked
\* each of its bytes.
THEOREM PayloadsAreUnmasked == Spec => []PayloadUnmasked
<1>1. Init => Masks
  <2> SUFFICES ASSUME Init PROVE Masks
    OBVIOUS
  <2>1. <<>> \in Seq(Int) /\ Len(<<>>) = 0 /\ \A i \in 1..0 : FALSE
    OBVIOUS
  <2>2. maskRead = <<>> /\ delivered = <<>> /\ frames = <<>>
    BY Zenon DEF Init
  <2> QED BY <2>1, <2>2, Zenon DEF Masks
<1>2. ASSUME Types /\ LegalOut /\ Laid, Masks, [Next]_vars PROVE Masks'
  BY <1>2, MaskStep, Zenon
<1>3. Types /\ Masks => PayloadUnmasked
  <2> SUFFICES ASSUME Types, Masks, NEW i \in DOMAIN delivered, delivered[i].len > 0
               PROVE  maskRead[i] = 4 /\ delivered[i].len \in Unmasked
    BY Zenon DEF PayloadUnmasked
  <2>1. i \in 1..Len(delivered) /\ delivered[i] \in Messages
    BY DEF Types
  <2>2. maskRead[i] = 4 /\ delivered[i].len \in Lens
    BY <2>1, Zenon DEF Masks, MaskKnown
  <2>3. PICK n \in Nat : n = delivered[i].len
    BY <2>1 DEF Messages
  <2>4. \A j \in 0..(n - 1) : MaskedOnce(n, 0, j)
    BY CipherIsMask
  <2> QED BY <2>2, <2>3, <2>4, Zenon DEF Unmasked, Lens
<1> QED BY <1>1, <1>2, <1>3, TypesHold, PTL DEF Spec

\* Whatever the lengths of the frames and wherever reads end, but for the sixth
\* and the seventh byte of a 64-bit header, OnMessage gets every frame once, in
\* order, as soon as all of it has been read and not before.
THEOREM FramesStayIntact == ASSUME ~SplitLong PROVE Spec => []FramesIntact
<1>1. Init => Unsplit /\ Taken
  <2> SUFFICES ASSUME Init PROVE Unsplit /\ Taken
    OBVIOUS
  <2>1. \A i \in 1..Len(<<>>) : FALSE
    OBVIOUS
  <2>2. (\A i \in 1..(1 - 1) : FALSE) /\ (\A i \in 1..0 : FALSE) /\ Len(<<>>) = 0
    OBVIOUS
  <2> QED BY <2>1, <2>2 DEF Init, Unsplit, Taken
<1>2. ASSUME Types /\ LegalOut /\ Laid, Unsplit /\ Taken, [Next]_vars PROVE (Unsplit /\ Taken)'
  BY <1>2, LaidStep, TakenStep
<1>3. Types /\ Laid /\ Taken => FramesIntact
  <2> SUFFICES ASSUME Types, Laid, Taken PROVE FramesIntact
    OBVIOUS
  <2>1. /\ frames \in Seq(SentFrames) /\ arrived \in Nat /\ next \in 1..(Len(frames) + 1)
        /\ delivered \in Seq(Messages) /\ Len(delivered) = next - 1
    BY DEF Types
  <2>2. DOMAIN delivered = 1..(next - 1) /\ DOMAIN frames = 1..Len(frames)
    BY <2>1
  <2>3. \A i \in DOMAIN delivered :
           /\ delivered[i] = Response(frames[i].op, frames[i].len, frames[i].code)
           /\ frames[i].from + Size(frames[i]) <= arrived
    BY <2>2 DEF Taken, Message, End
  <2>4. ASSUME pc = "poll", NEW i \in DOMAIN frames, frames[i].from + Size(frames[i]) <= arrived
        PROVE  i <= Len(delivered)
    <3>1. PICK f \in SentFrames : f = frames[i]
      BY <2>1
    <3>2. ~(arrived < End(frames[i]))
      BY <2>1, <2>4, <3>1, Layouts DEF End
    <3>3. i \notin next..Len(frames)
      BY <2>4, <3>2 DEF Taken
    <3> QED BY <2>1, <2>2, <2>4, <3>3
  <2> QED BY <2>3, <2>4 DEF FramesIntact
<1> QED BY <1>1, <1>2, <1>3, TypesHold, PTL DEF Spec

\* The connection becomes a WebSocket exactly for an acceptable request, and a
\* refusal names the first objection, for every list of header lines.
THEOREM UpgradesAreSound == Spec => []UpgradeSound
<1>1. Init => Handshake
  BY BoundsAssumption DEF Init, Handshake, UpgradeSound, Responses
<1>2. ASSUME Types /\ LegalOut /\ Laid, Handshake, [Next]_vars PROVE Handshake'
  BY <1>2, HandshakeStep, Zenon DEF Types
<1>3. Handshake => UpgradeSound
  BY Zenon DEF Handshake
<1> QED BY <1>1, <1>2, <1>3, TypesHold, PTL DEF Spec

\* What TypeOK says besides Types, Laid and Handshake.
Rest == shutWr \in BOOLEAN /\ closed \in BOOLEAN /\ Len(frames) <= MaxFrames

\* Every step keeps that.
LEMMA RestStep ==
    ASSUME Types, Rest, [Next]_vars
    PROVE  Rest'
<1>1. shutWr' \in BOOLEAN
  <2>1. UNCHANGED shutWr \/ \E b \in BOOLEAN : shutWr' = b
    BY Zenon DEF Next, ClientRequest, ArriveRequest, UnPacketUpgrade, ClientFrame, ArriveFrames,
                 UnPacketFrame, SendResponses, vars, unchangedByClient, unchangedByHandshake
  <2> QED BY <2>1, Zenon DEF Rest
<1>2. closed' \in BOOLEAN
  <2>1. UNCHANGED closed \/ closed' = (out # <<>> /\ shutWr)
    BY Zenon DEF Next, ClientRequest, ArriveRequest, UnPacketUpgrade, ClientFrame, ArriveFrames,
                 UnPacketFrame, SendResponses, vars, unchangedByClient, unchangedByHandshake
  <2> QED BY <2>1, Zenon DEF Rest
<1>3. Len(frames') <= MaxFrames
  <2>1. CASE ClientFrame
    <3>1. PICK f \in Frames : frames' = Append(frames, SentFrame(f))
      BY <2>1 DEF ClientFrame, SentFrame
    <3>2. Len(frames') = Len(frames) + 1 /\ Len(frames) < MaxFrames
      BY <2>1, <3>1, FrameSent, Zenon DEF ClientFrame
    <3> QED BY <3>2, BoundsAssumption DEF Types
  <2>2. CASE ~ClientFrame
    <3>1. UNCHANGED frames
      BY <2>2, Zenon DEF Next, ClientRequest, ArriveRequest, UnPacketUpgrade, ArriveFrames,
                 UnPacketFrame, SendResponses, vars, unchangedByClient, unchangedByHandshake
    <3> QED BY <3>1, Zenon DEF Rest
  <2> QED BY <2>1, <2>2
<1> QED BY <1>1, <1>2, <1>3, Zenon DEF Rest

\* The state keeps to its types and bounds: no more has been read than sent, and
\* no more delivered than sent.
THEOREM TypesAreKept == Spec => []TypeOK
<1>1. Init => Handshake /\ Rest
  <2> SUFFICES ASSUME Init PROVE Handshake /\ Rest
    OBVIOUS
  <2>1. Handshake
    BY BoundsAssumption DEF Init, Handshake, UpgradeSound, Responses
  <2>2. frames = <<>> /\ shutWr = FALSE /\ closed = FALSE
    BY Zenon DEF Init
  <2>3. Len(<<>>) <= MaxFrames
    BY BoundsAssumption
  <2> QED BY <2>1, <2>2, <2>3, Zenon DEF Rest
<1>2. ASSUME Types /\ LegalOut /\ Laid, Handshake /\ Rest, [Next]_vars PROVE (Handshake /\ Rest)'
  BY <1>2, HandshakeStep, RestStep, Zenon DEF Types
<1>3. Types /\ Laid /\ Handshake /\ Rest => TypeOK
  <2> SUFFICES ASSUME Types, Laid, Handshake, Rest PROVE TypeOK
    OBVIOUS
  <2>1. SentBytes \in Nat
    BY SentIsNat DEF Types
  <2>2. arrived \in 0..SentBytes
    BY <2>1 DEF Types, Laid
  <2>3. Len(delivered) <= MaxFrames
    BY BoundsAssumption DEF Types, Rest
  <2>4. {lost, shutWr, closed} \subseteq BOOLEAN
    BY Zenon DEF Types, Rest
  <2> QED BY <2>2, <2>3, <2>4, Zenon DEF TypeOK, Types, Handshake, Rest
<1> QED BY <1>1, <1>2, <1>3, TypesHold, PTL DEF Spec
=============================================================================
