--------------------------- MODULE WatchdogProofs ----------------------------
(***************************************************************************)
(* What the watchdog promises to the reader of its chat, proved for any    *)
(* number of groups, runs, faults and instants, and for every valid        *)
(* configuration.                                                          *)
(***************************************************************************)
EXTENDS WatchdogProperties, FiniteSetTheorems, TLAPS

------------------------------------------------------------------------------
(* Folds over sequences.  The library's induction theorems take the        *)
(* property as an operator; here it is the set of the numbers that have    *)
(* it, which the provers can instantiate.                                  *)

LEMMA NumberInduction ==
    ASSUME NEW Good, 0 \in Good, \A n \in Nat : n \in Good => n + 1 \in Good
    PROVE  \A n \in Nat : n \in Good
<1> SUFFICES ASSUME NEW k \in Nat, k \notin Good
             PROVE  FALSE
  OBVIOUS
<1> DEFINE Bad == {1..m : m \in {m \in 0..k : m \notin Good}}
<1>1. Bad # {} /\ Bad \subseteq SUBSET (1..k)
  OBVIOUS
<1>2. Bad \subseteq FiniteSubsetsOf(1..k)
  <2>1. IsFiniteSet(1..k)
    BY FS_Interval
  <2>2. FiniteSubsetsOf(1..k) = SUBSET (1..k)
    BY <2>1, FS_FiniteSubsetsOfFinite
  <2> HIDE DEF Bad
  <2> QED
    BY <1>1, <2>2
<1>3. PICK T \in Bad : \A U \in Bad : ~(<<U, T>> \in StrictSubsetOrdering(1..k))
  <2> HIDE DEF Bad
  <2> QED
    BY <1>1, <1>2, FS_StrictSubsetOrderingWellFounded, WFMin
<1>4. PICK m \in 0..k : m \notin Good /\ T = 1..m
  BY <1>3
<1>5. m # 0 /\ m - 1 \in 0..k /\ (m - 1) + 1 = m
  BY <1>4
<1>6. m - 1 \notin Good
  BY <1>4, <1>5
<1>7. 1..(m - 1) \in Bad
  BY <1>5, <1>6
<1>8. 1..(m - 1) \subseteq 1..m /\ m \in 1..m /\ m \notin 1..(m - 1) /\ 1..m \subseteq 1..k
  BY <1>5
<1>9. <<1..(m - 1), 1..m>> \in StrictSubsetOrdering(1..k)
  BY <1>8 DEF StrictSubsetOrdering
<1> QED
  BY <1>3, <1>4, <1>7, <1>9

LEMMA LeastNumber ==
    ASSUME NEW S \in SUBSET Nat, S # {}
    PROVE  \E t \in S : \A u \in S : t <= u
<1> SUFFICES ASSUME \A t \in S : \E u \in S : u < t
             PROVE  FALSE
  OBVIOUS
<1> DEFINE Good == {n \in Nat : \A m \in 0..n : m \notin S}
<1>1. 0 \in Good
  OBVIOUS
<1>2. ASSUME NEW n \in Nat, n \in Good
      PROVE  n + 1 \in Good
  <2>1. ASSUME n + 1 \in S
        PROVE  FALSE
    <3>1. PICK u \in S : u < n + 1
      BY <2>1
    <3>2. u \in 0..n
      BY <3>1
    <3> QED
      BY <1>2, <3>2
  <2> QED
    BY <1>2, <2>1
<1>3. \A n \in Nat : n \in Good
  <2> HIDE DEF Good
  <2> QED
    BY <1>1, <1>2, NumberInduction
<1>4. \A n \in Nat : n \notin S
  BY <1>3
<1> QED
  BY <1>4

\* Max picks the largest index of a set of indices.
LEMMA MaxIsLargest ==
    ASSUME NEW s, NEW k \in s, \A i \in s : i \in Int /\ i <= k
    PROVE  Max(s) = k
<1>1. \E x \in s : \A y \in s : x >= y
  BY k \in s
<1>2. Max(s) \in s /\ \A y \in s : Max(s) >= y
  BY <1>1 DEF Max
<1> QED
  BY <1>2

LEMMA MaxIsIn ==
    ASSUME NEW n \in Nat, NEW s \in SUBSET (1..n), s # {}
    PROVE  Max(s) \in s
<1> DEFINE Good == {k \in Nat : \A t \in SUBSET (1..k) : t # {} => Max(t) \in t}
<1>1. 0 \in Good
  <2>1. 1..0 = {}
    OBVIOUS
  <2> QED
    BY <2>1
<1>2. ASSUME NEW k \in Nat, k \in Good
      PROVE  k + 1 \in Good
  <2> SUFFICES ASSUME NEW t \in SUBSET (1..k + 1), t # {}
               PROVE  Max(t) \in t
    OBVIOUS
  <2>1. CASE k + 1 \in t
    <3>1. \A i \in t : i \in Int /\ i <= k + 1
      OBVIOUS
    <3> QED
      BY <2>1, <3>1, MaxIsLargest
  <2>2. CASE k + 1 \notin t
    <3>1. t \in SUBSET (1..k)
      BY <2>2
    <3> QED
      BY <1>2, <3>1
  <2> QED
    BY <2>1, <2>2
<1>3. \A k \in Nat : k \in Good
  <2> HIDE DEF Good
  <2> QED
    BY <1>1, <1>2, NumberInduction
<1> QED
  BY <1>3

\* The recursive function inside FoldLeft, for an operation given as a function.
IsFold(h, op, base, seq, S) ==
    \A s \in SUBSET S :
      h[s] = IF s = {} THEN base ELSE op[<<h[s \ {Max(s)}], seq[Max(s)]>>]

LEMMA FoldExists ==
    ASSUME NEW A, NEW D, NEW op \in [A \X D -> A], NEW base \in A,
           NEW n \in Nat, NEW seq \in [1..n -> D]
    PROVE  \E h \in [SUBSET (1..n) -> A] : IsFold(h, op, base, seq, 1..n)
<1> DEFINE Good == {k \in Nat : k <= n =>
                      \E h \in [SUBSET (1..k) -> A] : IsFold(h, op, base, seq, 1..k)}
<1>1. 0 \in Good
  <2>1. SUBSET (1..0) = {{}}
    OBVIOUS
  <2>2. IsFold([s \in {{}} |-> base], op, base, seq, 1..0)
    BY <2>1 DEF IsFold
  <2> QED
    BY <2>1, <2>2
<1>2. ASSUME NEW k \in Nat, k \in Good
      PROVE  k + 1 \in Good
  <2> SUFFICES ASSUME k + 1 <= n
               PROVE  \E h \in [SUBSET (1..k + 1) -> A] : IsFold(h, op, base, seq, 1..k + 1)
    <3>1. k + 1 \in Nat
      OBVIOUS
    <3> QED
      BY <3>1, Zenon
  <2>1. PICK h \in [SUBSET (1..k) -> A] : IsFold(h, op, base, seq, 1..k)
    <3>1. k <= n
      OBVIOUS
    <3> QED
      BY <1>2, <3>1, Zenon
  <2> DEFINE last(s) == op[<<h[s \ {k + 1}], seq[k + 1]>>]
             g == [s \in SUBSET (1..k + 1) |-> IF k + 1 \in s THEN last(s) ELSE h[s]]
  <2>2. ASSUME NEW s \in SUBSET (1..k + 1)
        PROVE  /\ s \ {k + 1} \in SUBSET (1..k)
               /\ k + 1 \notin s => s \in SUBSET (1..k)
               /\ g[s] = IF k + 1 \in s THEN last(s) ELSE h[s]
    OBVIOUS
  <2>3. ASSUME NEW s \in SUBSET (1..k + 1)
        PROVE  last(s) \in A
    <3>1. h[s \ {k + 1}] \in A /\ seq[k + 1] \in D
      BY <2>2
    <3> QED
      BY <3>1
  <2>4. g \in [SUBSET (1..k + 1) -> A]
    <3> SUFFICES ASSUME NEW s \in SUBSET (1..k + 1)
                 PROVE  (IF k + 1 \in s THEN last(s) ELSE h[s]) \in A
      OBVIOUS
    <3> HIDE DEF last
    <3> QED
      BY <2>2, <2>3
  <2>5. ASSUME NEW s \in SUBSET (1..k + 1)
        PROVE  g[s] = IF s = {} THEN base ELSE op[<<g[s \ {Max(s)}], seq[Max(s)]>>]
    <3>1. CASE k + 1 \in s
      <4>1. Max(s) = k + 1
        <5>1. \A i \in s : i \in Int /\ i <= k + 1
          OBVIOUS
        <5> QED
          BY <3>1, <5>1, MaxIsLargest
      <4>2. g[s \ {k + 1}] = h[s \ {k + 1}]
        <5>1. s \ {k + 1} \in SUBSET (1..k + 1) /\ k + 1 \notin s \ {k + 1}
          OBVIOUS
        <5> HIDE DEF g
        <5> QED
          BY <5>1, <2>2
      <4>3. g[s] = last(s)
        BY <3>1, <2>2
      <4> HIDE DEF g
      <4> QED
        BY <3>1, <4>1, <4>2, <4>3
    <3>2. CASE k + 1 \notin s
      <4>1. s \in SUBSET (1..k)
        BY <2>2, <3>2
      <4>2. g[s] = h[s] /\ g[s \ {Max(s)}] = h[s \ {Max(s)}]
        <5>1. s \ {Max(s)} \in SUBSET (1..k + 1) /\ k + 1 \notin s \ {Max(s)}
          BY <3>2
        <5> HIDE DEF g
        <5> QED
          BY <5>1, <2>2, <3>2
      <4>3. h[s] = IF s = {} THEN base ELSE op[<<h[s \ {Max(s)}], seq[Max(s)]>>]
        BY <2>1, <4>1 DEF IsFold
      <4> HIDE DEF g
      <4> QED
        BY <4>2, <4>3
    <3> QED
      BY <3>1, <3>2
  <2> HIDE DEF g
  <2>6. IsFold(g, op, base, seq, 1..k + 1)
    BY <2>5 DEF IsFold
  <2> QED
    BY <2>4, <2>6
<1>3. \A k \in Nat : k \in Good
  <2> HIDE DEF Good
  <2> QED
    BY <1>1, <1>2, NumberInduction
<1>4. n <= n
  OBVIOUS
<1> QED
  BY <1>3, <1>4, Zenon

\* The prefixes of an index set, from which the recursion takes the last index.
LEMMA IndexPrefixes ==
    ASSUME NEW n \in Nat, NEW i \in 1..n
    PROVE  /\ 1..i \in SUBSET (1..n) /\ 1..i # {}
           /\ Max(1..i) = i
           /\ (1..i) \ {i} = 1..(i - 1)
<1>1. i \in 1..i /\ \A j \in 1..i : j \in Int /\ j <= i
  OBVIOUS
<1>2. Max(1..i) = i
  BY <1>1, MaxIsLargest
<1>3. 1..i \in SUBSET (1..n) /\ 1..i # {} /\ (1..i) \ {i} = 1..(i - 1)
  OBVIOUS
<1> QED
  BY <1>2, <1>3

------------------------------------------------------------------------------
(* Messages and chunks                                                     *)

Message ==
    [kind : {"opened", "resolved"}, key : FindingKeys]
      \cup [kind : {"heartbeat"}, keys : SUBSET FindingKeys]

\* A chunk is never empty.
Chunked == {s \in Seq(Message) : s # <<>>}

\* Whether a message is in one of the chunks.
In(m, chunks) == \E i \in DOMAIN chunks : \E j \in DOMAIN chunks[i] : chunks[i][j] = m

\* What a reader believes after one more message, and the chunks after it.
After(keys, m) ==
    CASE m.kind = "opened"    -> keys \cup {m.key}
      [] m.kind = "resolved"  -> keys \ {m.key}
      [] m.kind = "heartbeat" -> m.keys

AddTo(chunks, m) ==
    IF chunks # <<>> /\ ChunkLength(Append(Last(chunks), m)) <= TELEGRAM_MAX_CHARS
    THEN Front(chunks) \o <<Append(Last(chunks), m)>>
    ELSE Append(chunks, <<m>>)

LEMMA AfterType ==
    ASSUME NEW keys \in SUBSET FindingKeys, NEW m \in Message
    PROVE  After(keys, m) \in SUBSET FindingKeys
<1>1. CASE m \in [kind : {"opened", "resolved"}, key : FindingKeys]
  BY <1>1 DEF After
<1>2. CASE m \in [kind : {"heartbeat"}, keys : SUBSET FindingKeys]
  BY <1>2 DEF After
<1> QED
  BY <1>1, <1>2 DEF Message

IsReads(h, keys, ms) ==
    h = [s \in SUBSET DOMAIN ms |->
           IF s = {} THEN keys ELSE After(h[s \ {Max(s)}], ms[Max(s)])]

LEMMA ReadsIsChosen ==
    ASSUME NEW keys, NEW ms
    PROVE  Reads(keys, ms) = (CHOOSE h : IsReads(h, keys, ms))[DOMAIN ms]
BY DEF Reads, FoldLeft, MapThenFoldSet, IsReads, After

IsChunk(h, ms) ==
    h = [s \in SUBSET DOMAIN ms |->
           IF s = {} THEN <<>> ELSE AddTo(h[s \ {Max(s)}], ms[Max(s)])]

LEMMA ChunkIsChosen ==
    ASSUME NEW ms
    PROVE  Chunk(ms) = (CHOOSE h : IsChunk(h, ms))[DOMAIN ms]
BY DEF Chunk, FoldLeft, MapThenFoldSet, IsChunk, AddTo

\* Reads goes message by message.
LEMMA ReadsSteps ==
    ASSUME NEW keys \in SUBSET FindingKeys, NEW ms \in Seq(Message)
    PROVE  \E r \in [0..Len(ms) -> SUBSET FindingKeys] :
             /\ r[0] = keys
             /\ r[Len(ms)] = Reads(keys, ms)
             /\ \A i \in 1..Len(ms) : r[i] = After(r[i - 1], ms[i])
<1> DEFINE A == SUBSET FindingKeys
           n == Len(ms)
           op == [p \in A \X Message |-> After(p[1], p[2])]
<1>1. n \in Nat /\ ms \in [1..n -> Message] /\ DOMAIN ms = 1..n
  OBVIOUS
<1>2. op \in [A \X Message -> A]
  BY AfterType
<1>3. \A a \in A, m \in Message : op[<<a, m>>] = After(a, m)
  OBVIOUS
<1> HIDE DEF A, n, op
<1>4. keys \in A
  BY DEF A
<1>5. PICK g \in [SUBSET (1..n) -> A] : IsFold(g, op, keys, ms, 1..n)
  BY <1>1, <1>2, <1>4, FoldExists
<1>6. IsReads(g, keys, ms)
  <2>1. ASSUME NEW s \in SUBSET (1..n)
        PROVE  g[s] = IF s = {} THEN keys ELSE After(g[s \ {Max(s)}], ms[Max(s)])
    <3>1. s # {} => Max(s) \in 1..n
      BY <1>1, MaxIsIn
    <3>2. s # {} => g[s \ {Max(s)}] \in A /\ ms[Max(s)] \in Message
      BY <1>1, <3>1
    <3> QED
      BY <1>3, <1>5, <3>2 DEF IsFold
  <2> QED
    BY <1>1, <2>1, Zenon DEF IsReads
<1> DEFINE h == CHOOSE f : IsReads(f, keys, ms)
<1>7. IsReads(h, keys, ms)
  BY <1>6
<1>8. Reads(keys, ms) = h[1..n]
  BY <1>1, ReadsIsChosen
<1> HIDE DEF h
<1>9. \A s \in SUBSET (1..n) :
         h[s] = IF s = {} THEN keys ELSE After(h[s \ {Max(s)}], ms[Max(s)])
  BY <1>1, <1>7 DEF IsReads
<1>10. ASSUME NEW i \in 1..n
       PROVE  h[1..i] = After(h[1..(i - 1)], ms[i])
  BY <1>1, <1>9, IndexPrefixes
<1>11. h[1..0] = keys
  BY <1>9, 1..0 = {}
<1> DEFINE r == [i \in 0..n |-> h[1..i]]
           Good == {i \in Nat : i <= n => h[1..i] \in A}
<1>12. \A i \in Nat : i \in Good
  <2>1. 0 \in Good
    BY <1>4, <1>11
  <2>2. ASSUME NEW i \in Nat, i \in Good
        PROVE  i + 1 \in Good
    <3> SUFFICES ASSUME i + 1 <= n
                 PROVE  h[1..(i + 1)] \in A
      OBVIOUS
    <3>1. i + 1 \in 1..n /\ i <= n /\ (i + 1) - 1 = i
      BY <1>1
    <3>2. h[1..i] \in A /\ ms[i + 1] \in Message
      BY <1>1, <2>2, <3>1
    <3>3. h[1..(i + 1)] = After(h[1..i], ms[i + 1])
      BY <1>10, <3>1
    <3> QED
      BY <3>2, <3>3, AfterType DEF A
  <2> HIDE DEF Good
  <2> QED
    BY <2>1, <2>2, NumberInduction
<1>13. r \in [0..n -> A]
  <2> SUFFICES ASSUME NEW i \in 0..n
               PROVE  h[1..i] \in A
    OBVIOUS
  <2> QED
    BY <1>1, <1>12
<1>14. \A i \in 1..n : r[i] = After(r[i - 1], ms[i])
  <2> SUFFICES ASSUME NEW i \in 1..n
               PROVE  r[i] = After(r[i - 1], ms[i])
    OBVIOUS
  <2>1. i \in 0..n /\ i - 1 \in 0..n
    BY <1>1
  <2> QED
    BY <1>10, <2>1
<1>15. r[0] = keys /\ r[n] = Reads(keys, ms)
  <2>1. 0 \in 0..n /\ n \in 0..n
    BY <1>1
  <2> QED
    BY <1>8, <1>11, <2>1
<1> HIDE DEF r
<1> QED
  BY <1>13, <1>14, <1>15 DEF A, n

LEMMA FrontOK ==
    ASSUME NEW S, NEW s \in Seq(S), s # <<>>
    PROVE  /\ Front(s) \in Seq(S) /\ Len(Front(s)) = Len(s) - 1
           /\ \A i \in 1..(Len(s) - 1) : Front(s)[i] = s[i]
<1>1. Len(s) \in Nat /\ Len(s) >= 1
  OBVIOUS
<1>2. Front(s) = SubSeq(s, 1, Len(s) - 1)
  BY DEF Front
<1> DEFINE n == Len(s)
<1>3. n - 1 \in Nat /\ \A i \in 1..(n - 1) : s[i] \in S
  BY <1>1
<1>4. Len(SubSeq(s, 1, n - 1)) = n - 1
  BY <1>1
<1>5. \A i \in 1..(n - 1) : SubSeq(s, 1, n - 1)[i] = s[i]
  BY <1>1
<1>6. SubSeq(s, 1, n - 1) \in Seq(S)
  BY <1>1, <1>3
<1> QED
  BY <1>2, <1>4, <1>5, <1>6

LEMMA AddToOK ==
    ASSUME NEW cs \in Seq(Chunked), NEW m \in Message
    PROVE  /\ AddTo(cs, m) \in Seq(Chunked)
           /\ AddTo(cs, m) # <<>> /\ Last(Last(AddTo(cs, m))) = m
           /\ \A x : In(x, AddTo(cs, m)) <=> x = m \/ In(x, cs)
<1> DEFINE n == Len(cs)
<1>1. CASE /\ cs # <<>>
           /\ AddTo(cs, m) = Front(cs) \o <<Append(Last(cs), m)>>
  <2> DEFINE c == cs[n]
             k == Len(c)
             new == Append(c, m)
             ds == Front(cs) \o <<new>>
  <2>1. n \in Nat /\ n >= 1 /\ cs[n] \in Chunked /\ \A i \in 1..n : cs[i] \in Chunked
    BY <1>1
  <2>2. c \in Seq(Message) /\ k \in Nat
    BY <2>1 DEF Chunked
  <2>3. /\ new \in Seq(Message) /\ Len(new) = k + 1 /\ new[k + 1] = m
        /\ \A j \in 1..k : new[j] = c[j]
    BY <2>2
  <2>4. new \in Chunked
    <3> HIDE DEF new
    <3>1. new # <<>>
      BY <2>2, <2>3
    <3> QED
      BY <2>3, <3>1 DEF Chunked
  <2>5. /\ Front(cs) \in Seq(Chunked) /\ Len(Front(cs)) = n - 1
        /\ \A i \in 1..(n - 1) : Front(cs)[i] = cs[i]
    BY <1>1, FrontOK
  <2> HIDE DEF n, c, k, new
  <2>6. /\ ds \in Seq(Chunked) /\ Len(ds) = n /\ ds[n] = new
        /\ \A i \in 1..(n - 1) : ds[i] = cs[i]
    BY <2>1, <2>4, <2>5
  <2> HIDE DEF ds
  <2>7. AddTo(cs, m) = ds
    BY <1>1 DEF ds, new, c, n, Last
  <2>8. ds # <<>> /\ Last(Last(ds)) = m
    BY <2>1, <2>3, <2>6 DEF Last
  <2>9. ASSUME NEW x
        PROVE  In(x, ds) <=> x = m \/ In(x, cs)
    <3>1. /\ DOMAIN ds = 1..n /\ DOMAIN cs = 1..n
          /\ DOMAIN new = 1..(k + 1) /\ DOMAIN c = 1..k
      BY <2>2, <2>3, <2>6 DEF n, k
    <3>2. ASSUME In(x, ds)
          PROVE  x = m \/ In(x, cs)
      <4>1. PICK i \in 1..n : \E j \in DOMAIN ds[i] : ds[i][j] = x
        BY <3>1, <3>2 DEF In
      <4>2. CASE i = n
        <5>1. PICK j \in 1..(k + 1) : new[j] = x
          BY <2>6, <3>1, <4>1, <4>2
        <5>2. CASE j = k + 1
          BY <2>3, <5>1, <5>2
        <5>3. CASE j # k + 1
          <6>1. j \in 1..k /\ c[j] = x
            BY <2>2, <2>3, <5>1, <5>3
          <6>2. n \in DOMAIN cs /\ j \in DOMAIN cs[n] /\ cs[n][j] = x
            BY <2>1, <3>1, <6>1 DEF c
          <6> QED
            BY <6>2 DEF In
        <5> QED
          BY <5>2, <5>3
      <4>3. CASE i # n
        <5>1. i \in 1..(n - 1) /\ ds[i] = cs[i]
          BY <2>1, <2>6, <4>3
        <5> QED
          BY <3>1, <4>1, <5>1 DEF In
      <4> QED
        BY <4>2, <4>3
    <3>3. ASSUME x = m
          PROVE  In(x, ds)
      <4>1. n \in DOMAIN ds /\ k + 1 \in DOMAIN ds[n] /\ ds[n][k + 1] = x
        BY <2>1, <2>2, <2>3, <2>6, <3>1, <3>3
      <4> QED
        BY <4>1 DEF In
    <3>4. ASSUME In(x, cs)
          PROVE  In(x, ds)
      <4>1. PICK i \in 1..n : \E j \in DOMAIN cs[i] : cs[i][j] = x
        BY <3>1, <3>4 DEF In
      <4>2. CASE i = n
        <5>1. PICK j \in 1..k : c[j] = x
          BY <3>1, <4>1, <4>2 DEF c
        <5>2. j \in 1..(k + 1) /\ new[j] = x
          BY <2>2, <2>3, <5>1
        <5>3. n \in DOMAIN ds /\ j \in DOMAIN ds[n] /\ ds[n][j] = x
          BY <2>1, <2>6, <3>1, <5>2
        <5> QED
          BY <5>3 DEF In
      <4>3. CASE i # n
        <5>1. i \in 1..(n - 1) /\ ds[i] = cs[i]
          BY <2>1, <2>6, <4>3
        <5> QED
          BY <3>1, <4>1, <5>1 DEF In
      <4> QED
        BY <4>2, <4>3
    <3> QED
      BY <3>2, <3>3, <3>4
  <2> QED
    BY <2>6, <2>7, <2>8, <2>9
<1>2. CASE AddTo(cs, m) = Append(cs, <<m>>)
  <2> DEFINE ds == Append(cs, <<m>>)
  <2>1. <<m>> \in Chunked /\ Len(<<m>>) = 1 /\ <<m>>[1] = m /\ DOMAIN <<m>> = 1..1
    BY DEF Chunked
  <2>2. /\ n \in Nat /\ ds \in Seq(Chunked) /\ Len(ds) = n + 1 /\ ds[n + 1] = <<m>>
        /\ \A i \in 1..n : ds[i] = cs[i]
        /\ DOMAIN ds = 1..(n + 1) /\ DOMAIN cs = 1..n
    BY <2>1
  <2> HIDE DEF ds, n
  <2>3. ds # <<>> /\ Last(Last(ds)) = m
    BY <2>1, <2>2 DEF Last
  <2>4. ASSUME NEW x
        PROVE  In(x, ds) <=> x = m \/ In(x, cs)
    <3>1. ASSUME In(x, ds)
          PROVE  x = m \/ In(x, cs)
      <4>1. PICK i \in 1..(n + 1) : \E j \in DOMAIN ds[i] : ds[i][j] = x
        BY <2>2, <3>1 DEF In
      <4>2. CASE i = n + 1
        BY <2>1, <2>2, <4>1, <4>2
      <4>3. CASE i # n + 1
        <5>1. i \in 1..n /\ ds[i] = cs[i]
          BY <2>2, <4>3
        <5> QED
          BY <2>2, <4>1, <5>1 DEF In
      <4> QED
        BY <4>2, <4>3
    <3>2. ASSUME x = m
          PROVE  In(x, ds)
      <4>1. n + 1 \in DOMAIN ds /\ 1 \in DOMAIN ds[n + 1] /\ ds[n + 1][1] = x
        BY <2>1, <2>2, <3>2
      <4> QED
        BY <4>1 DEF In
    <3>3. ASSUME In(x, cs)
          PROVE  In(x, ds)
      <4>1. PICK i \in 1..n : \E j \in DOMAIN cs[i] : cs[i][j] = x
        BY <2>2, <3>3 DEF In
      <4>2. i \in 1..(n + 1) /\ ds[i] = cs[i]
        BY <2>2
      <4> QED
        BY <2>2, <4>1, <4>2 DEF In
    <3> QED
      BY <3>1, <3>2, <3>3
  <2> QED
    BY <1>2, <2>2, <2>3, <2>4 DEF ds
<1> QED
  BY <1>1, <1>2 DEF AddTo

\* chunk keeps every message, adds none, leaves no chunk empty and leaves the
\* last message last.
LEMMA ChunkOK ==
    ASSUME NEW ms \in Seq(Message)
    PROVE  /\ Chunk(ms) \in Seq(Chunked)
           /\ \A x : In(x, Chunk(ms)) <=> \E i \in DOMAIN ms : ms[i] = x
           /\ ms # <<>> => Chunk(ms) # <<>> /\ Last(Last(Chunk(ms))) = Last(ms)
<1> DEFINE A == Seq(Chunked)
           n == Len(ms)
           op == [p \in A \X Message |-> AddTo(p[1], p[2])]
<1>1. n \in Nat /\ ms \in [1..n -> Message] /\ DOMAIN ms = 1..n
  OBVIOUS
<1>2. op \in [A \X Message -> A]
  BY AddToOK
<1>3. \A a \in A, m \in Message : op[<<a, m>>] = AddTo(a, m)
  OBVIOUS
<1>4. <<>> \in A
  OBVIOUS
<1> HIDE DEF A, n, op
<1>5. PICK g \in [SUBSET (1..n) -> A] : IsFold(g, op, <<>>, ms, 1..n)
  BY <1>1, <1>2, <1>4, FoldExists
<1>6. IsChunk(g, ms)
  <2>1. ASSUME NEW s \in SUBSET (1..n)
        PROVE  g[s] = IF s = {} THEN <<>> ELSE AddTo(g[s \ {Max(s)}], ms[Max(s)])
    <3>1. s # {} => Max(s) \in 1..n
      BY <1>1, MaxIsIn
    <3>2. s # {} => g[s \ {Max(s)}] \in A /\ ms[Max(s)] \in Message
      BY <1>1, <3>1
    <3> QED
      BY <1>3, <1>5, <3>2 DEF IsFold
  <2> QED
    BY <1>1, <2>1, Zenon DEF IsChunk
<1> DEFINE h == CHOOSE f : IsChunk(f, ms)
<1>7. IsChunk(h, ms)
  BY <1>6
<1>8. Chunk(ms) = h[1..n]
  BY <1>1, ChunkIsChosen
<1> HIDE DEF h
<1>9. \A s \in SUBSET (1..n) :
         h[s] = IF s = {} THEN <<>> ELSE AddTo(h[s \ {Max(s)}], ms[Max(s)])
  BY <1>1, <1>7 DEF IsChunk
<1>10. ASSUME NEW i \in 1..n
       PROVE  h[1..i] = AddTo(h[1..(i - 1)], ms[i])
  BY <1>1, <1>9, IndexPrefixes
<1>11. h[1..0] = <<>>
  BY <1>9, 1..0 = {}
<1> DEFINE OK(i) == /\ h[1..i] \in A
                    /\ \A x : In(x, h[1..i]) <=> \E j \in 1..i : ms[j] = x
                    /\ i > 0 => h[1..i] # <<>> /\ Last(Last(h[1..i])) = ms[i]
           Good == {i \in Nat : i <= n => OK(i)}
<1>12. \A i \in Nat : i \in Good
  <2>1. 0 \in Good
    <3>1. \A x : ~In(x, <<>>) /\ 1..0 = {}
      BY DEF In
    <3> QED
      BY <1>4, <1>11, <3>1
  <2>2. ASSUME NEW i \in Nat, i \in Good
        PROVE  i + 1 \in Good
    <3> SUFFICES ASSUME i + 1 <= n
                 PROVE  OK(i + 1)
      <4>1. i + 1 \in Nat
        OBVIOUS
      <4> QED
        BY <4>1, Zenon
    <3>1. i + 1 \in 1..n /\ i <= n /\ (i + 1) - 1 = i /\ i + 1 > 0
      BY <1>1
    <3>2. h[1..i] \in A /\ \A x : In(x, h[1..i]) <=> \E j \in 1..i : ms[j] = x
      BY <2>2, <3>1, Zenon
    <3>3. h[1..(i + 1)] = AddTo(h[1..i], ms[i + 1])
      BY <1>10, <3>1
    <3>4. ms[i + 1] \in Message
      BY <1>1, <3>1
    <3>5. /\ h[1..(i + 1)] \in A
          /\ h[1..(i + 1)] # <<>> /\ Last(Last(h[1..(i + 1)])) = ms[i + 1]
          /\ \A x : In(x, h[1..(i + 1)]) <=> x = ms[i + 1] \/ In(x, h[1..i])
      <4> DEFINE cs == h[1..i]
                 m == ms[i + 1]
      <4>1. cs \in Seq(Chunked) /\ m \in Message
        BY <3>2, <3>4 DEF A
      <4>2. h[1..(i + 1)] = AddTo(cs, m)
        BY <3>3
      <4> HIDE DEF cs, m
      <4>3. /\ AddTo(cs, m) \in Seq(Chunked)
            /\ AddTo(cs, m) # <<>> /\ Last(Last(AddTo(cs, m))) = m
            /\ \A x : In(x, AddTo(cs, m)) <=> x = m \/ In(x, cs)
        BY <4>1, AddToOK
      <4> QED
        BY <4>2, <4>3 DEF A, cs, m
    <3>6. \A x : (\E j \in 1..(i + 1) : ms[j] = x) <=>
                   x = ms[i + 1] \/ \E j \in 1..i : ms[j] = x
      OBVIOUS
    <3> QED
      BY <3>2, <3>5, <3>6, Zenon
  <2> HIDE DEF Good
  <2> QED
    BY <2>1, <2>2, NumberInduction
<1>13. OK(n)
  <2>1. n <= n
    BY <1>1
  <2> QED
    BY <1>1, <1>12, <2>1, Zenon
<1>14. ms # <<>> => n > 0 /\ Last(ms) = ms[n]
  BY DEF n, Last
<1> QED
  BY <1>1, <1>8, <1>13, <1>14 DEF A

------------------------------------------------------------------------------
(* The inductive invariant                                                 *)

\* The messages that have not been sent yet.
Pending == UNION {ToSet(run.chunks[i]) : i \in DOMAIN run.chunks}

\* The keys of the findings that a check makes, and of the one that it failed.
Owned(check) ==
    {k \in FindingKeys :
       \/ k = RpcKey(check)
       \/ check = "upgrade-authority" /\ k = AuthorityKey
       \/ check = "unsettled-groups" /\ k \in GroupKeys
       \/ check = "state" /\ k = ResetKey}

FailuresAllowed == Config(Env, FALSE).failuresBeforeAlert

\* A finding belongs to its check, and a check that failed as often as it may
\* is reported.
StateOK(state) ==
    /\ state \in States
    /\ \A f \in state.open : f.key \in Owned(f.check)
    /\ state.failures # None =>
         \A c \in Checks :
           state.failures[c] >= FailuresAllowed => RpcKey(c) \in KeysOf(state.open)

\* The file is readable, lost or damaged, and the streaks are the counts that
\* the next run will read.
FileInv ==
    /\ file \in {None, Damaged} \/ StateOK(file)
    /\ streak = ReadState(file).state.failures
    /\ streak \in [Checks -> Nat]

ResultOK(r, check) ==
    /\ r.check = check
    /\ r.error \in BOOLEAN
    /\ r.findings \in SUBSET (Owned(check) \ {RpcKey(check)})

\* The results made so far, one for each check.
ResultsInv ==
    /\ pc = "authority" => run.results = {}
    /\ pc = "groups" => \E r : run.results = {r} /\ ResultOK(r, "upgrade-authority")
    /\ pc = "step" => \E r, q : /\ run.results = {r, q}
                                /\ ResultOK(r, "upgrade-authority")
                                /\ ResultOK(q, "unsettled-groups")

Results == [check : Checks \cup {"state"}, error : BOOLEAN, findings : SUBSET FindingKeys]

Runs ==
    [nowSecs : Nat, config : {Config(Env, dryRun) : dryRun \in BOOLEAN},
     results : SUBSET Results, chunks : Seq(Chunked), next : States,
     beat : BOOLEAN, sent : BOOLEAN]

RunInv ==
    /\ now \in Instants
    /\ pc \in {"idle", "authority", "groups", "step", "send"}
    /\ run \in Runs
    /\ pc # "send" => ~run.sent
    /\ torn \in BOOLEAN

\* Before its first message a run has not parted the chat from the file.
AgreeInv ==
    /\ view \in SUBSET FindingKeys
    /\ ~run.sent /\ ~torn /\ file \notin {None, Damaged} => view = KeysOf(file.open)

\* Every message that waits to be sent says something that the run may say.
MessageOK(m) ==
    LET target == KeysOf(run.next.open) IN
    /\ m.kind = "opened" =>
         /\ m.key \in target
         /\ \A c \in Checks : m.key = RpcKey(c) => streak[c] + 1 >= FailuresAllowed
         /\ m.key \in GroupKeys => \E r \in run.results : m.key \in r.findings
    /\ m.kind = "resolved" =>
         /\ m.key \notin target
         /\ \A r \in run.results : r.error => m.key \notin Owned(r.check)
    /\ m.kind = "heartbeat" => m.keys = target

\* What the reader will believe once the messages are sent is what the file will
\* then say: the heartbeat comes last, or every change is announced.
ReaderWillAgree ==
    LET target == KeysOf(run.next.open) IN
    IF run.beat
    THEN IF run.chunks = <<>> THEN view = target
         ELSE Last(Last(run.chunks)).kind = "heartbeat"
    ELSE /\ \A m \in Pending : m.kind # "heartbeat"
         /\ ~torn => \A k \in FindingKeys :
              /\ k \in target => k \in view \/ [kind |-> "opened", key |-> k] \in Pending
              /\ k \in view \ target => [kind |-> "resolved", key |-> k] \in Pending

SendInv ==
    pc = "send" =>
      /\ StateOK(run.next)
      /\ run.next.failures =
           [c \in Checks |-> IF \E r \in run.results : r.check = c /\ r.error
                             THEN Saturated(streak[c] + 1) ELSE 0]
      /\ \A m \in Pending : MessageOK(m)
      /\ ReaderWillAgree
      /\ file = Damaged => run.beat /\ ResetKey \in KeysOf(run.next.open)

ReportInv == FileInv /\ RunInv /\ ResultsInv /\ AgreeInv /\ SendInv

------------------------------------------------------------------------------
(* What a reader makes of one chunk                                        *)

\* A heartbeat says everything.
LEMMA ReadsHeartbeat ==
    ASSUME NEW keys \in SUBSET FindingKeys, NEW ms \in Chunked,
           Last(ms).kind = "heartbeat"
    PROVE  Reads(keys, ms) = Last(ms).keys
<1>1. ms \in Seq(Message) /\ Len(ms) \in Nat /\ Len(ms) \in 1..Len(ms)
  BY DEF Chunked
<1>2. PICK r \in [0..Len(ms) -> SUBSET FindingKeys] :
        /\ r[0] = keys
        /\ r[Len(ms)] = Reads(keys, ms)
        /\ \A i \in 1..Len(ms) : r[i] = After(r[i - 1], ms[i])
  BY <1>1, ReadsSteps
<1>3. Reads(keys, ms) = After(r[Len(ms) - 1], Last(ms))
  BY <1>1, <1>2 DEF Last
<1> QED
  BY <1>3 DEF After

\* Without one, a reader whom every message tells something true of a set
\* believes of each key what the last word on it was.
LEMMA ReadsChanges ==
    ASSUME NEW keys \in SUBSET FindingKeys, NEW ms \in Seq(Message), NEW target,
           \A i \in 1..Len(ms) :
             /\ ms[i].kind # "heartbeat"
             /\ ms[i].kind = "opened" => ms[i].key \in target
             /\ ms[i].kind = "resolved" => ms[i].key \notin target,
           NEW k \in FindingKeys
    PROVE  /\ k \in target /\ k \notin Reads(keys, ms) =>
                k \notin keys /\ [kind |-> "opened", key |-> k] \notin ToSet(ms)
           /\ k \notin target /\ k \in Reads(keys, ms) =>
                k \in keys /\ [kind |-> "resolved", key |-> k] \notin ToSet(ms)
<1> DEFINE n == Len(ms)
           opened == [kind |-> "opened", key |-> k]
           resolved == [kind |-> "resolved", key |-> k]
<1>1. n \in Nat /\ DOMAIN ms = 1..n
  OBVIOUS
<1>2. PICK r \in [0..n -> SUBSET FindingKeys] :
        /\ r[0] = keys
        /\ r[n] = Reads(keys, ms)
        /\ \A i \in 1..n : r[i] = After(r[i - 1], ms[i])
  BY ReadsSteps
<1>3. ASSUME NEW i \in 1..n
      PROVE  /\ k \in target => (k \in r[i] <=> k \in r[i - 1] \/ ms[i] = opened)
             /\ k \notin target => (k \in r[i] <=> k \in r[i - 1] /\ ms[i] # resolved)
  <2>1. ms[i] \in Message /\ ms[i].kind # "heartbeat" /\ r[i] = After(r[i - 1], ms[i])
    BY <1>2
  <2>2. ms[i] \in [kind : {"opened", "resolved"}, key : FindingKeys]
    BY <2>1 DEF Message
  <2>3. CASE ms[i].kind = "opened"
    <3>1. r[i] = r[i - 1] \cup {ms[i].key}
      BY <2>1, <2>3 DEF After
    <3>2. ms[i] = opened <=> ms[i].key = k
      BY <2>2, <2>3
    <3>3. ms[i] # resolved
      BY <2>3
    <3> QED
      BY <2>3, <3>1, <3>2, <3>3
  <2>4. CASE ms[i].kind = "resolved"
    <3>1. r[i] = r[i - 1] \ {ms[i].key}
      BY <2>1, <2>4 DEF After
    <3>2. ms[i] = resolved <=> ms[i].key = k
      BY <2>2, <2>4
    <3>3. ms[i] # opened
      BY <2>4
    <3> QED
      BY <2>4, <3>1, <3>2, <3>3
  <2> QED
    BY <2>2, <2>3, <2>4
<1> HIDE DEF n, opened, resolved
<1> DEFINE OK(i) ==
             /\ k \in target => (k \in r[i] <=> k \in keys \/ \E j \in 1..i : ms[j] = opened)
             /\ k \notin target =>
                  (k \in r[i] <=> k \in keys /\ \A j \in 1..i : ms[j] # resolved)
           Good == {i \in Nat : i <= n => OK(i)}
<1>4. \A i \in Nat : i \in Good
  <2>1. 0 \in Good
    <3>1. 1..0 = {}
      OBVIOUS
    <3> QED
      BY <1>2, <3>1
  <2>2. ASSUME NEW i \in Nat, i \in Good
        PROVE  i + 1 \in Good
    <3> SUFFICES ASSUME i + 1 <= n
                 PROVE  OK(i + 1)
      <4>1. i + 1 \in Nat
        OBVIOUS
      <4> QED
        BY <4>1, Zenon
    <3>1. i + 1 \in 1..n /\ i <= n /\ (i + 1) - 1 = i
      BY <1>1
    <3>2. OK(i)
      BY <2>2, <3>1, Zenon
    <3>3. 1..(i + 1) = (1..i) \cup {i + 1}
      OBVIOUS
    <3>4. /\ k \in target => (k \in r[i + 1] <=> k \in r[i] \/ ms[i + 1] = opened)
          /\ k \notin target => (k \in r[i + 1] <=> k \in r[i] /\ ms[i + 1] # resolved)
      BY <1>3, <3>1
    <3> QED
      BY <3>2, <3>3, <3>4
  <2> HIDE DEF Good
  <2> QED
    BY <2>1, <2>2, NumberInduction
<1>5. OK(n)
  <2>1. n <= n
    BY <1>1
  <2> QED
    BY <1>1, <1>4, <2>1, Zenon
<1> QED
  BY <1>1, <1>2, <1>5 DEF opened, resolved, n, ToSet

------------------------------------------------------------------------------
(* The messages of one run                                                 *)

LEMMA SetToSeqOK ==
    ASSUME NEW S, IsFiniteSet(S)
    PROVE  SetToSeq(S) \in Seq(S) /\ ToSet(SetToSeq(S)) = S
<1> DEFINE n == Cardinality(S)
           f == SetToSeq(S)
<1>1. n \in Nat /\ ExistsBijection(1..n, S)
  BY FS_CardinalityType
<1>2. \E g \in [1..n -> S] : IsInjective(g)
  BY <1>1 DEF ExistsBijection, Bijection, Injection
<1>3. f \in [1..n -> S] /\ IsInjective(f)
  BY <1>2 DEF SetToSeq
<1>4. f \in Injection(1..n, S)
  BY <1>3 DEF Injection
<1>5. Cardinality(1..n) = n
  BY <1>1, FS_Interval
<1> HIDE DEF f
<1>6. f \in Surjection(1..n, S)
  BY <1>4, <1>5, FS_Injection
<1> HIDE DEF n
<1>7. f \in Seq(S)
  BY <1>1, <1>3
<1>8. ToSet(f) = S
  BY <1>3, <1>6 DEF ToSet, Surjection
<1> QED
  BY <1>7, <1>8 DEF f

LEMMA PairIsFinite ==
    ASSUME NEW a, NEW b
    PROVE  IsFiniteSet({a, b})
<1>1. IsFiniteSet({a})
  BY FS_Singleton
<1>2. IsFiniteSet({a} \cup {b})
  BY <1>1, FS_AddElement
<1>3. {a} \cup {b} = {a, b}
  OBVIOUS
<1> QED
  BY <1>2, <1>3

LEMMA FindingKeysFinite == IsFiniteSet(FindingKeys)
<1> DEFINE key == [g \in Groups |-> UnsettledKey(g)]
           rpc == [c \in Checks |-> RpcKey(c)]
<1>1. IsFiniteSet(GroupKeys)
  <2>1. key \in Surjection(Groups, GroupKeys)
    BY DEF Surjection, GroupKeys
  <2> HIDE DEF key
  <2> QED
    BY <2>1, FS_Surjection, WatchdogAssumption
<1>2. IsFiniteSet({RpcKey(c) : c \in Checks})
  <2>1. {RpcKey(c) : c \in Checks} = {RpcKey("upgrade-authority"), RpcKey("unsettled-groups")}
    BY DEF Checks
  <2> QED
    BY <2>1, PairIsFinite
<1>3. IsFiniteSet({AuthorityKey, ResetKey})
  BY PairIsFinite
<1> QED
  BY <1>1, <1>2, <1>3, FS_Union DEF FindingKeys

\* A part of the messages: one of the given kind for each key.
LEMMA SayOK ==
    ASSUME NEW kind \in {"opened", "resolved"}, NEW keys \in SUBSET FindingKeys
    PROVE  LET said == {[kind |-> kind, key |-> k] : k \in keys} IN
           /\ SetToSeq(said) \in Seq(Message)
           /\ ToSet(SetToSeq(said)) = said
<1> DEFINE say == [k \in keys |-> [kind |-> kind, key |-> k]]
           said == {[kind |-> kind, key |-> k] : k \in keys}
<1>1. IsFiniteSet(keys)
  BY FindingKeysFinite, FS_Subset
<1>2. say \in Surjection(keys, said)
  BY DEF Surjection
<1>3. said \subseteq Message
  BY DEF Message
<1> HIDE DEF say, said
<1>4. IsFiniteSet(said)
  BY <1>1, <1>2, FS_Surjection
<1>5. SetToSeq(said) \in Seq(said) /\ ToSet(SetToSeq(said)) = said
  BY <1>4, SetToSeqOK
<1>6. SetToSeq(said) \in Seq(Message)
  BY <1>3, <1>5
<1> QED
  BY <1>5, <1>6 DEF said

LEMMA ConcatSet ==
    ASSUME NEW S, NEW s \in Seq(S), NEW t \in Seq(S)
    PROVE  s \o t \in Seq(S) /\ ToSet(s \o t) = ToSet(s) \cup ToSet(t)
<1> DEFINE u == s \o t
<1>1. /\ u \in Seq(S) /\ Len(u) = Len(s) + Len(t)
      /\ \A i \in 1..Len(s) : u[i] = s[i]
      /\ \A i \in 1..Len(t) : u[Len(s) + i] = t[i]
      /\ Len(s) \in Nat /\ Len(t) \in Nat
      /\ DOMAIN s = 1..Len(s) /\ DOMAIN t = 1..Len(t) /\ DOMAIN u = 1..Len(u)
  OBVIOUS
<1> HIDE DEF u
<1>2. ASSUME NEW x \in ToSet(u)
      PROVE  x \in ToSet(s) \cup ToSet(t)
  <2>1. PICK i \in 1..(Len(s) + Len(t)) : u[i] = x
    BY <1>1 DEF ToSet
  <2>2. CASE i <= Len(s)
    <3>1. i \in DOMAIN s /\ s[i] = x
      BY <1>1, <2>1, <2>2
    <3> QED
      BY <3>1 DEF ToSet
  <2>3. CASE i > Len(s)
    <3>1. i - Len(s) \in 1..Len(t) /\ i = Len(s) + (i - Len(s))
      BY <1>1, <2>3
    <3>2. i - Len(s) \in DOMAIN t /\ t[i - Len(s)] = x
      BY <1>1, <2>1, <3>1
    <3> QED
      BY <3>2 DEF ToSet
  <2> QED
    BY <1>1, <2>2, <2>3
<1>3. ASSUME NEW x \in ToSet(s)
      PROVE  x \in ToSet(u)
  <2>1. PICK i \in 1..Len(s) : s[i] = x
    BY <1>1 DEF ToSet
  <2>2. i \in DOMAIN u /\ u[i] = x
    BY <1>1, <2>1
  <2> QED
    BY <2>2 DEF ToSet
<1>4. ASSUME NEW x \in ToSet(t)
      PROVE  x \in ToSet(u)
  <2>1. PICK i \in 1..Len(t) : t[i] = x
    BY <1>1 DEF ToSet
  <2>2. Len(s) + i \in DOMAIN u /\ u[Len(s) + i] = x
    BY <1>1, <2>1
  <2> QED
    BY <2>2 DEF ToSet
<1> QED
  BY <1>1, <1>2, <1>3, <1>4 DEF u

LEMMA StepMessages ==
    ASSUME NEW prev, NEW results, NEW today, NEW allowed,
           KeysOf(prev.open) \subseteq FindingKeys,
           KeysOf(NextOpen(prev, results, allowed)) \subseteq FindingKeys
    PROVE  LET ms     == Step(prev, results, today, allowed).messages
               before == KeysOf(prev.open)
               target == KeysOf(NextOpen(prev, results, allowed))
               beat   == [kind |-> "heartbeat", keys |-> target]
           IN  /\ ms \in Seq(Message)
               /\ ToSet(ms) = {[kind |-> "opened", key |-> k] : k \in target \ before}
                                \cup {[kind |-> "resolved", key |-> k] : k \in before \ target}
                                \cup (IF HeartbeatDue(prev, today) THEN {beat} ELSE {})
               /\ HeartbeatDue(prev, today) => ms # <<>> /\ Last(ms) = beat
<1> DEFINE before == KeysOf(prev.open)
           target == KeysOf(NextOpen(prev, results, allowed))
           beat == [kind |-> "heartbeat", keys |-> target]
           opened == {[kind |-> "opened", key |-> k] : k \in target \ before}
           resolved == {[kind |-> "resolved", key |-> k] : k \in before \ target}
           last == IF HeartbeatDue(prev, today) THEN <<beat>> ELSE <<>>
           o == SetToSeq(opened)
           q == SetToSeq(resolved)
           ms == Step(prev, results, today, allowed).messages
<1>1. ms = (o \o q) \o last
  BY DEF Step
<1>2. o \in Seq(Message) /\ ToSet(o) = opened
  BY SayOK
<1>3. q \in Seq(Message) /\ ToSet(q) = resolved
  BY SayOK
<1>4. beat \in Message
  BY DEF Message
<1> HIDE DEF ms, o, q, opened, resolved, beat
<1>5. o \o q \in Seq(Message) /\ ToSet(o \o q) = opened \cup resolved
  BY <1>2, <1>3, ConcatSet
<1>6. last \in Seq(Message)
      /\ ToSet(last) = IF HeartbeatDue(prev, today) THEN {beat} ELSE {}
  <2>1. <<beat>> \in Seq(Message) /\ DOMAIN <<beat>> = {1} /\ <<beat>>[1] = beat
    BY <1>4
  <2>2. ToSet(<<beat>>) = {beat}
    BY <2>1 DEF ToSet
  <2>3. <<>> \in Seq(Message) /\ ToSet(<<>>) = {}
    BY DEF ToSet
  <2> QED
    BY <2>1, <2>2, <2>3
<1>7. ASSUME HeartbeatDue(prev, today)
      PROVE  ms # <<>> /\ Last(ms) = beat
  <2> DEFINE u == o \o q
  <2>1. u \in Seq(Message) /\ ms = u \o <<beat>>
    BY <1>1, <1>5, <1>7
  <2> HIDE DEF u
  <2>2. Len(ms) = Len(u) + 1 /\ ms[Len(u) + 1] = beat /\ Len(u) \in Nat
    BY <1>4, <2>1
  <2>3. ms # <<>>
    BY <1>4, <2>1, <2>2
  <2> QED
    BY <2>2, <2>3 DEF Last
<1>8. ms \in Seq(Message) /\ ToSet(ms) = ToSet(o \o q) \cup ToSet(last)
  <2> DEFINE u == o \o q
             v == last
  <2>1. ms = u \o v /\ u \in Seq(Message) /\ v \in Seq(Message)
    BY <1>1, <1>5, <1>6
  <2> HIDE DEF u, v
  <2>2. u \o v \in Seq(Message) /\ ToSet(u \o v) = ToSet(u) \cup ToSet(v)
    BY <2>1, ConcatSet
  <2> QED
    BY <2>1, <2>2 DEF u, v
<1> QED
  BY <1>5, <1>6, <1>7, <1>8 DEF ms, opened, resolved, beat

------------------------------------------------------------------------------
(* Keys, checks and states                                                 *)

LEMMA KeysDiffer ==
    /\ AuthorityKey # ResetKey
    /\ \A g \in Groups : UnsettledKey(g) # AuthorityKey /\ UnsettledKey(g) # ResetKey
    /\ \A c : /\ RpcKey(c) # AuthorityKey /\ RpcKey(c) # ResetKey
              /\ \A g : RpcKey(c) # UnsettledKey(g)
    /\ \A c, d : RpcKey(c) = RpcKey(d) => c = d
BY DEF AuthorityKey, ResetKey, UnsettledKey, RpcKey

\* A key belongs to one check.
LEMMA OwnedOnce ==
    ASSUME NEW c \in Checks \cup {"state"}, NEW d \in Checks \cup {"state"},
           NEW k, k \in Owned(c), k \in Owned(d)
    PROVE  c = d
<1>1. /\ c \in {"upgrade-authority", "unsettled-groups", "state"}
      /\ d \in {"upgrade-authority", "unsettled-groups", "state"}
  BY DEF Checks
<1>2. ASSUME NEW e \in Checks \cup {"state"}, k \in Owned(e)
      PROVE  /\ k = AuthorityKey => e = "upgrade-authority"
             /\ k \in GroupKeys => e = "unsettled-groups"
             /\ k = ResetKey => e = "state"
             /\ k \notin GroupKeys \cup {AuthorityKey, ResetKey} => k = RpcKey(e)
  BY <1>2, KeysDiffer DEF Owned, GroupKeys
<1> QED
  BY <1>2, KeysDiffer

LEMMA FailuresAllowedOK == FailuresAllowed \in Nat \ {0}
<1>1. ConfigErrors(Env, FALSE) = {}
  BY ConfigIsValid, WatchdogAssumption
<1>2. FailuresInRange(ValueOr(DEFAULT_FAILURES_BEFORE_ALERT, Env.RPC_FAILURES_BEFORE_ALERT))
  BY <1>1 DEF ConfigErrors
<1> QED
  BY <1>2 DEF FailuresInRange, MAX_FAILURES_BEFORE_ALERT, FailuresAllowed, Config

LEMMA ConfigAllowed ==
    ASSUME NEW dryRun \in BOOLEAN
    PROVE  Config(Env, dryRun).failuresBeforeAlert = FailuresAllowed
BY DEF Config, FailuresAllowed

LEMMA SaturatedOK ==
    ASSUME NEW n \in Nat
    PROVE  Saturated(n) \in Nat /\ Saturated(n) <= n
BY WatchdogAssumption DEF Saturated

\* The state that a run starts from: that of a readable file, else the empty one.
Readable(state) == StateOK(state) /\ state.failures \in [Checks -> Nat]

LEMMA EmptyIsReadable == Readable(EMPTY_STATE)
<1>1. EMPTY_STATE \in States
  BY DEF EMPTY_STATE, States
<1>2. EMPTY_STATE.failures = [c \in Checks |-> 0] /\ EMPTY_STATE.open = {}
  BY DEF EMPTY_STATE
<1>3. \A c \in Checks : ~(EMPTY_STATE.failures[c] >= FailuresAllowed)
  BY <1>2, FailuresAllowedOK
<1> QED
  BY <1>1, <1>2, <1>3 DEF Readable, StateOK

LEMMA ReadStateOK ==
    ASSUME file \in {None, Damaged} \/ StateOK(file)
    PROVE  /\ Readable(ReadState(file).state)
           /\ file \in {None, Damaged} => ReadState(file).state = EMPTY_STATE
           /\ file \notin {None, Damaged} =>
                /\ ReadState(file).state.open = file.open
                /\ file.failures # None => ReadState(file).state = file
           /\ ReadState(file).reset <=> file = Damaged
<1>1. CASE file = None
  BY <1>1, EmptyIsReadable, WatchdogAssumption DEF ReadState
<1>2. CASE file = Damaged
  BY <1>2, EmptyIsReadable, WatchdogAssumption DEF ReadState, ParseState
<1>3. CASE file \notin {None, Damaged} /\ file.failures = None
  <2>1. StateOK(file) /\ file \in States
    BY <1>3 DEF StateOK
  <2> DEFINE state == [file EXCEPT !.failures = EMPTY_STATE.failures]
  <2>2. ReadState(file) = [state |-> state, reset |-> FALSE]
    BY <1>3 DEF ReadState, ParseState
  <2>3. /\ state.open = file.open /\ state.failures = [c \in Checks |-> 0]
        /\ state \in States
    BY <2>1 DEF States, EMPTY_STATE
  <2> HIDE DEF state
  <2>4. \A c \in Checks : ~(state.failures[c] >= FailuresAllowed)
    BY <2>3, FailuresAllowedOK
  <2>5. Readable(state)
    BY <2>1, <2>3, <2>4 DEF Readable, StateOK
  <2>6. ReadState(file).state = state /\ ~ReadState(file).reset
    BY <2>2
  <2> QED
    BY <1>3, <2>3, <2>5, <2>6
<1>4. CASE file \notin {None, Damaged} /\ file.failures # None
  <2>1. StateOK(file) /\ file.failures \in [Checks -> Nat]
    BY <1>4 DEF StateOK, States
  <2>2. ReadState(file) = [state |-> file, reset |-> FALSE]
    BY <1>4 DEF ReadState, ParseState
  <2>3. ReadState(file).state = file /\ ~ReadState(file).reset
    BY <2>2
  <2> QED
    BY <1>4, <2>1, <2>3 DEF Readable
<1> QED
  BY <1>1, <1>2, <1>3, <1>4

ResultsOK(results) ==
    \A r \in results :
      /\ r.check \in Checks \cup {"state"}
      /\ r.error \in BOOLEAN
      /\ r.error => r.check \in Checks
      /\ r.findings \in SUBSET (Owned(r.check) \ {RpcKey(r.check)})

LEMMA FailureCountOK ==
    ASSUME NEW prev, Readable(prev), NEW results, NEW c \in Checks
    PROVE  /\ FailureCount(prev, results, c) \in Nat
           /\ FailureCount(prev, results, c) <= prev.failures[c] + 1
<1>1. prev.failures[c] \in Nat
  BY DEF Readable
<1>2. prev.failures[c] + 1 \in Nat /\ 0 <= prev.failures[c] + 1
  BY <1>1
<1>3. /\ Saturated(prev.failures[c] + 1) \in Nat
      /\ Saturated(prev.failures[c] + 1) <= prev.failures[c] + 1
  BY <1>2, SaturatedOK
<1> QED
  BY <1>2, <1>3 DEF FailureCount

\* Where an open finding comes from.
LEMMA NextOpenFrom ==
    ASSUME NEW prev, Readable(prev), NEW results, ResultsOK(results), NEW k,
           k \in KeysOf(NextOpen(prev, results, FailuresAllowed))
    PROVE  \E r \in results :
             \/ r.error /\ k \in KeysOf(prev.open)
             \/ ~r.error /\ k \in r.findings
             \/ /\ r.error /\ k = RpcKey(r.check)
                /\ FailureCount(prev, results, r.check) >= FailuresAllowed
<1>1. PICK f \in NextOpen(prev, results, FailuresAllowed) : f.key = k
  BY DEF KeysOf
<1>2. PICK r \in results :
        f \in Kept(prev, r) \cup
                {[key |-> x, check |-> r.check] :
                   x \in Fresh(prev, results, r, FailuresAllowed)}
  BY <1>1 DEF NextOpen
<1>3. CASE f \in Kept(prev, r)
  <2>1. r.error /\ f \in prev.open
    BY <1>3 DEF Kept
  <2> QED
    BY <1>1, <2>1 DEF KeysOf
<1>4. CASE k \in Fresh(prev, results, r, FailuresAllowed)
  <2>1. CASE ~r.error
    BY <1>4, <2>1 DEF Fresh
  <2>2. CASE r.error
    <3>1. ~(FailureCount(prev, results, r.check) < FailuresAllowed) /\ k = RpcKey(r.check)
      BY <1>4, <2>2 DEF Fresh
    <3>2. FailureCount(prev, results, r.check) >= FailuresAllowed
      <4>1. r.check \in Checks
        BY <2>2 DEF ResultsOK
      <4>2. FailureCount(prev, results, r.check) \in Nat
        BY <4>1, FailureCountOK
      <4> QED
        BY <3>1, <4>2, FailuresAllowedOK
    <3> QED
      BY <2>2, <3>1, <3>2
  <2> QED
    BY <2>1, <2>2
<1> QED
  BY <1>1, <1>2, <1>3, <1>4

LEMMA RpcKeyOwned ==
    ASSUME NEW c \in Checks
    PROVE  RpcKey(c) \in FindingKeys /\ RpcKey(c) \in Owned(c)
BY DEF Owned, FindingKeys

\* What a result adds to the open findings.
LEMMA NextOpenHas ==
    ASSUME NEW prev, NEW results, NEW r \in results
    PROVE  /\ Kept(prev, r) \subseteq NextOpen(prev, results, FailuresAllowed)
           /\ \A k \in Fresh(prev, results, r, FailuresAllowed) :
                [key |-> k, check |-> r.check] \in NextOpen(prev, results, FailuresAllowed)
BY DEF NextOpen

\* A failed check keeps its open findings.
LEMMA FailedKeeps ==
    ASSUME NEW prev, Readable(prev), NEW results, ResultsOK(results),
           NEW r \in results, r.error,
           NEW k \in KeysOf(prev.open), k \in Owned(r.check)
    PROVE  k \in KeysOf(NextOpen(prev, results, FailuresAllowed))
<1>1. PICK f \in prev.open : f.key = k
  BY DEF KeysOf
<1>2. f.check \in Checks \cup {"state"} /\ k \in Owned(f.check)
  BY <1>1 DEF Readable, StateOK, States
<1>3. f.check = r.check
  BY <1>2, OwnedOnce DEF ResultsOK
<1>4. f \in Kept(prev, r)
  BY <1>3 DEF Kept
<1> QED
  BY <1>1, <1>4, NextOpenHas DEF KeysOf

LEMMA FreshOwned ==
    ASSUME NEW prev, NEW results, ResultsOK(results), NEW r \in results,
           NEW k \in Fresh(prev, results, r, FailuresAllowed)
    PROVE  k \in Owned(r.check)
<1>1. CASE r.error
  <2>1. k = RpcKey(r.check) /\ r.check \in Checks
    BY <1>1 DEF Fresh, ResultsOK
  <2> QED
    BY <2>1, RpcKeyOwned
<1>2. CASE ~r.error
  BY <1>2 DEF Fresh, ResultsOK
<1> QED
  BY <1>1, <1>2

\* The next state is one that a run can start from.
LEMMA NextStateOK ==
    ASSUME NEW prev, Readable(prev), NEW results, ResultsOK(results), NEW today \in Nat
    PROVE  Readable(Step(prev, results, today, FailuresAllowed).next)
<1> DEFINE open == NextOpen(prev, results, FailuresAllowed)
           failures == [c \in Checks |-> FailureCount(prev, results, c)]
           next == [open |-> open, lastHeartbeatDay |-> today, failures |-> failures]
<1>1. Step(prev, results, today, FailuresAllowed).next = next
  BY DEF Step
<1>2. ASSUME NEW f \in open
      PROVE  f \in [key : FindingKeys, check : Checks \cup {"state"}] /\ f.key \in Owned(f.check)
  <2>1. PICK r \in results :
          f \in Kept(prev, r) \cup
                  {[key |-> x, check |-> r.check] :
                     x \in Fresh(prev, results, r, FailuresAllowed)}
    BY <1>2 DEF NextOpen
  <2>2. CASE f \in Kept(prev, r)
    <3>1. f \in prev.open
      BY <2>2 DEF Kept
    <3> QED
      BY <3>1 DEF Readable, StateOK, States
  <2>3. ASSUME NEW x \in Fresh(prev, results, r, FailuresAllowed),
               f = [key |-> x, check |-> r.check]
        PROVE  f \in [key : FindingKeys, check : Checks \cup {"state"}]
               /\ f.key \in Owned(f.check)
    <3>1. x \in Owned(r.check) /\ r.check \in Checks \cup {"state"}
      BY FreshOwned DEF ResultsOK
    <3>2. x \in FindingKeys
      BY <3>1 DEF Owned
    <3> QED
      BY <2>3, <3>1, <3>2
  <2> QED
    BY <2>1, <2>2, <2>3
<1>3. failures \in [Checks -> Nat]
  BY FailureCountOK
<1>4. ASSUME NEW c \in Checks, failures[c] >= FailuresAllowed
      PROVE  RpcKey(c) \in KeysOf(open)
  <2>1. FailureCount(prev, results, c) >= FailuresAllowed
    BY <1>4
  <2>2. PICK r \in results : r.check = c /\ r.error
    BY <2>1, FailuresAllowedOK DEF FailureCount
  <2>3. ~(FailureCount(prev, results, c) < FailuresAllowed)
    BY <2>1, FailureCountOK, FailuresAllowedOK
  <2>4. RpcKey(c) \in Fresh(prev, results, r, FailuresAllowed)
    BY <2>2, <2>3 DEF Fresh
  <2>5. [key |-> RpcKey(c), check |-> r.check] \in open
    BY <2>4, NextOpenHas
  <2> QED
    BY <2>5 DEF KeysOf
<1> HIDE DEF open, failures
<1>5. next \in States
  BY <1>2, <1>3 DEF States
<1>6. next.open = open /\ next.failures = failures
  OBVIOUS
<1> HIDE DEF next
<1>7. Readable(next)
  BY <1>2, <1>3, <1>4, <1>5, <1>6 DEF Readable, StateOK
<1> QED
  BY <1>1, <1>7

------------------------------------------------------------------------------
(* The steps                                                               *)

LEMMA NoRunOK == NoRun \in Runs
<1>1. EMPTY_STATE \in States
  BY EmptyIsReadable DEF Readable, StateOK
<1>2. <<>> \in Seq(Chunked)
  OBVIOUS
<1>3. Config(Env, FALSE) \in {Config(Env, dryRun) : dryRun \in BOOLEAN}
  BY FALSE \in BOOLEAN, Zenon
<1> QED
  BY <1>1, <1>2, <1>3 DEF NoRun, Runs

LEMMA ReportInit ==
    ASSUME WatchdogInit
    PROVE  ReportInv
<1> USE DEF WatchdogInit
<1>1. ReadState(file).state = EMPTY_STATE
  BY ReadStateOK
<1>2. FileInv
  BY <1>1 DEF FileInv, EMPTY_STATE
<1>3. RunInv
  BY NoRunOK DEF RunInv, NoRun
<1>4. ResultsInv /\ AgreeInv /\ SendInv
  BY DEF ResultsInv, AgreeInv, SendInv
<1> QED
  BY <1>2, <1>3, <1>4 DEF ReportInv

\* What does not touch the file, the chat or the run.
LEMMA ReportUnchanged ==
    ASSUME ReportInv, now' \in Instants, UNCHANGED <<file, pc, run, view, torn, streak>>
    PROVE  ReportInv'
<1>1. FileInv'
  BY DEF ReportInv, FileInv, StateOK, KeysOf, ReadState, ParseState
<1>2. RunInv' /\ ResultsInv' /\ AgreeInv'
  BY DEF ReportInv, RunInv, ResultsInv, ResultOK, AgreeInv, KeysOf
<1>3. SendInv'
  BY DEF ReportInv, SendInv, StateOK, Pending, MessageOK, ReaderWillAgree, KeysOf
<1> QED
  BY <1>1, <1>2, <1>3 DEF ReportInv

\* A run that ends: what is left is the file and the chat.
LEMMA ReportExit ==
    ASSUME ReportInv, Exit, UNCHANGED now, torn' \in BOOLEAN, FileInv', AgreeInv'
    PROVE  ReportInv'
<1>1. pc' = "idle" /\ run' = NoRun /\ NoRun.sent = FALSE
  BY DEF Exit, NoRun
<1>2. RunInv'
  BY <1>1, NoRunOK DEF ReportInv, RunInv
<1>3. ResultsInv' /\ SendInv'
  BY <1>1 DEF ResultsInv, SendInv
<1> QED
  BY <1>2, <1>3 DEF ReportInv

LEMMA ReportExitUnrecorded ==
    ASSUME ReportInv, ExitUnrecorded, UNCHANGED <<now, view>>
    PROVE  ReportInv'
<1>1. Exit /\ UNCHANGED <<file, streak>> /\ torn' = (torn \/ run.sent) /\ run' = NoRun
  BY DEF ExitUnrecorded, Exit
<1>2. FileInv'
  BY <1>1 DEF ReportInv, FileInv, StateOK, KeysOf, ReadState, ParseState
<1>3. AgreeInv'
  BY <1>1 DEF ReportInv, AgreeInv, KeysOf, NoRun
<1>4. torn' \in BOOLEAN
  BY <1>1 DEF ReportInv, RunInv
<1> QED
  BY <1>1, <1>2, <1>3, <1>4, ReportExit

LEMMA ReportStart ==
    ASSUME ReportInv, NEW dryRun \in BOOLEAN, Start(dryRun)
    PROVE  ReportInv'
<1>1. /\ pc = "idle" /\ pc' = "authority" /\ UNCHANGED <<now, file, view, torn, streak>>
      /\ run' = [NoRun EXCEPT !.nowSecs = now, !.config = Config(Env, dryRun)]
  BY DEF Start, historyVars
<1>2. now \in Nat /\ Config(Env, dryRun) \in {Config(Env, d) : d \in BOOLEAN}
  BY WatchdogAssumption DEF ReportInv, RunInv
<1>3. run' \in Runs /\ run'.results = {} /\ run'.sent = FALSE
  <2>1. NoRun \in Runs /\ NoRun.results = {} /\ NoRun.sent = FALSE
    BY NoRunOK DEF NoRun
  <2> HIDE DEF NoRun
  <2> QED
    BY <1>1, <1>2, <2>1 DEF Runs
<1>4. FileInv'
  BY <1>1 DEF ReportInv, FileInv, StateOK, KeysOf, ReadState, ParseState
<1>5. RunInv'
  BY <1>1, <1>3 DEF ReportInv, RunInv
<1>6. ResultsInv' /\ SendInv'
  BY <1>1, <1>3 DEF ResultsInv, SendInv
<1>7. AgreeInv'
  BY <1>1 DEF ReportInv, RunInv, AgreeInv, KeysOf
<1> QED
  BY <1>4, <1>5, <1>6, <1>7 DEF ReportInv

\* A check that was made or failed: a result of the right kind is added.
LEMMA ReportRecord ==
    ASSUME ReportInv, NEW result, NEW part, Record(result, part), result \in Results,
           \/ pc = "authority" /\ part = "groups" /\ ResultOK(result, "upgrade-authority")
           \/ pc = "groups" /\ part = "step" /\ ResultOK(result, "unsettled-groups")
    PROVE  ReportInv'
<1>1. /\ pc' = part /\ UNCHANGED <<now, file, view, torn, streak>>
      /\ run' = [run EXCEPT !.results = run.results \cup {result}]
  BY DEF Record, historyVars
<1>2. run \in Runs /\ ~run.sent
  BY DEF ReportInv, RunInv
<1>3. /\ run' \in Runs /\ run'.sent = run.sent
      /\ run'.results = run.results \cup {result}
  BY <1>1, <1>2 DEF Runs
<1>4. FileInv'
  BY <1>1 DEF ReportInv, FileInv, StateOK, KeysOf, ReadState, ParseState
<1>5. RunInv'
  BY <1>1, <1>2, <1>3 DEF ReportInv, RunInv
<1>6. ResultsInv'
  <2>1. CASE pc = "authority"
    <3>1. run'.results = {result}
      BY <1>3, <2>1 DEF ReportInv, ResultsInv
    <3> QED
      BY <1>1, <2>1, <3>1 DEF ResultsInv, ResultOK
  <2>2. CASE pc = "groups"
    <3>1. PICK r : run.results = {r} /\ ResultOK(r, "upgrade-authority")
      BY <2>2 DEF ReportInv, ResultsInv
    <3>2. run'.results = {r, result}
      BY <1>3, <3>1
    <3> QED
      BY <1>1, <2>2, <3>1, <3>2 DEF ResultsInv, ResultOK
  <2> QED
    BY <2>1, <2>2
<1>7. SendInv'
  BY <1>1 DEF SendInv
<1>8. AgreeInv'
  BY <1>1, <1>3 DEF ReportInv, AgreeInv, KeysOf
<1> QED
  BY <1>4, <1>5, <1>6, <1>7, <1>8 DEF ReportInv


LEMMA ReportChecks ==
    ASSUME ReportInv, CheckAuthority \/ CheckAuthorityFails \/ CheckGroups \/ CheckGroupsFails
    PROVE  ReportInv'
<1>1. /\ "upgrade-authority" \in Checks /\ "unsettled-groups" \in Checks
      /\ AuthorityKey \in Owned("upgrade-authority") \ {RpcKey("upgrade-authority")}
      /\ GroupKeys \subseteq Owned("unsettled-groups") \ {RpcKey("unsettled-groups")}
      /\ \A c : Owned(c) \subseteq FindingKeys
  BY KeysDiffer DEF Checks, Owned, FindingKeys, GroupKeys
<1>2. ASSUME NEW check \in Checks
      PROVE  Failed(check) \in Results /\ ResultOK(Failed(check), check)
  BY DEF Failed, Results, ResultOK
<1>3. ASSUME NEW check \in Checks, NEW found \in SUBSET (Owned(check) \ {RpcKey(check)})
      PROVE  Passed(check, found) \in Results /\ ResultOK(Passed(check, found), check)
  BY <1>1, <1>3 DEF Passed, Results, ResultOK
<1>4. CASE CheckAuthority
  <2> DEFINE found == EvaluateAuthority(run.config.expectedAuthority, authority)
  <2>1. found \in SUBSET (Owned("upgrade-authority") \ {RpcKey("upgrade-authority")})
    BY <1>1 DEF EvaluateAuthority
  <2>2. pc = "authority" /\ Record(Passed("upgrade-authority", found), "groups")
    BY <1>4 DEF CheckAuthority
  <2> HIDE DEF found
  <2> QED
    BY <1>1, <1>3, <2>1, <2>2, ReportRecord
<1>5. CASE CheckAuthorityFails
  <2>1. pc = "authority" /\ Record(Failed("upgrade-authority"), "groups")
    BY <1>5 DEF CheckAuthorityFails
  <2> QED
    BY <1>1, <1>2, <2>1, ReportRecord
<1>6. CASE CheckGroups
  <2> DEFINE found == EvaluateGroups(DecodedGroups, run.nowSecs, run.config.graceSecs,
                                     run.config.cluster)
  <2>1. DOMAIN DecodedGroups \subseteq Groups
    BY DEF DecodedGroups
  <2>2. found \subseteq GroupKeys
    BY <2>1 DEF EvaluateGroups, GroupKeys
  <2>3. pc = "groups" /\ Record(Passed("unsettled-groups", found), "step")
    BY <1>6 DEF CheckGroups
  <2> HIDE DEF found
  <2> QED
    BY <1>1, <1>3, <2>2, <2>3, ReportRecord
<1>7. CASE CheckGroupsFails
  <2>1. pc = "groups" /\ Record(Failed("unsettled-groups"), "step")
    BY <1>7 DEF CheckGroupsFails
  <2> QED
    BY <1>1, <1>2, <2>1, ReportRecord
<1> QED
  BY <1>4, <1>5, <1>6, <1>7

\* The results that Evaluate works on, with that of a reset.
LEMMA ResultsReady ==
    ASSUME ReportInv, pc = "step", NEW results,
           results = run.results \cup
                       (IF ReadState(file).reset THEN {STATE_RESET_RESULT} ELSE {})
    PROVE  /\ ResultsOK(results) /\ results \in SUBSET Results
           /\ file = Damaged => STATE_RESET_RESULT \in results
<1>1. PICK r, q : /\ run.results = {r, q}
                  /\ ResultOK(r, "upgrade-authority")
                  /\ ResultOK(q, "unsettled-groups")
  BY DEF ReportInv, ResultsInv
<1>2. "upgrade-authority" \in Checks /\ "unsettled-groups" \in Checks
  BY DEF Checks
<1>3. /\ ResetKey \in Owned("state") \ {RpcKey("state")}
      /\ ResetKey \in FindingKeys
  BY KeysDiffer DEF Owned, FindingKeys
<1>4. /\ STATE_RESET_RESULT \in Results
      /\ STATE_RESET_RESULT.check = "state" /\ STATE_RESET_RESULT.error = FALSE
      /\ STATE_RESET_RESULT.findings = {ResetKey}
  BY <1>3 DEF STATE_RESET_RESULT, Passed, Results
<1>5. ASSUME NEW x \in results
      PROVE  x = r \/ x = q \/ x = STATE_RESET_RESULT
  BY <1>1
<1>6. ResultsOK({r, q})
  BY <1>1, <1>2 DEF ResultOK, ResultsOK
<1>7. ResultsOK({STATE_RESET_RESULT})
  BY <1>3, <1>4 DEF ResultsOK
<1>8. ResultsOK(results)
  BY <1>5, <1>6, <1>7 DEF ResultsOK
<1>9. run.results \in SUBSET Results
  BY DEF ReportInv, RunInv, Runs
<1>10. file = Damaged => ReadState(file).reset
  BY ReadStateOK DEF ReportInv, FileInv
<1> QED
  BY <1>4, <1>8, <1>9, <1>10

LEMMA PendingIn ==
    ASSUME NEW m
    PROVE  m \in Pending <=> In(m, run.chunks)
BY DEF Pending, In, ToSet

LEMMA KeysOfState ==
    ASSUME NEW state \in States
    PROVE  KeysOf(state.open) \subseteq FindingKeys
BY DEF States, KeysOf

\* Why a finding may be told to be open, and why another one to be resolved.
LEMMA OpenedFor ==
    ASSUME NEW prev, Readable(prev), NEW results, ResultsOK(results), NEW k,
           k \in KeysOf(NextOpen(prev, results, FailuresAllowed)),
           k \notin KeysOf(prev.open)
    PROVE  /\ \A c \in Checks : k = RpcKey(c) => prev.failures[c] + 1 >= FailuresAllowed
           /\ k \in GroupKeys => \E r \in results : k \in r.findings
<1>1. PICK r \in results :
        \/ ~r.error /\ k \in r.findings
        \/ /\ r.error /\ k = RpcKey(r.check)
           /\ FailureCount(prev, results, r.check) >= FailuresAllowed
  BY NextOpenFrom
<1>2. CASE ~r.error /\ k \in r.findings
  <2>1. k \in Owned(r.check) /\ k # RpcKey(r.check) /\ r.check \in Checks \cup {"state"}
    BY <1>2 DEF ResultsOK
  <2>2. ASSUME NEW c \in Checks, k = RpcKey(c)
        PROVE  FALSE
    <3>1. k \in Owned(c)
      BY <2>2, RpcKeyOwned
    <3>2. c = r.check
      BY <2>1, <3>1, OwnedOnce
    <3> QED
      BY <2>1, <2>2, <3>2
  <2> QED
    BY <1>2, <2>2
<1>3. CASE /\ r.error /\ k = RpcKey(r.check)
           /\ FailureCount(prev, results, r.check) >= FailuresAllowed
  <2>1. r.check \in Checks
    BY <1>3 DEF ResultsOK
  <2>2. k \notin GroupKeys
    BY <1>3, KeysDiffer DEF GroupKeys
  <2>3. prev.failures[r.check] + 1 >= FailuresAllowed
    <3>1. /\ FailureCount(prev, results, r.check) \in Nat
          /\ FailureCount(prev, results, r.check) <= prev.failures[r.check] + 1
          /\ prev.failures[r.check] \in Nat
      BY <2>1, FailureCountOK DEF Readable
    <3> QED
      BY <1>3, <3>1, FailuresAllowedOK
  <2>4. \A c \in Checks : k = RpcKey(c) => c = r.check
    BY <1>3, KeysDiffer
  <2> QED
    BY <2>2, <2>3, <2>4
<1> QED
  BY <1>1, <1>2, <1>3

LEMMA ReportEvaluate ==
    ASSUME ReportInv, Evaluate
    PROVE  ReportInv'
<1> DEFINE read    == ReadState(file)
           prev    == read.state
           results == run.results \cup (IF read.reset THEN {STATE_RESET_RESULT} ELSE {})
           today   == Day(run.nowSecs)
           stepped == Step(prev, results, today, FailuresAllowed)
           before  == KeysOf(prev.open)
           target  == KeysOf(NextOpen(prev, results, FailuresAllowed))
           due     == HeartbeatDue(prev, today)
<1>1. run.config.failuresBeforeAlert = FailuresAllowed
  BY ConfigAllowed DEF ReportInv, RunInv, Runs
<1>2. /\ pc = "step" /\ UNCHANGED <<now, view>>
      /\ \/ ExitUnrecorded
         \/ /\ pc' = "send"
            /\ run' = [run EXCEPT !.results = results, !.next = stepped.next,
                                  !.chunks = Chunk(stepped.messages), !.beat = due]
            /\ UNCHANGED <<file, torn, streak>>
  BY <1>1 DEF Evaluate
<1>3. CASE ExitUnrecorded
  BY <1>2, <1>3, ReportExitUnrecorded
<1>4. CASE /\ pc' = "send" /\ UNCHANGED <<file, torn, streak>>
           /\ run' = [run EXCEPT !.results = results, !.next = stepped.next,
                                 !.chunks = Chunk(stepped.messages), !.beat = due]
  <2>1. /\ Readable(prev)
        /\ file \in {None, Damaged} => prev = EMPTY_STATE
        /\ file \notin {None, Damaged} => prev.open = file.open
        /\ streak = prev.failures
    BY ReadStateOK DEF ReportInv, FileInv
  <2>2. /\ ResultsOK(results) /\ results \in SUBSET Results
        /\ file = Damaged => STATE_RESET_RESULT \in results
    BY <1>2, ResultsReady
  <2>3. today \in Nat
    BY DEF ReportInv, RunInv, Runs, Day, DAY
  <2>4. /\ stepped.next.open = NextOpen(prev, results, FailuresAllowed)
        /\ stepped.next.failures = [c \in Checks |-> FailureCount(prev, results, c)]
    BY DEF Step
  <2>5. Readable(stepped.next)
    <3> HIDE DEF prev, results, today
    <3> QED
      BY <2>1, <2>2, <2>3, NextStateOK DEF stepped
  <2>6. before \subseteq FindingKeys /\ target \subseteq FindingKeys
    BY <2>1, <2>4, <2>5, KeysOfState DEF Readable, StateOK
  <2> DEFINE ms == stepped.messages
             beat == [kind |-> "heartbeat", keys |-> target]
  <2>7. /\ ms \in Seq(Message)
        /\ ToSet(ms) = {[kind |-> "opened", key |-> k] : k \in target \ before}
                         \cup {[kind |-> "resolved", key |-> k] : k \in before \ target}
                         \cup (IF due THEN {beat} ELSE {})
        /\ due => ms # <<>> /\ Last(ms) = beat
    <3> HIDE DEF prev, results, today
    <3> QED
      BY <2>6, StepMessages DEF before, target
  <2> DEFINE chunks == Chunk(ms)
  <2>8. /\ chunks \in Seq(Chunked)
        /\ \A x : In(x, chunks) <=> x \in ToSet(ms)
        /\ due => chunks # <<>> /\ Last(Last(chunks)) = beat
    <3> HIDE DEF stepped, target, due
    <3>1. \A x : In(x, chunks) <=> \E i \in DOMAIN ms : ms[i] = x
      BY <2>7, ChunkOK
    <3> QED
      BY <2>7, <3>1, ChunkOK DEF ToSet
  <2>9. run \in Runs /\ ~run.sent /\ now \in Instants /\ torn \in BOOLEAN
    BY <1>2 DEF ReportInv, RunInv
  <2>10. stepped.next \in States /\ due \in BOOLEAN
    BY <2>5 DEF Readable, StateOK, HeartbeatDue
  <2> HIDE DEF results, stepped, target, before, prev, chunks, due, ms, read, today
  <2>11. /\ run' = [run EXCEPT !.results = results, !.next = stepped.next,
                               !.chunks = chunks, !.beat = due]
         /\ run' \in Runs
         /\ run'.results = results /\ run'.next = stepped.next
         /\ run'.chunks = chunks /\ run'.beat = due /\ run'.sent = run.sent
    <3>1. run' = [run EXCEPT !.results = results, !.next = stepped.next,
                             !.chunks = chunks, !.beat = due]
      BY <1>4 DEF chunks, ms
    <3> QED
      BY <2>2, <2>8, <2>9, <2>10, <3>1 DEF Runs
  <2>12. FileInv'
    BY <1>4 DEF ReportInv, FileInv, StateOK, KeysOf, ReadState, ParseState
  <2>13. RunInv' /\ ResultsInv'
    BY <1>2, <1>4, <2>9, <2>11 DEF RunInv, ResultsInv
  <2>14. AgreeInv'
    BY <1>2, <1>4, <2>11 DEF ReportInv, AgreeInv, KeysOf
  <2>15. SendInv'
    <3>1. StateOK(stepped.next)
      BY <2>5 DEF Readable
    <3>2. KeysOf(stepped.next.open) = target
      BY <2>4 DEF target
    <3>3. stepped.next.failures =
            [c \in Checks |-> IF \E r \in results : r.check = c /\ r.error
                              THEN Saturated(streak[c] + 1) ELSE 0]
      BY <2>1, <2>4 DEF FailureCount
    <3>4. \A m : m \in Pending' <=> m \in ToSet(ms)
      <4>1. \A m : m \in Pending' <=> In(m, run'.chunks)
        BY DEF Pending, In, ToSet
      <4> QED
        BY <2>8, <2>11, <4>1
    <3>5. ASSUME NEW m \in ToSet(ms)
          PROVE  MessageOK(m)'
      <4>1. CASE \E k \in target \ before : m = [kind |-> "opened", key |-> k]
        <5>1. PICK k \in target \ before : m = [kind |-> "opened", key |-> k]
          BY <4>1
        <5>2. /\ \A c \in Checks : k = RpcKey(c) => streak[c] + 1 >= FailuresAllowed
              /\ k \in GroupKeys => \E r \in results : k \in r.findings
          BY <2>1, <2>2, OpenedFor DEF target, before
        <5>3. m.kind = "opened" /\ m.key = k
          BY <5>1
        <5> QED
          BY <1>4, <2>11, <3>2, <5>2, <5>3 DEF MessageOK
      <4>2. CASE \E k \in before \ target : m = [kind |-> "resolved", key |-> k]
        <5>1. PICK k \in before \ target : m = [kind |-> "resolved", key |-> k]
          BY <4>2
        <5>2. \A r \in results : r.error => k \notin Owned(r.check)
          BY <2>1, <2>2, FailedKeeps DEF target, before
        <5>3. m.kind = "resolved" /\ m.key = k
          BY <5>1
        <5> QED
          BY <2>11, <3>2, <5>2, <5>3 DEF MessageOK
      <4>3. CASE m = beat
        <5>1. m.kind = "heartbeat" /\ m.keys = target
          BY <4>3
        <5> QED
          BY <2>11, <3>2, <5>1 DEF MessageOK
      <4> QED
        BY <2>7, <4>1, <4>2, <4>3
    <3>6. ReaderWillAgree'
      <4>1. CASE due
        <5>1. chunks # <<>> /\ Last(Last(chunks)).kind = "heartbeat"
          BY <2>8, <4>1
        <5> QED
          BY <2>11, <4>1, <5>1 DEF ReaderWillAgree
      <4>2. CASE ~due
        <5>1. \A m \in ToSet(ms) : m.kind # "heartbeat"
          BY <2>7, <4>2
        <5>2. ASSUME ~torn
              PROVE  view = before
          <6>1. file \notin {None, Damaged}
            BY <2>1, <2>3, <4>2, WatchdogAssumption DEF due, HeartbeatDue, EMPTY_STATE
          <6>2. view = KeysOf(file.open)
            BY <2>9, <5>2, <6>1 DEF ReportInv, AgreeInv
          <6> QED
            BY <2>1, <6>1, <6>2 DEF before
        <5>3. ASSUME NEW k \in target, k \notin before
              PROVE  [kind |-> "opened", key |-> k] \in ToSet(ms)
          BY <2>7, <5>3
        <5>4. ASSUME NEW k \in before, k \notin target
              PROVE  [kind |-> "resolved", key |-> k] \in ToSet(ms)
          BY <2>7, <5>4
        <5>5. \A m \in Pending' : m.kind # "heartbeat"
          BY <3>4, <5>1
        <5>6. ASSUME ~torn', NEW k \in FindingKeys
              PROVE  /\ k \in target =>
                          k \in view' \/ [kind |-> "opened", key |-> k] \in Pending'
                     /\ k \in view' \ target =>
                          [kind |-> "resolved", key |-> k] \in Pending'
          <6>1. view' = before
            BY <1>2, <1>4, <5>2, <5>6
          <6> QED
            BY <3>4, <5>3, <5>4, <6>1
        <5>7. KeysOf(run'.next.open) = target /\ ~run'.beat
          BY <2>11, <3>2, <4>2
        <5> QED
          BY <5>5, <5>6, <5>7 DEF ReaderWillAgree
      <4> QED
        BY <4>1, <4>2
    <3>7. ASSUME file' = Damaged
          PROVE  due /\ ResetKey \in target
      <4>1. file = Damaged
        BY <1>4, <3>7
      <4>2. due
        BY <2>1, <2>3, <4>1, WatchdogAssumption DEF due, HeartbeatDue, EMPTY_STATE
      <4>3. STATE_RESET_RESULT \in results
        BY <2>2, <4>1
      <4>4. ResetKey \in Fresh(prev, results, STATE_RESET_RESULT, FailuresAllowed)
        BY DEF Fresh, STATE_RESET_RESULT, Passed
      <4>5. [key |-> ResetKey, check |-> STATE_RESET_RESULT.check]
              \in NextOpen(prev, results, FailuresAllowed)
        BY <4>3, <4>4, NextOpenHas
      <4>6. ResetKey \in target
        BY <4>5 DEF KeysOf, target
      <4> QED
        BY <4>2, <4>6
    <3>8. \A m \in Pending' : MessageOK(m)'
      BY <3>4, <3>5
    <3>9. run'.next.failures =
            [c \in Checks |-> IF \E r \in run'.results : r.check = c /\ r.error
                              THEN Saturated(streak'[c] + 1) ELSE 0]
      BY <1>4, <2>11, <3>3
    <3>10. StateOK(run'.next)
      BY <2>11, <3>1
    <3>11. file' = Damaged => run'.beat /\ ResetKey \in KeysOf(run'.next.open)
      BY <2>11, <3>2, <3>7
    <3>12. StateOK(run.next)' <=> StateOK(run'.next)
      BY DEF StateOK, KeysOf
    <3> QED
      BY <3>6, <3>8, <3>9, <3>10, <3>11, <3>12 DEF SendInv
  <2> QED
    BY <2>12, <2>13, <2>14, <2>15 DEF ReportInv
<1> QED
  BY <1>2, <1>3, <1>4

LEMMA ReportSendTelegram ==
    ASSUME ReportInv, SendTelegram
    PROVE  ReportInv'
<1> DEFINE head == Head(run.chunks)
           rest == Tail(run.chunks)
           n == Len(run.chunks)
           target == KeysOf(run.next.open)
<1>1. /\ pc = "send" /\ run.chunks # <<>> /\ view' = Reads(view, head)
      /\ UNCHANGED <<now, file, pc, torn, streak>>
      /\ run' = [run EXCEPT !.chunks = rest, !.sent = TRUE]
  BY DEF SendTelegram, Deliver
<1>2. run \in Runs /\ run.chunks \in Seq(Chunked)
  BY DEF ReportInv, RunInv, Runs
<1>3. /\ n \in Nat /\ n >= 1 /\ head = run.chunks[1] /\ head \in Chunked
      /\ rest \in Seq(Chunked) /\ Len(rest) = n - 1
      /\ \A i \in 1..(n - 1) : rest[i] = run.chunks[i + 1]
      /\ DOMAIN run.chunks = 1..n /\ DOMAIN rest = 1..(n - 1)
  BY <1>1, <1>2
<1> HIDE DEF head, rest, n
<1>4. /\ run' \in Runs /\ run'.chunks = rest /\ run'.sent = TRUE
      /\ run'.next = run.next /\ run'.beat = run.beat /\ run'.results = run.results
  BY <1>1, <1>2, <1>3 DEF Runs
<1>5. view \in SUBSET FindingKeys /\ head \in Seq(Message)
  BY <1>3 DEF ReportInv, AgreeInv, Chunked
<1>6. view' \in SUBSET FindingKeys
  <2>1. PICK r \in [0..Len(head) -> SUBSET FindingKeys] : r[Len(head)] = Reads(view, head)
    BY <1>5, ReadsSteps
  <2>2. Len(head) \in 0..Len(head)
    BY <1>5
  <2> QED
    BY <1>1, <2>1, <2>2
<1>7. /\ ToSet(head) \subseteq Pending
      /\ Pending' \subseteq Pending
      /\ Pending \subseteq ToSet(head) \cup Pending'
  <2>1. \A m : m \in Pending <=> \E i \in 1..n : m \in ToSet(run.chunks[i])
    BY <1>3 DEF Pending
  <2>2. \A m : m \in Pending' <=> \E i \in 1..(n - 1) : m \in ToSet(rest[i])
    BY <1>3, <1>4 DEF Pending
  <2>3. ASSUME NEW m, m \in Pending
        PROVE  m \in ToSet(head) \/ m \in Pending'
    <3>1. PICK i \in 1..n : m \in ToSet(run.chunks[i])
      BY <2>1, <2>3
    <3>2. CASE i = 1
      BY <1>3, <3>1, <3>2
    <3>3. CASE i # 1
      <4>1. i - 1 \in 1..(n - 1) /\ (i - 1) + 1 = i
        BY <1>3, <3>3
      <4>2. m \in ToSet(rest[i - 1])
        BY <1>3, <3>1, <4>1
      <4> QED
        BY <2>2, <4>1, <4>2
    <3> QED
      BY <3>2, <3>3
  <2>4. ASSUME NEW m, m \in Pending'
        PROVE  m \in Pending
    <3>1. PICK i \in 1..(n - 1) : m \in ToSet(rest[i])
      BY <2>2, <2>4
    <3>2. i + 1 \in 1..n /\ rest[i] = run.chunks[i + 1]
      BY <1>3
    <3> QED
      BY <2>1, <3>1, <3>2
  <2>5. ToSet(head) \subseteq Pending
    <3>1. 1 \in 1..n
      BY <1>3
    <3> QED
      BY <1>3, <2>1, <3>1
  <2> QED
    BY <2>3, <2>4, <2>5
<1>8. FileInv'
  BY <1>1 DEF ReportInv, FileInv, StateOK, KeysOf, ReadState, ParseState
<1>9. RunInv' /\ ResultsInv'
  BY <1>1, <1>4 DEF ReportInv, RunInv, ResultsInv
<1>10. AgreeInv'
  BY <1>4, <1>6 DEF AgreeInv
<1>11. /\ StateOK(run.next)
       /\ run.next.failures =
            [c \in Checks |-> IF \E r \in run.results : r.check = c /\ r.error
                              THEN Saturated(streak[c] + 1) ELSE 0]
       /\ \A m \in Pending : MessageOK(m)
       /\ ReaderWillAgree
       /\ file = Damaged => run.beat /\ ResetKey \in KeysOf(run.next.open)
  BY <1>1 DEF ReportInv, SendInv
<1>12. ASSUME NEW m \in Pending'
       PROVE  MessageOK(m)'
  <2>1. MessageOK(m)
    BY <1>7, <1>11
  <2> QED
    BY <1>1, <1>4, <2>1 DEF MessageOK, KeysOf
<1>13. ReaderWillAgree'
  <2>1. CASE run.beat
    <3>1. Last(Last(run.chunks)).kind = "heartbeat"
      BY <1>1, <1>11, <2>1 DEF ReaderWillAgree
    <3>2. CASE rest = <<>>
      <4>1. n = 1
        BY <1>3, <3>2
      <4>2. Last(head).kind = "heartbeat"
        BY <1>3, <3>1, <4>1 DEF Last, n
      <4>3. Last(head) \in ToSet(head)
        <5>1. Len(head) \in DOMAIN head
          BY <1>3 DEF Chunked
        <5> QED
          BY <5>1 DEF Last, ToSet
      <4>4. Last(head).keys = target
        BY <1>7, <1>11, <4>2, <4>3 DEF MessageOK
      <4>5. view' = target
        BY <1>1, <1>3, <1>5, <4>2, <4>4, ReadsHeartbeat
      <4> QED
        BY <1>4, <2>1, <3>2, <4>5 DEF ReaderWillAgree, KeysOf
    <3>3. CASE rest # <<>>
      <4>1. n - 1 \in 1..(n - 1) /\ (n - 1) + 1 = n
        BY <1>3, <3>3
      <4>2. Last(rest) = Last(run.chunks)
        BY <1>3, <4>1 DEF Last, n
      <4> QED
        BY <1>4, <2>1, <3>1, <3>3, <4>2 DEF ReaderWillAgree
    <3> QED
      BY <3>2, <3>3
  <2>2. CASE ~run.beat
    <3>1. /\ \A m \in Pending : m.kind # "heartbeat"
          /\ ~torn => \A k \in FindingKeys :
               /\ k \in target => k \in view \/ [kind |-> "opened", key |-> k] \in Pending
               /\ k \in view \ target => [kind |-> "resolved", key |-> k] \in Pending
      BY <1>11, <2>2 DEF ReaderWillAgree
    <3>2. \A i \in 1..Len(head) :
            /\ head[i].kind # "heartbeat"
            /\ head[i].kind = "opened" => head[i].key \in target
            /\ head[i].kind = "resolved" => head[i].key \notin target
      <4> SUFFICES ASSUME NEW i \in 1..Len(head)
                   PROVE  /\ head[i].kind # "heartbeat"
                          /\ head[i].kind = "opened" => head[i].key \in target
                          /\ head[i].kind = "resolved" => head[i].key \notin target
        OBVIOUS
      <4>1. head[i] \in Pending
        <5>1. head[i] \in ToSet(head)
          BY <1>5 DEF ToSet
        <5> QED
          BY <1>7, <5>1
      <4> QED
        BY <1>11, <3>1, <4>1 DEF MessageOK
    <3>3. ASSUME ~torn, NEW k \in FindingKeys
          PROVE  /\ k \in target =>
                      k \in view' \/ [kind |-> "opened", key |-> k] \in Pending'
                 /\ k \in view' \ target =>
                      [kind |-> "resolved", key |-> k] \in Pending'
      <4> HIDE DEF target
      <4>1. /\ k \in target /\ k \notin view' =>
                 k \notin view /\ [kind |-> "opened", key |-> k] \notin ToSet(head)
            /\ k \notin target /\ k \in view' =>
                 k \in view /\ [kind |-> "resolved", key |-> k] \notin ToSet(head)
        BY <1>1, <1>5, <3>2, ReadsChanges
      <4> QED
        BY <1>7, <3>1, <3>3, <4>1
    <3>4. \A m \in Pending' : m.kind # "heartbeat"
      BY <1>7, <3>1
    <3>5. KeysOf(run'.next.open) = target /\ ~run'.beat /\ torn' = torn
      BY <1>1, <1>4, <2>2
    <3> QED
      BY <3>3, <3>4, <3>5 DEF ReaderWillAgree
  <2> QED
    BY <2>1, <2>2
<1>14. SendInv'
  <2>1. StateOK(run.next)' <=> StateOK(run'.next)
    BY DEF StateOK, KeysOf
  <2>2. KeysOf(run.next.open)' = KeysOf(run'.next.open)
    BY DEF KeysOf
  <2>3. \A m \in Pending' : MessageOK(m)'
    BY <1>12
  <2>4. run'.next.failures =
            [c \in Checks |-> IF \E r \in run'.results : r.check = c /\ r.error
                              THEN Saturated(streak'[c] + 1) ELSE 0]
    BY <1>1, <1>4, <1>11
  <2> QED
    BY <1>1, <1>4, <1>11, <1>13, <2>1, <2>2, <2>3, <2>4 DEF SendInv
<1> QED
  BY <1>8, <1>9, <1>10, <1>14 DEF ReportInv

LEMMA ReportSendFails ==
    ASSUME ReportInv, SendTelegramFails
    PROVE  ReportInv'
<1>1. /\ run.chunks # <<>> /\ Exit /\ UNCHANGED <<now, file, streak>>
      /\ \/ torn' = (torn \/ run.sent) /\ UNCHANGED view
         \/ torn' = TRUE /\ view' = Reads(view, Head(run.chunks))
  BY DEF SendTelegramFails, Deliver
<1>2. FileInv'
  BY <1>1 DEF ReportInv, FileInv, StateOK, KeysOf, ReadState, ParseState
<1>3. torn' \in BOOLEAN
  BY <1>1 DEF ReportInv, RunInv
<1>4. run' = NoRun
  BY <1>1 DEF Exit
<1>5. AgreeInv'
  <2>1. CASE torn' = (torn \/ run.sent) /\ UNCHANGED view
    BY <1>1, <1>4, <2>1 DEF ReportInv, AgreeInv, KeysOf, NoRun
  <2>2. CASE torn' = TRUE /\ view' = Reads(view, Head(run.chunks))
    <3> DEFINE head == Head(run.chunks)
    <3>1. head \in Seq(Message)
      <4>1. run.chunks \in Seq(Chunked)
        BY DEF ReportInv, RunInv, Runs
      <4>2. head \in Chunked
        BY <1>1, <4>1
      <4> QED
        BY <4>2 DEF Chunked
    <3>2. view \in SUBSET FindingKeys
      BY DEF ReportInv, AgreeInv
    <3> HIDE DEF head
    <3>3. PICK r \in [0..Len(head) -> SUBSET FindingKeys] : r[Len(head)] = Reads(view, head)
      BY <3>1, <3>2, ReadsSteps
    <3>4. Len(head) \in 0..Len(head)
      BY <3>1
    <3>5. view' \in SUBSET FindingKeys
      BY <2>2, <3>3, <3>4 DEF head
    <3> QED
      BY <2>2, <3>5 DEF AgreeInv
  <2> QED
    BY <1>1, <2>1, <2>2
<1> QED
  BY <1>1, <1>2, <1>3, <1>5, ReportExit

LEMMA ReportWriteState ==
    ASSUME ReportInv, WriteState
    PROVE  ReportInv'
<1>1. /\ pc = "send" /\ run.chunks = <<>> /\ file' = run.next /\ Exit
      /\ torn' = (torn /\ ~run.beat) /\ UNCHANGED <<now, view>>
      /\ streak' = [c \in Checks |-> IF \E r \in run.results : r.check = c /\ r.error
                                     THEN Saturated(streak[c] + 1) ELSE 0]
  BY DEF WriteState
<1>2. /\ StateOK(run.next)
      /\ run.next.failures = streak'
      /\ ReaderWillAgree
  BY <1>1 DEF ReportInv, SendInv
<1>3. streak' \in [Checks -> Nat]
  <2>1. ASSUME NEW c \in Checks
        PROVE  Saturated(streak[c] + 1) \in Nat
    <3>1. streak[c] + 1 \in Nat
      BY DEF ReportInv, FileInv
    <3> QED
      BY <3>1, SaturatedOK
  <2> QED
    BY <1>1, <2>1
<1>4. file' \in States /\ file' \notin {None, Damaged}
  BY <1>1, <1>2, WatchdogAssumption DEF StateOK
<1>5. file'.failures = streak' /\ streak' # None
  BY <1>1, <1>2, <1>3, WatchdogAssumption
<1>6. FileInv'
  <2>1. ReadState(file') = [state |-> file', reset |-> FALSE]
    BY <1>4, <1>5 DEF ReadState, ParseState
  <2>2. ReadState(file').state = file'
    BY <2>1
  <2>3. ReadState(file)' = ReadState(file')
    BY DEF ReadState, ParseState
  <2>4. StateOK(file)'
    BY <1>1, <1>2 DEF StateOK, KeysOf
  <2> QED
    BY <1>3, <1>5, <2>2, <2>3, <2>4 DEF FileInv
<1>7. ~torn' => view = KeysOf(run.next.open)
  <2>1. CASE run.beat
    BY <1>1, <1>2, <2>1 DEF ReaderWillAgree
  <2>2. CASE ~run.beat
    <3>1. Pending = {}
      BY <1>1 DEF Pending
    <3>2. view \in SUBSET FindingKeys /\ KeysOf(run.next.open) \subseteq FindingKeys
      BY <1>2, KeysOfState DEF ReportInv, AgreeInv, StateOK
    <3>3. ~torn => \A k \in FindingKeys : k \in KeysOf(run.next.open) <=> k \in view
      BY <1>2, <2>2, <3>1 DEF ReaderWillAgree
    <3> QED
      BY <1>1, <2>2, <3>2, <3>3
  <2> QED
    BY <2>1, <2>2
<1>8. AgreeInv'
  BY <1>1, <1>7 DEF ReportInv, AgreeInv, KeysOf
<1>9. torn' \in BOOLEAN
  BY <1>1 DEF ReportInv, RunInv, Runs
<1> QED
  BY <1>1, <1>6, <1>8, <1>9, ReportExit

LEMMA ReportLoseState ==
    ASSUME ReportInv, LoseState
    PROVE  ReportInv'
<1>1. /\ pc = "idle" /\ torn' = TRUE /\ streak' = [c \in Checks |-> 0]
      /\ UNCHANGED <<now, pc, run, view>>
      /\ \/ file' \in {None, Damaged}
         \/ file \notin {None, Damaged} /\ file' = [file EXCEPT !.failures = None]
  BY DEF LoseState
<1>2. EMPTY_STATE.failures = streak'
  BY <1>1 DEF EMPTY_STATE
<1>3. FileInv'
  <2>1. CASE file' \in {None, Damaged}
    <3>1. ReadState(file').state = EMPTY_STATE
      BY <2>1, WatchdogAssumption DEF ReadState, ParseState
    <3>2. ReadState(file)' = ReadState(file')
      BY DEF ReadState, ParseState
    <3> QED
      BY <1>1, <1>2, <2>1, <3>1, <3>2 DEF FileInv
  <2>2. CASE file \notin {None, Damaged} /\ file' = [file EXCEPT !.failures = None]
    <3>1. StateOK(file) /\ file \in States
      BY <2>2 DEF ReportInv, FileInv, StateOK
    <3>2. file' \in States /\ file'.open = file.open /\ file'.failures = None
      BY <2>2, <3>1 DEF States
    <3>3. StateOK(file)'
      BY <3>1, <3>2 DEF StateOK
    <3>4. file' \notin {None, Damaged}
      BY <3>2, WatchdogAssumption
    <3>5. ReadState(file)' = ReadState(file')
      BY DEF ReadState, ParseState
    <3> DEFINE state == [file' EXCEPT !.failures = EMPTY_STATE.failures]
    <3>6. ReadState(file') = [state |-> state, reset |-> FALSE]
      BY <3>2, <3>4 DEF ReadState, ParseState
    <3>7. state.failures = EMPTY_STATE.failures
      BY <3>2 DEF States
    <3> HIDE DEF state
    <3>8. ReadState(file').state.failures = EMPTY_STATE.failures
      BY <3>6, <3>7
    <3> QED
      BY <1>1, <1>2, <3>3, <3>5, <3>8 DEF FileInv
  <2> QED
    BY <1>1, <2>1, <2>2
<1>4. RunInv' /\ ResultsInv' /\ SendInv'
  BY <1>1 DEF ReportInv, RunInv, ResultsInv, SendInv
<1>5. AgreeInv'
  BY <1>1 DEF ReportInv, AgreeInv
<1> QED
  BY <1>3, <1>4, <1>5 DEF ReportInv

LEMMA ReportStep ==
    ASSUME ReportInv, [WatchdogNext]_watchdogVars
    PROVE  ReportInv'
<1>1. now \in Instants
  BY DEF ReportInv, RunInv
<1>2. ASSUME NEW dryRun \in DryRuns, Start(dryRun)
      PROVE  ReportInv'
  <2>1. dryRun \in BOOLEAN
    BY WatchdogAssumption
  <2> QED
    BY <1>2, <2>1, ReportStart
<1>3. CASE CheckAuthority \/ CheckAuthorityFails \/ CheckGroups \/ CheckGroupsFails
  BY <1>3, ReportChecks
<1>4. CASE Evaluate
  BY <1>4, ReportEvaluate
<1>5. CASE EvaluateFails \/ WriteStateFails \/ Crash
  <2>1. ExitUnrecorded /\ UNCHANGED <<now, view>>
    BY <1>5 DEF EvaluateFails, WriteStateFails, Crash
  <2> QED
    BY <2>1, ReportExitUnrecorded
<1>6. CASE SendTelegram
  BY <1>6, ReportSendTelegram
<1>7. CASE SendTelegramFails
  BY <1>7, ReportSendFails
<1>8. CASE WriteState
  BY <1>8, ReportWriteState
<1>9. CASE LoseState
  BY <1>9, ReportLoseState
<1>10. CASE Tick
  <2> DEFINE later == {t \in Instants : t > now}
  <2>1. /\ later # {} /\ now' = CHOOSE t \in later : \A u \in later : t <= u
        /\ UNCHANGED <<file, pc, run, view, torn, streak>>
    BY <1>10 DEF Tick, runVars, historyVars
  <2>2. now' \in Instants
    <3>1. later \in SUBSET Nat
      BY WatchdogAssumption
    <3>2. \E t \in later : \A u \in later : t <= u
      BY <2>1, <3>1, LeastNumber
    <3>3. now' \in later
      BY <2>1, <3>2
    <3> QED
      BY <3>3
  <2> QED
    BY <2>1, <2>2, ReportUnchanged
<1>11. CASE ChainStep
  <2>1. ASSUME NEW g \in Groups, Chain!GroupStep(g)
        PROVE  now' = now
    BY <2>1 DEF Chain!GroupStep, Chain!CreateGroup, Chain!StartCycle, Chain!Distribute,
                Chain!EmergencyCancel, Chain!CloseGroup
  <2>2. now' = now /\ UNCHANGED <<file, pc, run, view, torn, streak>>
    BY <1>11, <2>1 DEF ChainStep, runVars, historyVars
  <2> QED
    BY <1>1, <2>2, ReportUnchanged
<1>12. CASE ChangeAuthority
  <2>1. now' = now /\ UNCHANGED <<file, pc, run, view, torn, streak>>
    BY <1>12 DEF ChangeAuthority, runVars, historyVars
  <2> QED
    BY <1>1, <2>1, ReportUnchanged
<1>13. CASE UNCHANGED watchdogVars
  <2>1. now' = now /\ UNCHANGED <<file, pc, run, view, torn, streak>>
    BY <1>13 DEF watchdogVars
  <2> QED
    BY <1>1, <2>1, ReportUnchanged
<1> QED
  BY <1>2, <1>3, <1>4, <1>5, <1>6, <1>7, <1>8, <1>9, <1>10, <1>11, <1>12, <1>13
  DEF WatchdogNext, RunStep

------------------------------------------------------------------------------
(* The promises                                                            *)

LEMMA ReportInvariant == WatchdogSpec => []ReportInv
<1>1. WatchdogInit => ReportInv
  BY ReportInit
<1>2. ReportInv /\ [WatchdogNext]_watchdogVars => ReportInv'
  BY ReportStep
<1> QED
  BY <1>1, <1>2, PTL DEF WatchdogSpec

\* Between runs the chat's reader and the state file agree on what is open,
\* unless messages went out unrecorded or the file was lost, and then only until
\* a heartbeat is recorded: with any number of groups, runs, faults and chunks.
THEOREM ChatMatchesFile == WatchdogSpec => []ReaderAgrees
<1>1. ReportInv => ReaderAgrees
  BY DEF ReportInv, RunInv, AgreeInv, ReaderAgrees
<1> QED
  BY <1>1, ReportInvariant, PTL

\* A check that failed in as many recorded runs in a row as the operator allows
\* is reported in the file and, but for torn runs, in the chat.
THEOREM OutagesAreReported == WatchdogSpec => []OutageReported
<1>1. ReportInv => OutageReported
  <2> SUFFICES ASSUME ReportInv, pc = "idle", file \notin {None, Damaged},
                      NEW c \in Checks, streak[c] >= FailuresAllowed
               PROVE  /\ RpcKey(c) \in KeysOf(file.open)
                      /\ ~torn => RpcKey(c) \in view
    BY DEF OutageReported, FailuresAllowed
  <2>1. /\ Readable(ReadState(file).state)
        /\ ReadState(file).state.open = file.open
        /\ streak = ReadState(file).state.failures
    BY ReadStateOK DEF ReportInv, FileInv
  <2>2. ReadState(file).state.failures # None
    BY <2>1, WatchdogAssumption DEF Readable
  <2>3. RpcKey(c) \in KeysOf(ReadState(file).state.open)
    BY <2>1, <2>2 DEF Readable, StateOK
  <2>4. RpcKey(c) \in KeysOf(file.open)
    BY <2>1, <2>3
  <2>5. ~torn => view = KeysOf(file.open)
    BY DEF ReportInv, RunInv, AgreeInv
  <2> QED
    BY <2>4, <2>5
<1> QED
  BY <1>1, ReportInvariant, PTL

\* What the chat shows in a step was waiting to be sent.
LEMMA ShownWasPending ==
    ASSUME ReportInv, [WatchdogNext]_watchdogVars, NEW i \in DOMAIN Shown
    PROVE  pc = "send" /\ Shown[i] \in Message /\ MessageOK(Shown[i])
<1>1. view' # view \/ SendTelegram
  BY DEF Shown
<1>2. pc = "send" /\ run.chunks # <<>> /\ Shown = Head(run.chunks)
  <2>1. SendTelegram \/ SendTelegramFails => pc = "send" /\ run.chunks # <<>>
    BY DEF SendTelegram, SendTelegramFails
  <2>2. view' # view => SendTelegram \/ SendTelegramFails
    <3>1. ASSUME NEW dryRun \in DryRuns, Start(dryRun)
          PROVE  view' = view
      BY <3>1 DEF Start, historyVars
    <3>2. CheckAuthority \/ CheckAuthorityFails \/ CheckGroups \/ CheckGroupsFails => view' = view
      BY DEF CheckAuthority, CheckAuthorityFails, CheckGroups, CheckGroupsFails, Record, historyVars
    <3>3. Evaluate \/ EvaluateFails \/ WriteState \/ WriteStateFails => view' = view
      BY DEF Evaluate, EvaluateFails, WriteState, WriteStateFails
    <3>4. Crash \/ LoseState \/ Tick \/ ChainStep \/ ChangeAuthority => view' = view
      BY DEF Crash, LoseState, Tick, ChainStep, ChangeAuthority, historyVars
    <3>5. UNCHANGED watchdogVars => view' = view
      BY DEF watchdogVars
    <3> QED
      BY <3>1, <3>2, <3>3, <3>4, <3>5 DEF WatchdogNext, RunStep
  <2>3. Shown = Head(run.chunks)
    BY <1>1 DEF Shown
  <2> QED
    BY <1>1, <2>1, <2>2, <2>3
<1>3. run.chunks \in Seq(Chunked)
  BY DEF ReportInv, RunInv, Runs
<1>4. 1 \in DOMAIN run.chunks /\ Head(run.chunks) = run.chunks[1] /\ run.chunks[1] \in Chunked
  BY <1>2, <1>3
<1>5. Shown[i] \in ToSet(run.chunks[1])
  BY <1>2, <1>4 DEF ToSet
<1>6. Shown[i] \in Pending
  BY <1>4, <1>5 DEF Pending
<1>7. Shown[i] \in Message
  BY <1>2, <1>4 DEF Chunked
<1> QED
  BY <1>2, <1>6, <1>7 DEF ReportInv, SendInv

\* A finding is told to be resolved only by a run that could read what the
\* finding is about: the run of a failed check keeps that check's findings.
THEOREM ResolvedWasRead == WatchdogSpec => ResolvedMeansRead
<1>1. ReportInv /\ [WatchdogNext]_watchdogVars =>
        [\A r \in run.results : r.error =>
           /\ ~Shows("resolved", RpcKey(r.check))
           /\ r.check = "upgrade-authority" => ~Shows("resolved", AuthorityKey)
           /\ r.check = "unsettled-groups" =>
                \A k \in GroupKeys : ~Shows("resolved", k)]_watchdogVars
  <2> SUFFICES ASSUME ReportInv, [WatchdogNext]_watchdogVars,
                      NEW r \in run.results, r.error, NEW k, Shows("resolved", k),
                      \/ k = RpcKey(r.check)
                      \/ r.check = "upgrade-authority" /\ k = AuthorityKey
                      \/ r.check = "unsettled-groups" /\ k \in GroupKeys
               PROVE  FALSE
    OBVIOUS
  <2>1. PICK i \in DOMAIN Shown : Shown[i].kind = "resolved" /\ Shown[i].key = k
    BY DEF Shows
  <2>2. Shown[i] \in Message /\ MessageOK(Shown[i])
    BY ShownWasPending
  <2>3. k \in FindingKeys
    BY <2>1, <2>2 DEF Message
  <2>4. k \in Owned(r.check)
    BY <2>3 DEF Owned
  <2> QED
    BY <2>1, <2>2, <2>4 DEF MessageOK
<1> QED
  BY <1>1, ReportInvariant, PTL DEF WatchdogSpec, ResolvedMeansRead

\* A damaged file is replaced only by a run that showed `state-reset` and a
\* heartbeat.
THEOREM ResetsAreReported == WatchdogSpec => ResetReported
<1>1. ReportInv /\ [WatchdogNext]_watchdogVars =>
        [file = Damaged /\ file' # Damaged /\ pc = "send" =>
           ResetKey \in view /\ view = KeysOf(file'.open)]_watchdogVars
  <2> SUFFICES ASSUME ReportInv, [WatchdogNext]_watchdogVars,
                      file = Damaged, file' # Damaged, pc = "send"
               PROVE  ResetKey \in view /\ view = KeysOf(file'.open)
    OBVIOUS
  <2>1. WriteState
    <3>1. ASSUME NEW dryRun \in DryRuns, Start(dryRun)
          PROVE  FALSE
      BY <3>1 DEF Start
    <3>2. ~(CheckAuthority \/ CheckAuthorityFails \/ CheckGroups \/ CheckGroupsFails)
      BY DEF CheckAuthority, CheckAuthorityFails, CheckGroups, CheckGroupsFails
    <3>3. ~(Evaluate \/ EvaluateFails \/ WriteStateFails)
      BY DEF Evaluate, EvaluateFails, WriteStateFails, ExitUnrecorded
    <3>4. ~(SendTelegram \/ SendTelegramFails)
      BY DEF SendTelegram, SendTelegramFails
    <3>5. ~(Crash \/ LoseState \/ Tick \/ ChainStep \/ ChangeAuthority)
      BY DEF Crash, LoseState, Tick, ChainStep, ChangeAuthority, ExitUnrecorded
    <3>6. ~UNCHANGED watchdogVars
      BY DEF watchdogVars
    <3> QED
      BY <3>1, <3>2, <3>3, <3>4, <3>5, <3>6 DEF WatchdogNext, RunStep
  <2>2. run.chunks = <<>> /\ file' = run.next
    BY <2>1 DEF WriteState
  <2>3. run.beat /\ ResetKey \in KeysOf(run.next.open) /\ ReaderWillAgree
    BY DEF ReportInv, SendInv
  <2>4. view = KeysOf(run.next.open)
    BY <2>2, <2>3 DEF ReaderWillAgree
  <2> QED
    BY <2>2, <2>3, <2>4
<1> QED
  BY <1>1, ReportInvariant, PTL DEF WatchdogSpec, ResetReported

------------------------------------------------------------------------------
(* No false alarm                                                          *)

\* The build that the watchdog watches has the period lengths of PERIOD_SECS, as
\* far as it has the frequencies.
PeriodsMirrored ==
    \A cluster \in {"mainnet", "devnet"} :
      \A f \in (0..MaxFrequency) \cap DOMAIN PERIOD_SECS[cluster] :
        PeriodSecs[f] = PERIOD_SECS[cluster][f]

\* The groups as the chain has them; one that is Active has started.
GroupsInv ==
    /\ group \in [Groups -> Chain!WatchedGroup \cup {None}]
    /\ \A g \in Groups :
         group[g] # None /\ group[g].status = "Active" => group[g].cycle_start > 0

\* A run ends before its timeout.
RunTimeInv ==
    /\ run.nowSecs <= now
    /\ pc # "idle" => now = run.nowSecs \/ now < run.nowSecs + RunTimeout

\* The cycle of the group was over for longer than the grace when the run began,
\* and if the group settled it did so during the run.
Late(g) ==
    /\ group[g] # None
    /\ group[g].cycle_start > 0
    /\ \/ group[g].status = "Active"
       \/ group[g].status \in {"Completed", "Cancelled"} /\ group[g].settled_at >= run.nowSecs
    /\ \/ group[g].frequency \notin DOMAIN PERIOD_SECS[run.config.cluster]
       \/ Chain!CycleEnd(group[g]) + run.config.graceSecs < run.nowSecs

Reported(g) == \E r \in run.results : UnsettledKey(g) \in r.findings

LateInv == pc \in {"step", "send"} => \A g \in Groups : Reported(g) => Late(g)

AlarmInv == GroupsInv /\ RunTimeInv /\ LateInv

LEMMA ConfigTypes ==
    ASSUME NEW dryRun \in BOOLEAN
    PROVE  /\ Config(Env, dryRun).cluster \in {"mainnet", "devnet"}
           /\ Config(Env, dryRun).graceSecs \in Int
<1>1. ConfigErrors(Env, FALSE) = {} /\ Env \in Environment
  BY ConfigIsValid, WatchdogAssumption
<1>2. Env.CLUSTER # "malformed"
  BY <1>1 DEF ConfigErrors
<1>3. Env.CLUSTER \in {"unset", "devnet", "mainnet"}
  BY <1>1, <1>2 DEF Environment
<1>4. ValueOr(DEFAULT_GRACE_HOURS, Env.GRACE_HOURS) \in 0..MAX_GRACE_HOURS
  BY <1>1 DEF ConfigErrors
<1>5. ValueOr(DEFAULT_GRACE_HOURS, Env.GRACE_HOURS) * HOUR \in Int
  BY <1>4 DEF HOUR
<1> QED
  BY <1>3, <1>5 DEF Config

\* The two formulas for the end of a cycle agree.
LEMMA LateWhenOverdue ==
    ASSUME PeriodsMirrored, NEW cycle \in Chain!WatchedGroup,
           NEW cluster \in {"mainnet", "devnet"},
           cycle.frequency \in DOMAIN PERIOD_SECS[cluster],
           NEW nowSecs \in Nat, NEW grace \in Int, NEW seen,
           seen.cycleStart = cycle.cycle_start, seen.frequency = cycle.frequency,
           seen.totalPeriods = cycle.total_periods,
           Overdue(seen, nowSecs, grace, cluster)
    PROVE  Chain!CycleEnd(cycle) + grace < nowSecs
<1> DEFINE start == cycle.cycle_start
           periods == cycle.total_periods
           secs == PeriodSecs[cycle.frequency]
<1>1. cycle.frequency \in 0..MaxFrequency /\ start \in Nat /\ periods \in Nat
  BY WatchdogAssumption DEF Chain!WatchedGroup, Chain!Frequencies
<1>2. PERIOD_SECS[cluster][cycle.frequency] = secs /\ secs \in Nat
  BY <1>1, WatchdogAssumption DEF PeriodsMirrored
<1>3. Chain!CycleEnd(cycle) = start + periods * secs
  BY DEF Chain!CycleEnd
<1>4. nowSecs - (start + periods * secs) > grace
  BY <1>2 DEF Overdue, WatchdogCycleEnd
<1> HIDE DEF start, periods, secs
<1>5. periods * secs \in Int
  BY <1>1, <1>2
<1> DEFINE product == periods * secs
<1> HIDE DEF product
<1>6. start + product + grace < nowSecs
  BY <1>1, <1>4, <1>5 DEF product
<1> QED
  BY <1>3, <1>6 DEF product

LEMMA AlarmInit ==
    ASSUME WatchdogInit
    PROVE  AlarmInv
<1>1. now \in Nat
  BY WatchdogAssumption DEF WatchdogInit
<1>2. GroupsInv
  BY DEF WatchdogInit, GroupsInv
<1>3. RunTimeInv /\ LateInv
  BY <1>1 DEF WatchdogInit, RunTimeInv, LateInv, NoRun
<1> QED
  BY <1>2, <1>3 DEF AlarmInv

\* Steps of the run other than the groups' check.
LEMMA AlarmKept ==
    ASSUME AlarmInv, UNCHANGED <<now, group>>,
           run'.nowSecs = run.nowSecs, run'.config = run.config, pc # "idle",
           pc' \in {"step", "send"} =>
             pc \in {"step", "send"} /\ \A g \in Groups : Reported(g)' => Reported(g)
    PROVE  AlarmInv'
<1>1. GroupsInv'
  BY DEF AlarmInv, GroupsInv, Chain!WatchedGroup, Chain!Frequencies
<1>2. RunTimeInv'
  BY DEF AlarmInv, RunTimeInv
<1>3. \A g \in Groups : Late(g) => Late(g)'
  BY DEF Late, Chain!CycleEnd
<1>4. LateInv'
  BY <1>3 DEF AlarmInv, LateInv
<1> QED
  BY <1>1, <1>2, <1>4 DEF AlarmInv

LEMMA AlarmExit ==
    ASSUME AlarmInv, ReportInv, Exit, UNCHANGED <<now, group>>
    PROVE  AlarmInv'
<1>1. now \in Nat /\ run'.nowSecs = 0 /\ pc' = "idle"
  BY WatchdogAssumption DEF ReportInv, RunInv, Exit, NoRun
<1>2. GroupsInv'
  BY DEF AlarmInv, GroupsInv, Chain!WatchedGroup, Chain!Frequencies
<1>3. RunTimeInv' /\ LateInv'
  BY <1>1 DEF RunTimeInv, LateInv
<1> QED
  BY <1>2, <1>3 DEF AlarmInv

\* The groups' check finds only groups that are late.
LEMMA AlarmCheckGroups ==
    ASSUME PeriodsMirrored, AlarmInv, ReportInv, CheckGroups
    PROVE  AlarmInv'
<1> DEFINE found == EvaluateGroups(DecodedGroups, run.nowSecs, run.config.graceSecs,
                                   run.config.cluster)
           result == Passed("unsettled-groups", found)
<1>1. /\ pc = "groups" /\ pc' = "step" /\ UNCHANGED <<now, group>>
      /\ run' = [run EXCEPT !.results = run.results \cup {result}]
  BY DEF CheckGroups, Record
<1>2. run \in Runs /\ result.findings = found
  BY DEF ReportInv, RunInv, Passed
<1> HIDE DEF result
<1>3. /\ run'.nowSecs = run.nowSecs /\ run'.config = run.config
      /\ run'.results = run.results \cup {result}
  BY <1>1, <1>2 DEF Runs
<1>4. GroupsInv'
  BY <1>1 DEF AlarmInv, GroupsInv, Chain!WatchedGroup, Chain!Frequencies
<1>5. RunTimeInv'
  BY <1>1, <1>3 DEF AlarmInv, RunTimeInv
<1>6. ASSUME NEW g \in Groups, Reported(g)'
      PROVE  Late(g)'
  <2>1. UnsettledKey(g) \in found
    <3>1. PICK r \in run.results \cup {result} : UnsettledKey(g) \in r.findings
      BY <1>3, <1>6 DEF Reported
    <3>2. PICK q : run.results = {q} /\ ResultOK(q, "upgrade-authority")
      BY <1>1 DEF ReportInv, ResultsInv
    <3>3. UnsettledKey(g) \notin q.findings
      <4>1. UnsettledKey(g) \notin Owned("upgrade-authority")
        BY KeysDiffer DEF Owned
      <4> QED
        BY <3>2, <4>1 DEF ResultOK
    <3> QED
      BY <1>2, <3>1, <3>2, <3>3
  <2>2. PICK x \in DOMAIN DecodedGroups :
          /\ UnsettledKey(x) = UnsettledKey(g)
          /\ KnownFrequency(DecodedGroups[x], run.config.cluster)
               => Overdue(DecodedGroups[x], run.nowSecs, run.config.graceSecs,
                          run.config.cluster)
    BY <2>1 DEF EvaluateGroups
  <2>3. x = g
    BY <2>2 DEF UnsettledKey
  <2>4. group[g] # None /\ group[g].status = "Active"
    BY <2>2, <2>3 DEF DecodedGroups
  <2>5. DecodedGroups[g] =
          [cycleStart |-> group[g].cycle_start, frequency |-> group[g].frequency,
           totalPeriods |-> group[g].total_periods, status |-> group[g].status]
    BY <2>4 DEF DecodedGroups
  <2>6. group[g] \in Chain!WatchedGroup /\ group[g].cycle_start > 0
    BY <2>4 DEF AlarmInv, GroupsInv
  <2>7. /\ run.config.cluster \in {"mainnet", "devnet"} /\ run.config.graceSecs \in Int
        /\ run.nowSecs \in Nat
    BY <1>2, ConfigTypes DEF Runs
  <2>8. CASE group[g].frequency \notin DOMAIN PERIOD_SECS[run.config.cluster]
    BY <1>1, <1>3, <2>4, <2>6, <2>8 DEF Late
  <2>9. CASE group[g].frequency \in DOMAIN PERIOD_SECS[run.config.cluster]
    <3> DEFINE seen == DecodedGroups[g]
    <3>1. /\ seen.cycleStart = group[g].cycle_start /\ seen.frequency = group[g].frequency
          /\ seen.totalPeriods = group[g].total_periods
      BY <2>5
    <3>2. Overdue(seen, run.nowSecs, run.config.graceSecs, run.config.cluster)
      BY <2>2, <2>3, <2>9, <3>1 DEF KnownFrequency
    <3> HIDE DEF seen
    <3>3. Chain!CycleEnd(group[g]) + run.config.graceSecs < run.nowSecs
      BY <2>6, <2>7, <2>9, <3>1, <3>2, LateWhenOverdue
    <3> QED
      BY <1>1, <1>3, <2>4, <2>6, <3>3 DEF Late, Chain!CycleEnd
  <2> QED
    BY <2>8, <2>9
<1> QED
  BY <1>4, <1>5, <1>6 DEF AlarmInv, LateInv

\* A late group stays one while the run lasts: it can settle, but its account
\* cannot close before its records may.
LEMMA AlarmChainStep ==
    ASSUME RunTimeout > 0, RunTimeout <= RetentionSecs, AlarmInv, ReportInv, ChainStep
    PROVE  AlarmInv'
<1>1. PICK x \in Groups : Chain!GroupStep(x)
  BY DEF ChainStep
<1>2. UNCHANGED <<pc, run>>
  BY DEF ChainStep, runVars
<1>3. /\ now \in Nat /\ now > 0 /\ run.nowSecs \in Nat
      /\ RunTimeout \in Nat /\ RetentionSecs \in Nat
      /\ pc # "idle" => now = run.nowSecs \/ now < run.nowSecs + RunTimeout
      /\ run.nowSecs <= now
  BY WatchdogAssumption DEF AlarmInv, RunTimeInv, ReportInv, RunInv, Runs
<1>4. now' = now
  BY <1>1 DEF Chain!GroupStep, Chain!CreateGroup, Chain!StartCycle, Chain!Distribute,
              Chain!EmergencyCancel, Chain!CloseGroup
<1>5. /\ group \in [Groups -> Chain!WatchedGroup \cup {None}]
      /\ \A g \in Groups :
           group[g] # None /\ group[g].status = "Active" => group[g].cycle_start > 0
  BY DEF AlarmInv, GroupsInv
<1> DEFINE Stays(g) ==
             /\ group'[g] \in Chain!WatchedGroup \cup {None}
             /\ group'[g] # None /\ group'[g].status = "Active" => group'[g].cycle_start > 0
             /\ pc # "idle" /\ Late(g) =>
                  /\ group'[g] # None
                  /\ group'[g].cycle_start = group[g].cycle_start
                  /\ group'[g].frequency = group[g].frequency
                  /\ group'[g].total_periods = group[g].total_periods
                  /\ \/ group'[g].status = "Active"
                     \/ /\ group'[g].status \in {"Completed", "Cancelled"}
                        /\ group'[g].settled_at >= run.nowSecs
<1>6. ASSUME NEW g \in Groups, group'[g] = group[g]
      PROVE  Stays(g)
  BY <1>5, <1>6 DEF Late
<1>7. group' \in [Groups -> Chain!WatchedGroup \cup {None}] /\ Stays(x)
  <2> USE DEF Chain!WatchedGroup
  <2>1. CASE Chain!CreateGroup(x)
    <3>1. PICK frequency \in Chain!Frequencies, periods \in PeriodCounts :
            group' = [group EXCEPT ![x] =
              [status |-> "Open", cycle_start |-> 0, settled_at |-> 0,
               frequency |-> frequency, total_periods |-> periods]]
      BY <2>1 DEF Chain!CreateGroup
    <3>2. group[x] = None
      BY <2>1 DEF Chain!CreateGroup
    <3> QED
      BY <1>5, <3>1, <3>2 DEF Late
  <2>2. CASE Chain!StartCycle(x)
    <3>1. /\ group[x] # None /\ group[x].status = "Open"
          /\ group' = [group EXCEPT ![x] =
                         [group[x] EXCEPT !.status = "Active", !.cycle_start = now]]
      BY <1>5, <2>2 DEF Chain!StartCycle
    <3> QED
      BY <1>3, <1>5, <3>1 DEF Late
  <2>3. CASE Chain!Distribute(x)
    <3>1. /\ group[x] # None /\ group[x].status = "Active"
          /\ group' = [group EXCEPT ![x] =
                         [group[x] EXCEPT !.status = "Completed", !.settled_at = now]]
      BY <1>5, <2>3 DEF Chain!Distribute
    <3> DEFINE new == [group[x] EXCEPT !.status = "Completed", !.settled_at = now]
    <3>2. /\ new \in Chain!WatchedGroup
          /\ new.status = "Completed" /\ new.settled_at = now
          /\ new.cycle_start = group[x].cycle_start /\ new.frequency = group[x].frequency
          /\ new.total_periods = group[x].total_periods
      BY <1>3, <1>5, <3>1
    <3> HIDE DEF new
    <3>3. group' = [group EXCEPT ![x] = new] /\ group'[x] = new
      BY <1>5, <3>1 DEF new
    <3>4. group' \in [Groups -> Chain!WatchedGroup \cup {None}]
      BY <1>5, <3>2, <3>3
    <3>5. pc # "idle" => now >= run.nowSecs
      BY <1>3
    <3>6. new # None
      BY <3>2, WatchdogAssumption
    <3> HIDE DEF Chain!WatchedGroup
    <3> QED
      BY <1>3, <3>1, <3>2, <3>3, <3>4, <3>5, <3>6 DEF Late
  <2>4. CASE Chain!EmergencyCancel(x)
    <3>1. /\ group[x] # None /\ group[x].status \in {"Open", "Active"}
          /\ group' = [group EXCEPT ![x] =
                         [group[x] EXCEPT !.status = "Cancelled", !.settled_at = now]]
      BY <1>5, <2>4 DEF Chain!EmergencyCancel
    <3> DEFINE new == [group[x] EXCEPT !.status = "Cancelled", !.settled_at = now]
    <3>2. /\ new \in Chain!WatchedGroup
          /\ new.status = "Cancelled" /\ new.settled_at = now
          /\ new.cycle_start = group[x].cycle_start /\ new.frequency = group[x].frequency
          /\ new.total_periods = group[x].total_periods
      BY <1>3, <1>5, <3>1
    <3> HIDE DEF new
    <3>3. group' = [group EXCEPT ![x] = new] /\ group'[x] = new
      BY <1>5, <3>1 DEF new
    <3>4. group' \in [Groups -> Chain!WatchedGroup \cup {None}]
      BY <1>5, <3>2, <3>3
    <3>5. pc # "idle" => now >= run.nowSecs
      BY <1>3
    <3>6. new # None
      BY <3>2, WatchdogAssumption
    <3> HIDE DEF Chain!WatchedGroup
    <3> QED
      BY <1>3, <3>1, <3>2, <3>3, <3>4, <3>5, <3>6 DEF Late
  <2>5. CASE Chain!CloseGroup(x)
    <3>1. /\ group[x] # None /\ group[x].status \in {"Completed", "Cancelled"}
          /\ group[x].cycle_start > 0 => now >= group[x].settled_at + RetentionSecs
          /\ group' = [group EXCEPT ![x] = None]
      BY <2>5 DEF Chain!CloseGroup, Chain!RecordRetentionEnd
    <3>2. group[x].settled_at \in Nat
      BY <1>5, <3>1
    <3>3. ~(pc # "idle" /\ Late(x))
      <4> SUFFICES ASSUME pc # "idle", Late(x)
                   PROVE  FALSE
        OBVIOUS
      <4>1. group[x].cycle_start > 0 /\ group[x].settled_at >= run.nowSecs
        BY <3>1 DEF Late
      <4> QED
        BY <1>3, <3>1, <3>2, <4>1
    <3> QED
      BY <1>5, <3>1, <3>3
  <2> QED
    BY <1>1, <2>1, <2>2, <2>3, <2>4, <2>5 DEF Chain!GroupStep
<1>8. \A g \in Groups : g # x => group'[g] = group[g]
  BY <1>1, <1>5 DEF Chain!GroupStep, Chain!CreateGroup, Chain!StartCycle, Chain!Distribute,
                    Chain!EmergencyCancel, Chain!CloseGroup
<1>9. \A g \in Groups : Stays(g)
  BY <1>6, <1>7, <1>8
<1>10. GroupsInv'
  <2>1. Chain!WatchedGroup' = Chain!WatchedGroup
    BY DEF Chain!WatchedGroup, Chain!Frequencies
  <2> QED
    BY <1>7, <1>9, <2>1 DEF GroupsInv
<1>11. RunTimeInv'
  BY <1>2, <1>4 DEF AlarmInv, RunTimeInv
<1>12. LateInv'
  <2> SUFFICES ASSUME pc \in {"step", "send"}, NEW g \in Groups, Reported(g)
               PROVE  Late(g)'
    BY <1>2 DEF LateInv, Reported
  <2>1. Late(g)
    BY DEF AlarmInv, LateInv
  <2>2. /\ group'[g] # None
        /\ group'[g].cycle_start = group[g].cycle_start
        /\ group'[g].frequency = group[g].frequency
        /\ group'[g].total_periods = group[g].total_periods
        /\ \/ group'[g].status = "Active"
           \/ /\ group'[g].status \in {"Completed", "Cancelled"}
              /\ group'[g].settled_at >= run.nowSecs
    BY <1>9, <2>1
  <2> QED
    BY <1>2, <2>1, <2>2 DEF Late, Chain!CycleEnd
<1> QED
  BY <1>10, <1>11, <1>12 DEF AlarmInv

LEMMA AlarmStart ==
    ASSUME AlarmInv, ReportInv, NEW dryRun \in BOOLEAN, Start(dryRun)
    PROVE  AlarmInv'
<1>1. /\ pc' = "authority" /\ UNCHANGED <<now, group>>
      /\ run' = [NoRun EXCEPT !.nowSecs = now, !.config = Config(Env, dryRun)]
  BY DEF Start
<1>2. now \in Nat
  BY WatchdogAssumption DEF ReportInv, RunInv
<1>3. run'.nowSecs = now
  BY <1>1 DEF NoRun
<1>4. GroupsInv'
  BY <1>1 DEF AlarmInv, GroupsInv, Chain!WatchedGroup, Chain!Frequencies
<1>5. RunTimeInv' /\ LateInv'
  BY <1>1, <1>2, <1>3 DEF RunTimeInv, LateInv
<1> QED
  BY <1>4, <1>5 DEF AlarmInv

\* A check that failed, or that of the authority, reports no group.
LEMMA AlarmOtherChecks ==
    ASSUME AlarmInv, ReportInv, CheckAuthority \/ CheckAuthorityFails \/ CheckGroupsFails
    PROVE  AlarmInv'
<1>1. PICK result, part :
        /\ Record(result, part)
        /\ \/ pc = "authority" /\ part = "groups"
           \/ pc = "groups" /\ part = "step" /\ result.findings = {}
  BY DEF CheckAuthority, CheckAuthorityFails, CheckGroupsFails, Failed
<1>2. /\ pc' = part /\ UNCHANGED <<now, group>>
      /\ run' = [run EXCEPT !.results = run.results \cup {result}]
  BY <1>1 DEF Record
<1>3. /\ run'.nowSecs = run.nowSecs /\ run'.config = run.config
      /\ run'.results = run.results \cup {result}
  BY <1>2 DEF ReportInv, RunInv, Runs
<1>4. GroupsInv'
  BY <1>2 DEF AlarmInv, GroupsInv, Chain!WatchedGroup, Chain!Frequencies
<1>5. RunTimeInv'
  BY <1>1, <1>2, <1>3 DEF AlarmInv, RunTimeInv
<1>6. LateInv'
  <2> SUFFICES ASSUME pc = "groups", part = "step", result.findings = {},
                      NEW g \in Groups, Reported(g)'
               PROVE  FALSE
    BY <1>1, <1>2 DEF LateInv
  <2>1. PICK r \in run.results \cup {result} : UnsettledKey(g) \in r.findings
    BY <1>3 DEF Reported
  <2>2. PICK q : run.results = {q} /\ ResultOK(q, "upgrade-authority")
    BY DEF ReportInv, ResultsInv
  <2>3. UnsettledKey(g) \notin Owned("upgrade-authority")
    BY KeysDiffer DEF Owned
  <2> QED
    BY <2>1, <2>2, <2>3 DEF ResultOK
<1> QED
  BY <1>4, <1>5, <1>6 DEF AlarmInv

LEMMA AlarmEvaluate ==
    ASSUME AlarmInv, ReportInv, Evaluate
    PROVE  AlarmInv'
<1> DEFINE reset == ReadState(file).reset
           results == run.results \cup (IF reset THEN {STATE_RESET_RESULT} ELSE {})
<1>1. pc = "step" /\ UNCHANGED <<now, group>>
  BY DEF Evaluate
<1>2. CASE Exit
  BY <1>1, <1>2, AlarmExit
<1>3. CASE pc' = "send"
  <2>1. PICK next, chunks, beat :
          run' = [run EXCEPT !.results = results, !.next = next, !.chunks = chunks,
                             !.beat = beat]
    BY <1>3 DEF Evaluate, ExitUnrecorded, Exit
  <2> HIDE DEF results
  <2>2. /\ run'.nowSecs = run.nowSecs /\ run'.config = run.config
        /\ run'.results = results
    BY <2>1 DEF ReportInv, RunInv, Runs
  <2>3. ASSUME NEW g \in Groups, Reported(g)'
        PROVE  Reported(g)
    <3>1. PICK r \in results : UnsettledKey(g) \in r.findings
      BY <2>2, <2>3 DEF Reported
    <3>2. UnsettledKey(g) \notin STATE_RESET_RESULT.findings
      BY KeysDiffer DEF STATE_RESET_RESULT, Passed
    <3>3. r \in run.results
      BY <3>1, <3>2 DEF results
    <3> QED
      BY <3>1, <3>3 DEF Reported
  <2> QED
    BY <1>1, <2>2, <2>3, AlarmKept
<1> QED
  BY <1>2, <1>3 DEF Evaluate, ExitUnrecorded

LEMMA AlarmSendTelegram ==
    ASSUME AlarmInv, ReportInv, SendTelegram
    PROVE  AlarmInv'
<1>1. /\ pc = "send" /\ UNCHANGED <<now, group, pc>>
      /\ run' = [run EXCEPT !.chunks = Tail(run.chunks), !.sent = TRUE]
  BY DEF SendTelegram
<1>2. /\ run'.nowSecs = run.nowSecs /\ run'.config = run.config
      /\ run'.results = run.results
  BY <1>1 DEF ReportInv, RunInv, Runs
<1>3. \A g \in Groups : Reported(g)' => Reported(g)
  BY <1>2 DEF Reported
<1> QED
  BY <1>1, <1>2, <1>3, AlarmKept

LEMMA AlarmTick ==
    ASSUME AlarmInv, ReportInv, Tick
    PROVE  AlarmInv'
<1> DEFINE later == {t \in Instants : t > now}
<1>1. /\ later # {} /\ now' = CHOOSE t \in later : \A u \in later : t <= u
      /\ pc # "idle" => now' < run.nowSecs + RunTimeout
      /\ UNCHANGED <<group, pc, run>>
  BY DEF Tick, runVars
<1>2. later \in SUBSET Nat
  BY WatchdogAssumption
<1>3. \E t \in later : \A u \in later : t <= u
  BY <1>1, <1>2, LeastNumber
<1>4. now' \in later
  BY <1>1, <1>3
<1> HIDE DEF later
<1>5. now' \in Nat /\ now \in Nat /\ now' > now /\ run.nowSecs \in Nat
  BY <1>2, <1>4, WatchdogAssumption DEF later, ReportInv, RunInv, Runs
<1>6. RunTimeInv'
  BY <1>1, <1>5 DEF AlarmInv, RunTimeInv
<1>7. GroupsInv'
  BY <1>1 DEF AlarmInv, GroupsInv, Chain!WatchedGroup, Chain!Frequencies
<1>8. LateInv'
  BY <1>1 DEF AlarmInv, LateInv, Reported, Late, Chain!CycleEnd
<1> QED
  BY <1>6, <1>7, <1>8 DEF AlarmInv

LEMMA AlarmStep ==
    ASSUME PeriodsMirrored, RunTimeout > 0, RunTimeout <= RetentionSecs,
           AlarmInv, ReportInv, [WatchdogNext]_watchdogVars
    PROVE  AlarmInv'
<1>1. ASSUME UNCHANGED <<now, group, pc, run>>
      PROVE  AlarmInv'
  <2>1. GroupsInv' /\ RunTimeInv'
    BY <1>1 DEF AlarmInv, GroupsInv, RunTimeInv, Chain!WatchedGroup, Chain!Frequencies
  <2>2. LateInv'
    BY <1>1 DEF AlarmInv, LateInv, Reported, Late, Chain!CycleEnd
  <2> QED
    BY <2>1, <2>2 DEF AlarmInv
<1>2. ASSUME NEW dryRun \in DryRuns, Start(dryRun)
      PROVE  AlarmInv'
  <2>1. dryRun \in BOOLEAN
    BY WatchdogAssumption
  <2> QED
    BY <1>2, <2>1, AlarmStart
<1>3. CASE CheckAuthority \/ CheckAuthorityFails \/ CheckGroupsFails
  BY <1>3, AlarmOtherChecks
<1>4. CASE CheckGroups
  BY <1>4, AlarmCheckGroups
<1>5. CASE Evaluate
  BY <1>5, AlarmEvaluate
<1>6. CASE SendTelegram
  BY <1>6, AlarmSendTelegram
<1>7. CASE EvaluateFails \/ SendTelegramFails \/ WriteState \/ WriteStateFails \/ Crash
  <2>1. Exit /\ UNCHANGED <<now, group>>
    BY <1>7 DEF EvaluateFails, SendTelegramFails, WriteState, WriteStateFails, Crash,
                ExitUnrecorded
  <2> QED
    BY <2>1, AlarmExit
<1>8. CASE LoseState \/ ChangeAuthority \/ UNCHANGED watchdogVars
  <2>1. UNCHANGED <<now, group, pc, run>>
    BY <1>8 DEF LoseState, ChangeAuthority, watchdogVars, runVars
  <2> QED
    BY <1>1, <2>1
<1>9. CASE Tick
  BY <1>9, AlarmTick
<1>10. CASE ChainStep
  BY <1>10, AlarmChainStep
<1> QED
  BY <1>2, <1>3, <1>4, <1>5, <1>6, <1>7, <1>8, <1>9, <1>10 DEF WatchdogNext, RunStep

\* An alert is true when it is sent, also when other runs of the same instant, lost
\* answers, crashes and settlements come between the read and the message: the
\* group's cycle was over for longer than the grace when the run began, and a
\* failing check failed as often in a row as the operator allows.  It rests on the
\* script's period lengths being the build's and on a run's timeout being no
\* longer than the retention of a settled group.
THEOREM AlarmsAreTrue ==
    ASSUME PeriodsMirrored, RunTimeout > 0, RunTimeout <= RetentionSecs
    PROVE  WatchdogSpec => NoFalseAlarm
<1> DEFINE Inv == ReportInv /\ AlarmInv
<1>1. WatchdogInit => Inv
  BY ReportInit, AlarmInit
<1>2. Inv /\ [WatchdogNext]_watchdogVars => Inv'
  BY ReportStep, AlarmStep
<1>3. Inv /\ [WatchdogNext]_watchdogVars =>
        [/\ \A g \in Groups : Shows("opened", UnsettledKey(g)) =>
              /\ group[g] # None
              /\ group[g].status \in {"Active", "Completed", "Cancelled"}
              /\ \/ group[g].frequency \notin DOMAIN PERIOD_SECS[run.config.cluster]
                 \/ Chain!CycleEnd(group[g]) + run.config.graceSecs < run.nowSecs
         /\ \A c \in Checks : Shows("opened", RpcKey(c)) =>
              streak[c] + 1 >= run.config.failuresBeforeAlert]_watchdogVars
  <2> SUFFICES ASSUME ReportInv, AlarmInv, [WatchdogNext]_watchdogVars
               PROVE  /\ \A g \in Groups : Shows("opened", UnsettledKey(g)) => Late(g)
                      /\ \A c \in Checks : Shows("opened", RpcKey(c)) =>
                           streak[c] + 1 >= run.config.failuresBeforeAlert
    BY DEF Late
  <2>1. ASSUME NEW k, Shows("opened", k)
        PROVE  \E m : /\ pc = "send" /\ MessageOK(m)
                      /\ m.kind = "opened" /\ m.key = k
    BY <2>1, ShownWasPending DEF Shows
  <2>2. ASSUME NEW g \in Groups, Shows("opened", UnsettledKey(g))
        PROVE  Late(g)
    <3>1. UnsettledKey(g) \in GroupKeys
      BY DEF GroupKeys
    <3>2. pc = "send" /\ Reported(g)
      BY <2>1, <2>2, <3>1 DEF MessageOK, Reported
    <3> QED
      BY <3>2 DEF AlarmInv, LateInv
  <2>3. ASSUME NEW c \in Checks, Shows("opened", RpcKey(c))
        PROVE  streak[c] + 1 >= run.config.failuresBeforeAlert
    <3>1. streak[c] + 1 >= FailuresAllowed
      BY <2>1, <2>3 DEF MessageOK
    <3>2. run.config.failuresBeforeAlert = FailuresAllowed
      BY ConfigAllowed DEF ReportInv, RunInv, Runs
    <3> QED
      BY <3>1, <3>2
  <2> QED
    BY <2>2, <2>3
<1> HIDE DEF Inv
<1> QED
  BY <1>1, <1>2, <1>3, PTL DEF WatchdogSpec, NoFalseAlarm

==============================================================================
